CONSTANTS
  t1 = t1
  t2 = t2
  Idle = idle
  Main = main
  Thread = {idle, main, t1, t2}
  Priority <- Mixed
  RoundRobin = {main, t1, t2}
  Ready = ready
  Sleeping = sleeping
  Detached = detached
  Mutex = {heap, once}
  Heap = heap
  MaxDepth = 2
  LocksBound = 2
  Once = once
  WaitList = {idle, main, t1, t2, sleeping, detached, heap, once}
  NULL = NULL
SPECIFICATION Spec
CONSTRAINT NotOvertaken
INVARIANT DetachedReclaimed
