CONSTANTS
  t1 = t1
  t2 = t2
  Idle = idle
  Main = main
  Thread = {idle, main, t1, t2}
  Priority <- Equal
  RoundRobin = {main, t1, t2}
  Ready = ready
  Mutex = {m1}
  Cond = {c1}
  Sleeping = sleeping
  WaitList = {m1, c1, sleeping}
  NULL = NULL
SPECIFICATION FairCondSpec
INVARIANTS SchedulerSound NoStrandedWaiter OwnerWillUnlock CondWaitersCalled
PROPERTY WaiterServed
