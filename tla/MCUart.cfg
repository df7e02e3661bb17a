CONSTANTS
  t1 = t1
  s1 = s1
  s2 = s2
  s3 = s3
  Idle = idle
  Main = main
  Thread = {idle, main, t1}
  Priority <- Equal
  RoundRobin = {main, t1}
  Ready = ready
  Sem = {s1, s2, s3, s4}
  InitialValue = 0
  SEM_VALUE_MAX = 1
  Sleeping = sleeping
  WaitList = {s1, s2, s3, s4, sleeping}
  NULL = NULL
  SemOf <- Sems
  Reader = t1
  Writer = main
  Depth = 2
  MaxLen = 2
SPECIFICATION FairUartSpec
INVARIANT WaiterArmed
PROPERTIES ImplementsSemaphore UartServed
