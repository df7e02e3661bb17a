CONSTANTS
  t1 = t1
  t2 = t2
  Idle = idle
  Main = main
  Thread = {idle, main, t1, t2}
  Priority <- Mixed
  RoundRobin = {main, t1, t2}
  Ready = ready
  Sleeping = sleeping
  WaitList = {sleeping}
  NULL = NULL
  TimeMod = 16
  TickUs = 2
  Interval = 2
  Sleeper = {main, t1}
  Durations = {1, 3, 4}
  MaxDuration = 4
SPECIFICATION FairSleepSpec
INVARIANTS NoOversleep AtMostOneTickLate
PROPERTY SleepEnds
