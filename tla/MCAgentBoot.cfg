CONSTANTS
  NULL = NULL
  Job = {j1, j2}
  RpcWorker = {s1}
  Request <- MCRequest
  WORKER_THREADS = 1
  BootFile = TRUE
  SEM_VALUE_MAX = 2
SPECIFICATION AgentSpec
INVARIANT StartContext
CHECK_DEADLOCK FALSE
