CONSTANTS
  NULL = NULL
  Job = {j1, j2}
  RpcWorker = {s1}
  Request <- MCRequest
  WORKER_THREADS = 1
  BootFile = TRUE
  SEM_VALUE_MAX = 2
SPECIFICATION FairAgentSpec
INVARIANTS ServerOwnsJobs SlotAnnounced LiveRequests
PROPERTIES ImplementsRpc ServerResponds AbortEnds
CHECK_DEADLOCK FALSE
