CONSTANTS
  Vfd = {0, 1}
  Fd = {f1, f2}
  Worker = {w1, w2}
  CloseResult = {TRUE}
  NOBODY = NOBODY
SPECIFICATION FsSpec
INVARIANT ReleasesAllocated
