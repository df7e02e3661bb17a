CONSTANTS
  Vfd = {0, 1}
  Fd = {f1, f2}
  Worker = {w1}
  CloseResult = {TRUE, FALSE}
  NOBODY = NOBODY
SPECIFICATION FsSpec
INVARIANT EntriesOpen
