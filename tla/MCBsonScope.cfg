CONSTANTS
  Byte = {b1, b2}
  Slave = {x, y}
  MaxLen = 2
  NULL = NULL
  Thread = {t1, t2}
  Data = {d1, d2}
  Sectors = 3
  Pages = 2
  Start = 1
  End = 3
  MaxCount = 2
  NONE = NONE
  Key <- Keys
  Text <- Texts
  Number <- Numbers
  Binary <- Binaries
  Others <- ForeignElements
  MaxElements = 2
  MaxNested = 1
  MaxRoom = 2147483647
  Behind <- Remains
  Vfd = {0, 1}
  Fd = {f1, f2}
  Worker = {w1, w2, w3}
  CloseResult = {TRUE, FALSE}
  NOBODY = NOBODY
SYMMETRY Symmetry
SPECIFICATION Spec
INVARIANT RequestIsRead
