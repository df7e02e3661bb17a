------------------------------ MODULE ByteQueue ------------------------------
(* What a pipe promises: a queue of at most Bound bytes.  A write appends   *)
(* some bytes, a read takes some off the front and returns them in order.   *)
EXTENDS Naturals, Sequences

CONSTANTS Byte, Bound

VARIABLES
  queue,  \* the bytes written and not yet read
  got     \* what the last read returned

Write ==
  /\ Len(queue') \in Len(queue)+1..Bound
  /\ SubSeq(queue', 1, Len(queue)) = queue
  /\ \A i \in DOMAIN queue' : queue'[i] \in Byte
  /\ UNCHANGED got

Read ==
  \E n \in 1..Len(queue) :
    /\ got' = SubSeq(queue, 1, n)
    /\ queue' = SubSeq(queue, n+1, Len(queue))

Spec == queue = <<>> /\ got = <<>> /\ [][Write \/ Read]_<<queue, got>>
=============================================================================
