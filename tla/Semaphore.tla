----------------------------- MODULE Semaphore ------------------------------
(***************************************************************************)
(* What a counting semaphore promises: a wait returns only by consuming a  *)
(* token that was posted, and no token is lost or consumed twice.          *)
(***************************************************************************)
EXTENDS Integers

CONSTANTS Sem, Thread, Initial

VARIABLES
  avail,   \* the tokens of each semaphore nobody has consumed
  waiting  \* the threads that have called wait and not returned

svars == <<avail, waiting>>

Init == avail = [s \in Sem |-> Initial] /\ waiting = [s \in Sem |-> {}]

Post(s) == avail' = [avail EXCEPT ![s] = @ + 1] /\ UNCHANGED waiting

\* A wait, or a trywait, that finds a token.
Take(s) ==
  /\ avail[s] > 0
  /\ avail' = [avail EXCEPT ![s] = @ - 1]
  /\ UNCHANGED waiting

Wait(s, t) ==
  /\ \A r \in Sem : t \notin waiting[r]
  /\ waiting' = [waiting EXCEPT ![s] = @ \cup {t}]
  /\ UNCHANGED avail

\* A thread that waits consumes a token and returns.
Return(s, t) ==
  /\ t \in waiting[s] /\ avail[s] > 0
  /\ waiting' = [waiting EXCEPT ![s] = @ \ {t}]
  /\ avail' = [avail EXCEPT ![s] = @ - 1]

Next ==
  \E s \in Sem : Post(s) \/ Take(s) \/ \E t \in Thread : Wait(s, t) \/ Return(s, t)

Spec == Init /\ [][Next]_svars
=============================================================================
