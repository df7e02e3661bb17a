----------------------------- MODULE MCThread -------------------------------
(***************************************************************************)
(* What the main thread and two others do with one another, one thing at a *)
(* time: create, join, detach and exit; allocate; call pthread_once, where *)
(* the allocator's mutex is the other one that they use.  One thread is    *)
(* above the others; the others share a priority, and all have time        *)
(* slices, as by default.                                                  *)
(***************************************************************************)
EXTENDS TthThread, TthHeap, TthOnce, TLC

CONSTANTS t1, t2
Mixed == (Idle :> 0) @@ (t1 :> 2) @@ (t2 :> 1) @@ (Main :> 1)

VARIABLE part  \* the part that moves

NoLife == detachstate = [t \in Thread |-> "joinable"] /\ stack = [t \in Thread |-> "none"] /\ claimed = {}

NoLocks ==
  /\ owner = [m \in Mutex |-> NULL] /\ held = [t \in Thread |-> {}]
  /\ locks = 0 /\ reg = [t \in Thread |-> 0] /\ depth = [t \in Thread |-> 0]
  /\ step = [t \in Thread |-> "out"] /\ overtaken = FALSE
  /\ onceDone = FALSE /\ place = [t \in Thread |-> "out"] /\ routine = [started |-> 0, ended |-> 0]

Init ==
  \/ part = "thread" /\ ThreadInit /\ NoLocks
  \/ part \in {"heap", "once"} /\ HeapInit /\ OnceInit /\ NoLife

Life == part = "thread" /\ ThreadNext /\ UNCHANGED <<part, mutexVars, heapVars, onceVars>>
Allocator == part = "heap" /\ HeapNext /\ UNCHANGED <<part, lifeVars, onceVars>>
Routine == part = "once" /\ OnceNext /\ UNCHANGED <<part, lifeVars, heapVars>>

Next == Life \/ Allocator \/ Routine

Spec == Init /\ [][Next]_<<part, threadVars, mutexVars, heapVars, onceVars>>

\* Behind a takeover of the mutex nothing is claimed of the allocator.
NotOvertaken == ~overtaken
=============================================================================
