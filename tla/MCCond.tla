------------------------------- MODULE MCCond -------------------------------
(* Two threads and the main thread, of one priority and with time slices,  *)
(* which is what threads get by default, over one mutex and one condition. *)
(* MCMutexExclusion.cfg does without the condition.                        *)
EXTENDS TthCond, TLC

CONSTANTS t1, t2
\* MCCondPriority.cfg: each thread has a priority of its own.
Distinct == (Idle :> 0) @@ (t1 :> 2) @@ (t2 :> 3) @@ (Main :> 1)
Equal == (Idle :> 0) @@ (t1 :> 1) @@ (t2 :> 1) @@ (Main :> 1)
=============================================================================
