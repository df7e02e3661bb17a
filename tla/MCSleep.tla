------------------------------ MODULE MCSleep -------------------------------
(* A tick of two units of time, a clock that wraps around after 16.        *)
EXTENDS TthSleep, TLC

CONSTANTS t1, t2
Mixed == (Idle :> 0) @@ (t1 :> 1) @@ (t2 :> 1) @@ (Main :> 2)
=============================================================================
