------------------------------- MODULE MCUart -------------------------------
(* A reader and a writer, FIFOs of two bytes, and one semaphore more. *)
EXTENDS BufferedUart, TLC

CONSTANTS t1, s1, s2, s3
Equal == (Idle :> 0) @@ (t1 :> 1) @@ (Main :> 1)
Sems == ("RXNE" :> s1) @@ ("TXNF" :> s2) @@ ("TXE" :> s3)
=============================================================================
