------------------------------- MODULE MCPipe -------------------------------
(* A buffer of four bytes, chunks up to more than it holds.                *)
EXTENDS HostbridgePipe
=============================================================================
