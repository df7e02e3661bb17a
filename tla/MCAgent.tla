------------------------------- MODULE MCAgent -------------------------------
(* The server and the agent with one thread each, as in system.h, and what  *)
(* a host sends: a synchronous method, a start without and with a worker,   *)
(* and the three requests to a running program.                             *)
EXTENDS RubicAgent

Queue(name, tid) == [method |-> "async", name |-> name, tid |-> tid]

MCRequest ==
  {[method |-> "sync"], Queue("start", -1), Queue("start", 0),
   Queue("abort", 0), Queue("callback", 0), Queue("other", 0)}

=============================================================================
