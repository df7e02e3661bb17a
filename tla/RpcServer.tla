------------------------------ MODULE RpcServer ------------------------------
(***************************************************************************)
(* The RPC server (peridot_rpc_server.c): the host's packets become jobs,  *)
(* which the server's workers take one at a time from a single slot,       *)
(* pending_job.  The server answers the request of a synchronous method,   *)
(* and every request it cannot serve.  An asynchronous method keeps the    *)
(* job and answers it later, from any thread, with async_callback.         *)
(* Answering sends a reply if the request has an id and if there is memory *)
(* for one, and frees the job, also on the two paths of send_reply that    *)
(* find no memory; they are one free here, as is the whole of send_reply.  *)
(*                                                                         *)
(* A job is the memory malloc gave to one packet of the host; when it is   *)
(* freed the host may send another request in it.  Packets have at least   *)
(* the five bytes of an empty document and begin only where the last one   *)
(* has ended.  What an asynchronous method does is left open here (module  *)
(* RubicAgent).                                                            *)
(***************************************************************************)
EXTENDS Integers, FiniteSets

CONSTANTS
  Job,
  RpcWorker,   \* the threads that run peridot_rpc_server_worker
  Request,     \* what the host may send: records with a field method
  NULL

ASSUME RpcAssumption ==
  /\ NULL \notin Job
  /\ \A q \in Request : q.method \in {"sync", "async", "invalid"}

VARIABLES
  memory,        \* of each job: "free", "used", or "broken" by a second free
  request,       \* what each job holds
  incoming_job,
  pending_job,
  rpc_sem,       \* state.sem
  rpc            \* each worker's place in peridot_rpc_server_service, its job

rpcVars == <<memory, request, incoming_job, pending_job, rpc_sem, rpc>>

\* What a job held is lost when it is freed.
free(j) ==
  /\ memory' = [memory EXCEPT ![j] = IF @ = "used" THEN "free" ELSE "broken"]
  /\ request' = [request EXCEPT ![j] = NULL]

-----------------------------------------------------------------------------
(* peridot_rpc_server_sink, in the thread of the host bridge.  It takes no  *)
(* byte while a job is pending.                                             *)

\* The length of a packet arrives.  Without memory, or with a length beyond
\* the limit, the rest of the packet is dropped.
SinkBegin(j, q) ==
  /\ pending_job = NULL
  /\ incoming_job = NULL
  /\ memory[j] = "free"
  /\ memory' = [memory EXCEPT ![j] = "used"]
  /\ request' = [request EXCEPT ![j] = q]
  /\ incoming_job' = j
  /\ UNCHANGED <<pending_job, rpc_sem, rpc>>

\* A packet whose size is not the length it has announced.
SinkDrop ==
  /\ pending_job = NULL
  /\ incoming_job # NULL
  /\ free(incoming_job)
  /\ incoming_job' = NULL
  /\ UNCHANGED <<pending_job, rpc_sem, rpc>>

\* A faulty variant: the post is left out while a worker is busy.
SinkEndPostIfIdle ==
  /\ pending_job = NULL
  /\ incoming_job # NULL
  /\ pending_job' = incoming_job
  /\ incoming_job' = NULL
  /\ rpc_sem' = IF \A s \in RpcWorker : rpc[s].pc = "wait" THEN rpc_sem + 1 ELSE rpc_sem
  /\ UNCHANGED <<memory, request, rpc>>

\* The last byte of a packet.  No worker looks at the slot between the store
\* and the post: it needs the post.
SinkEnd ==
  /\ pending_job = NULL
  /\ incoming_job # NULL
  /\ pending_job' = incoming_job
  /\ incoming_job' = NULL
  /\ rpc_sem' = rpc_sem + 1
  /\ UNCHANGED <<memory, request, rpc>>

-----------------------------------------------------------------------------
(* peridot_rpc_server_service *)

At(s, pc) == rpc[s].pc = pc
Step(s, pc) == rpc' = [rpc EXCEPT ![s].pc = pc]
Return(s) == rpc' = [rpc EXCEPT ![s] = [pc |-> "wait", job |-> NULL]]

ServiceWait(s) ==
  /\ At(s, "wait")
  /\ rpc_sem > 0
  /\ rpc_sem' = rpc_sem - 1
  /\ Step(s, "take")
  /\ UNCHANGED <<memory, request, incoming_job, pending_job>>

\* job = state.pending_job ...
ServiceTake(s) ==
  /\ At(s, "take")
  /\ rpc' = [rpc EXCEPT ![s] = [pc |-> "clear", job |-> pending_job]]
  /\ UNCHANGED <<memory, request, incoming_job, pending_job, rpc_sem>>

\* A faulty variant: the slot is not emptied.
ServiceKeep(s) ==
  /\ At(s, "clear")
  /\ IF rpc[s].job = NULL THEN Return(s) ELSE Step(s, "dispatch")
  /\ UNCHANGED <<memory, request, incoming_job, pending_job, rpc_sem>>

\* ... state.pending_job = NULL.
ServiceClear(s) ==
  /\ At(s, "clear")
  /\ pending_job' = NULL
  /\ IF rpc[s].job = NULL THEN Return(s) ELSE Step(s, "dispatch")
  /\ UNCHANGED <<memory, request, incoming_job, rpc_sem>>

\* A document that does not parse, a method nobody has registered, and a
\* synchronous method: the service answers.
ServiceSync(s) ==
  /\ At(s, "dispatch") /\ request[rpc[s].job].method # "async"
  /\ free(rpc[s].job)
  /\ Return(s)
  /\ UNCHANGED <<incoming_job, pending_job, rpc_sem>>

\* An asynchronous method is called with the job.
ServiceAsync(s) ==
  /\ At(s, "dispatch") /\ request[rpc[s].job].method = "async"
  /\ Step(s, "async")
  /\ UNCHANGED <<memory, request, incoming_job, pending_job, rpc_sem>>

\* The method keeps the job ...
AsyncAccept(s) ==
  /\ At(s, "async")
  /\ rpc' = [rpc EXCEPT ![s] = [pc |-> "accepted", job |-> NULL]]
  /\ UNCHANGED <<memory, request, incoming_job, pending_job, rpc_sem>>

\* ... and returns 0; another thread may have answered the job by then.
AsyncReturn(s) ==
  /\ At(s, "accepted")
  /\ Return(s)
  /\ UNCHANGED <<memory, request, incoming_job, pending_job, rpc_sem>>

\* The method returns an error, which the service answers.
AsyncRefuse(s) ==
  /\ At(s, "async")
  /\ free(rpc[s].job)
  /\ Return(s)
  /\ UNCHANGED <<incoming_job, pending_job, rpc_sem>>

\* A method answers a job that it has accepted.
InServer(j) == j \in {incoming_job, pending_job} \cup {rpc[s].job : s \in RpcWorker}
Accepted(j) == memory[j] = "used" /\ ~InServer(j)

AsyncCallback(j) ==
  /\ Accepted(j)
  /\ free(j)
  /\ UNCHANGED <<incoming_job, pending_job, rpc_sem, rpc>>

-----------------------------------------------------------------------------

\* peridot_rpc_server_init
RpcInit ==
  /\ memory = [j \in Job |-> "free"]
  /\ request = [j \in Job |-> NULL]
  /\ incoming_job = NULL
  /\ pending_job = NULL
  /\ rpc_sem = 0
  /\ rpc = [s \in RpcWorker |-> [pc |-> "wait", job |-> NULL]]

SinkStep == SinkDrop \/ SinkEnd \/ \E j \in Job, q \in Request : SinkBegin(j, q)

\* The service up to the call of an asynchronous method.
ServiceStep(s) ==
  ServiceWait(s) \/ ServiceTake(s) \/ ServiceClear(s) \/ ServiceSync(s) \/ ServiceAsync(s)

RpcNext ==
  \/ SinkStep
  \/ \E s \in RpcWorker :
       ServiceStep(s) \/ AsyncAccept(s) \/ AsyncReturn(s) \/ AsyncRefuse(s)
  \/ \E j \in Job : AsyncCallback(j)

RpcSpec == RpcInit /\ [][RpcNext]_rpcVars

-----------------------------------------------------------------------------
(* Properties *)

\* The types: a worker has a job from the load of the slot until it has
\* answered the job or an asynchronous method has accepted it.
RpcTypeOK ==
  /\ memory \in [Job -> {"free", "used", "broken"}]
  /\ incoming_job \in Job \cup {NULL} /\ pending_job \in Job \cup {NULL}
  /\ rpc_sem \in Nat
  /\ rpc \in [RpcWorker -> [pc : {"wait", "take", "accepted"}, job : {NULL}]
                      \cup [pc : {"clear"}, job : Job \cup {NULL}]
                      \cup [pc : {"dispatch", "async"}, job : Job]]

\* No job is freed twice, and a job that the server refers to has not been
\* freed and is nowhere else in the server: no packet overwrites the slot, no
\* two workers take one job, whatever the sink, the workers and the methods
\* overlap (peridot_rpc_server_sink, _service and _async_callback).
ServerOwnsJobs ==
  /\ \A j \in Job : memory[j] # "broken" /\ (InServer(j) => memory[j] = "used")
  /\ incoming_job # NULL => incoming_job # pending_job
  /\ \A s \in RpcWorker : rpc[s].job # NULL =>
       /\ rpc[s].job # incoming_job
       /\ rpc[s].job = pending_job => At(s, "clear")
       /\ \A u \in RpcWorker : rpc[u].job = rpc[s].job => u = s

\* The slot holds a job only while a worker has been called or is about to
\* take it: neither the post of the sink nor the emptying of the slot by the
\* service gets lost, whatever they overlap.
SlotAnnounced ==
  pending_job # NULL =>
    rpc_sem > 0 \/ \E s \in RpcWorker : At(s, "take") \/ At(s, "clear")
=============================================================================
