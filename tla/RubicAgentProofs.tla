-------------------------- MODULE RubicAgentProofs --------------------------
(***************************************************************************)
(* The RPC server and the agent that runs over it, for any number of jobs, *)
(* of threads of the server and of workers.  The argument for the server:  *)
(* a packet in the slot and a call of a worker come and go together, so    *)
(* there is at most one worker between its call and the emptying of the    *)
(* slot, and it finds the packet there.                                    *)
(*                                                                         *)
(* The agent implements the promise the server relies on: it answers only  *)
(* what it has accepted, once.  The argument: as long as a worker has      *)
(* a request to answer, the request is accepted and in one place; a thread *)
(* of the server fills a context only with what it owned until then; and   *)
(* the start request cannot be replaced once it has been taken, because    *)
(* the worker is not idle and its context is not empty.                    *)
(***************************************************************************)
EXTENDS RubicAgent, TLAPS

-----------------------------------------------------------------------------
(* The server *)

Taking(s) == At(s, "take") \/ At(s, "clear")

\* The call for the packet in the slot: counted, or with one worker.
OneCall ==
  /\ rpc_sem # 0 =>
       rpc_sem = 1 /\ pending_job # NULL /\ \A s \in RpcWorker : ~Taking(s)
  /\ \A s \in RpcWorker : Taking(s) =>
       /\ pending_job # NULL
       /\ At(s, "clear") => rpc[s].job = pending_job
       /\ \A u \in RpcWorker : Taking(u) => u = s

\* The places of the server where a job may be.
Owned ==
  /\ incoming_job # NULL => memory[incoming_job] = "used" /\ pending_job = NULL
  /\ pending_job # NULL => memory[pending_job] = "used"
  /\ \A s \in RpcWorker : rpc[s].job # NULL =>
       /\ memory[rpc[s].job] = "used"
       /\ rpc[s].job # incoming_job
       /\ rpc[s].job = pending_job => At(s, "clear")
       /\ \A u \in RpcWorker : rpc[u].job = rpc[s].job => u = s
  /\ \A j \in Job : memory[j] # "broken"

RpcInv == RpcTypeOK /\ OneCall /\ SlotAnnounced /\ Owned

-----------------------------------------------------------------------------

\* What the invariant says of InServer.
LEMMA OwnedImpliesServerOwnsJobs == RpcInv => ServerOwnsJobs
  BY RpcAssumption DEF RpcInv, RpcTypeOK, Owned, ServerOwnsJobs, InServer, At

\* peridot_rpc_server_init leaves every list and slot empty.
LEMMA RpcInitInv == RpcInit => RpcInv
  BY RpcAssumption DEF RpcInit, RpcInv, RpcTypeOK, OneCall, SlotAnnounced, Owned, Taking, At

\* The sink stores and frees only what no worker has.
LEMMA SinkKeepsInv == RpcInv /\ SinkStep => RpcInv'
<1> SUFFICES ASSUME RpcInv, SinkStep PROVE RpcInv'
  OBVIOUS
<1> USE RpcAssumption DEF RpcInv, RpcTypeOK, OneCall, SlotAnnounced, Owned, Taking, At
<1>1. ASSUME NEW j \in Job, NEW q \in Request, SinkBegin(j, q) PROVE RpcInv'
  BY <1>1 DEF SinkBegin
<1>2. CASE SinkDrop
  BY <1>2 DEF SinkDrop, free
<1>3. CASE SinkEnd
  BY <1>3 DEF SinkEnd
<1> QED
  BY <1>1, <1>2, <1>3 DEF SinkStep

\* One step of a worker, one case for each statement of the service.
LEMMA WorkerKeepsInv ==
  ASSUME NEW s \in RpcWorker, RpcInv,
         ServiceStep(s) \/ AsyncAccept(s) \/ AsyncReturn(s) \/ AsyncRefuse(s)
  PROVE  RpcInv'
<1> USE RpcAssumption DEF RpcInv, RpcTypeOK, OneCall, SlotAnnounced, Owned, Taking, At
<1>1. CASE ServiceWait(s)
  BY <1>1 DEF ServiceWait, Step
<1>2. CASE ServiceTake(s)
  BY <1>2 DEF ServiceTake
<1>3. CASE ServiceClear(s)
  BY <1>3 DEF ServiceClear, Step, Return
<1>4. CASE ServiceSync(s)
  BY <1>4 DEF ServiceSync, Return, free
<1>5. CASE ServiceAsync(s)
  BY <1>5 DEF ServiceAsync, Step
<1>6. CASE AsyncAccept(s)
  BY <1>6 DEF AsyncAccept
<1>7. CASE AsyncReturn(s)
  BY <1>7 DEF AsyncReturn, Return
<1>8. CASE AsyncRefuse(s)
  BY <1>8 DEF AsyncRefuse, Return, free
<1> QED
  BY <1>1, <1>2, <1>3, <1>4, <1>5, <1>6, <1>7, <1>8 DEF ServiceStep

\* An answer frees a job that is nowhere in the server.
LEMMA CallbackKeepsInv ==
  ASSUME NEW j \in Job, RpcInv, AsyncCallback(j)
  PROVE  RpcInv'
  BY RpcAssumption DEF AsyncCallback, Accepted, InServer, free,
     RpcInv, RpcTypeOK, OneCall, SlotAnnounced, Owned, Taking, At

\* Every step of the sink, of a worker and of a method keeps the invariant.
LEMMA RpcNextKeepsInv == RpcInv /\ [RpcNext]_rpcVars => RpcInv'
<1> SUFFICES ASSUME RpcInv, [RpcNext]_rpcVars PROVE RpcInv'
  OBVIOUS
<1>1. CASE RpcNext
  BY <1>1, SinkKeepsInv, WorkerKeepsInv, CallbackKeepsInv DEF RpcNext
<1>2. CASE UNCHANGED rpcVars
  BY <1>2 DEF rpcVars, RpcInv, RpcTypeOK, OneCall, SlotAnnounced, Owned, Taking, At
<1> QED
  BY <1>1, <1>2

\* The invariant holds of every state the server can reach.
THEOREM RpcInvariant == RpcSpec => []RpcInv
  BY RpcInitInv, RpcNextKeepsInv, PTL DEF RpcSpec

\* For any number of jobs and workers, no job is freed twice and every job the
\* server refers to has not been freed and is in one place only.
THEOREM ServerOwnsItsJobs == RpcSpec => []ServerOwnsJobs
  BY RpcInvariant, OwnedImpliesServerOwnsJobs, PTL

\* For any number of jobs and workers, a packet in the slot has a worker that
\* is called for it or is taking it.
THEOREM SlotIsAnnounced == RpcSpec => []SlotAnnounced
<1>1. RpcInv => SlotAnnounced
  BY DEF RpcInv
<1> QED
  BY RpcInvariant, <1>1, PTL

-----------------------------------------------------------------------------
(* The agent *)

\* What is true of one worker alone.  While it is idle, nothing of the last
\* request is left to answer; while it is starting, the start request is in
\* its context, and no callback is kept.
Own(w) ==
  /\ worker[w].state = "idle" => thread[w].pc \in {"new", "top", "wait", "take"}
  /\ thread[w].pc \in {"tick", "cooperate", "clear", "handle", "query"} =>
       worker[w].state # "starting"
  /\ In(w, "ended") /\ worker[w].state = "starting" =>
       /\ thread[w].context \in {NULL, worker[w].context}
       /\ worker[w].callback_context = NULL
  /\ In(w, "parse") \/ In(w, "runner") \/ In(w, "reply_error") =>
       thread[w].context \in {NULL, worker[w].context}
  /\ In(w, "clear") => thread[w].rpc_ctx = worker[w].context
  /\ In(w, "handle") => thread[w].rpc_ctx # worker[w].context
  /\ In(w, "clear") \/ In(w, "handle") => thread[w].rpc_ctx # NULL
  /\ worker[w].callback_context # NULL =>
       /\ worker[w].callback_context # worker[w].context
       /\ In(w, "handle") => worker[w].callback_context # thread[w].rpc_ctx
       /\ thread[w].pc \in {"query", "tick", "cooperate", "clear", "handle", "ended", "callback"}

\* What a worker has yet to answer is accepted and with no other worker.
Distinct ==
  \A w \in Worker, j \in Job : j \in Pending(w) =>
    Accepted(j) /\ \A v \in Worker : j \in Pending(v) => v = w

AgentInv ==
  RpcInv /\ AgentTypeOK /\ Distinct /\ \A w \in Worker : Own(w)

-----------------------------------------------------------------------------
(* One step of a worker. *)

\* A step of w that touches no other worker and takes no new request.
Alone(w) ==
  /\ \A v \in Worker \ {w} : worker'[v] = worker[v] /\ thread'[v] = thread[v]
  /\ UNCHANGED target
  /\ Own(w)'
  /\ Pending(w)' \ {NULL} \subseteq Pending(w)


\* A step of a worker is its own business.
LEMMA WorkerAlone ==
  ASSUME NEW w \in Worker, AgentInv, WorkerStep(w)
  PROVE  Alone(w)
<1> USE RpcAssumption DEF AgentInv, AgentTypeOK, WorkerRecord, ThreadRecord, Place, Goto, In
<1> USE DEF Alone, Own, Pending
<1>1. CASE StartWorker(w)
  BY <1>1 DEF StartWorker
<1>2. CASE AutoBoot(w)
  BY <1>2 DEF AutoBoot
<1>3. CASE BecomeIdle(w)
  BY <1>3 DEF BecomeIdle
<1>4. CASE WaitRequest(w)
  BY <1>4 DEF WaitRequest
<1>5. CASE TakeRequest(w)
  BY <1>5 DEF TakeRequest
<1>6. CASE ParseRequest(w)
  BY <1>6 DEF ParseRequest
<1>7. CASE RunnerFails(w)
  BY <1>7 DEF RunnerFails
<1>8. CASE NotifyInit(w)
  BY <1>8 DEF NotifyInit
<1>9. CASE Notified(w)
  BY <1>9 DEF Notified
<1>10. CASE Tick(w)
  BY <1>10 DEF Tick
<1>11. CASE Cooperate(w)
  BY <1>11 DEF Cooperate
<1>12. CASE ClearContext(w)
  BY <1>12 DEF ClearContext
<1>13. CASE Handle(w)
  BY <1>13, SMTT(30) DEF Handle
<1>14. CASE QueryAbort(w)
  BY <1>14 DEF QueryAbort
<1>15. CASE RunnerReturns(w)
  <2>1. CASE worker[w].state = "starting"
    BY <1>15, <2>1 DEF RunnerReturns
  <2>2. CASE worker[w].state # "starting"
    BY <1>15, <2>2 DEF RunnerReturns
  <2> QED
    BY <2>1, <2>2
<1>16. CASE ReplyError(w)
  BY <1>16 DEF ReplyError
<1>17. CASE AnswerCallback(w)
  BY <1>17 DEF AnswerCallback
<1> QED
  BY <1>1, <1>2, <1>3, <1>4, <1>5, <1>6, <1>7, <1>8, <1>9, <1>10, <1>11, <1>12, <1>13, <1>14, <1>15, <1>16, <1>17 DEF WorkerStep

\* A record with one field replaced.
LEMMA WorkerFields ==
  ASSUME NEW r \in WorkerRecord
  PROVE  /\ \A x \in {"idle", "starting", "running", "aborting", "failed", "autoboot"} :
              [r EXCEPT !.state = x] \in WorkerRecord
         /\ \A x \in BOOLEAN : [r EXCEPT !.locked = x] \in WorkerRecord
         /\ \A x \in 0..SEM_VALUE_MAX : [r EXCEPT !.sem = x] \in WorkerRecord
         /\ \A x \in Job \cup {NULL} : [r EXCEPT !.context = x] \in WorkerRecord
         /\ \A x \in Job \cup {NULL} : [r EXCEPT !.callback_context = x] \in WorkerRecord
         /\ r.state \in {"idle", "starting", "running", "aborting", "failed", "autoboot"}
         /\ r.sem \in 0..SEM_VALUE_MAX
         /\ r.context \in Job \cup {NULL} /\ r.callback_context \in Job \cup {NULL}
  BY DEF WorkerRecord

\* The same for the locals of a thread.
LEMMA ThreadFields ==
  ASSUME NEW r \in ThreadRecord
  PROVE  /\ \A x \in Place : [r EXCEPT !.pc = x] \in ThreadRecord
         /\ \A x \in Job \cup {NULL} : [r EXCEPT !.context = x] \in ThreadRecord
         /\ \A x \in Job \cup {NULL} : [r EXCEPT !.rpc_ctx = x] \in ThreadRecord
         /\ r.context \in Job \cup {NULL} /\ r.rpc_ctx \in Job \cup {NULL}
  BY DEF ThreadRecord

\* A worker that goes on to another place.
LEMMA GotoTypes ==
  ASSUME AgentTypeOK, NEW w \in Worker, NEW pc \in Place, Goto(w, pc)
  PROVE  thread' \in [Worker -> ThreadRecord]
  BY DEF AgentTypeOK, Goto, ThreadRecord

\* The types of the agent's fields and locals.
LEMMA WorkerTypes ==
  ASSUME NEW w \in Worker, AgentInv, WorkerStep(w)
  PROVE  worker' \in [Worker -> WorkerRecord] /\ thread' \in [Worker -> ThreadRecord]
<1> USE DEF In
<1>0. /\ worker \in [Worker -> WorkerRecord] /\ thread \in [Worker -> ThreadRecord]
      /\ worker[w] \in WorkerRecord /\ thread[w] \in ThreadRecord
  BY DEF AgentInv, AgentTypeOK
<1>a. ASSUME NEW pc \in Place, Goto(w, pc) PROVE thread' \in [Worker -> ThreadRecord]
  BY <1>a, GotoTypes DEF AgentInv
<1>1. CASE StartWorker(w)
  <2>1. Goto(w, "top")
    BY <1>1 DEF StartWorker
  <2>2. PICK state \in {"idle", "starting", "running", "aborting", "failed", "autoboot"} :
          worker' = [worker EXCEPT ![w].state = state, ![w].locked = TRUE]
    <3>1. PICK state \in IF w = 0 THEN {"autoboot", worker[w].state} ELSE {worker[w].state} :
            worker' = [worker EXCEPT ![w].state = state, ![w].locked = TRUE]
      BY <1>1 DEF StartWorker
    <3>2. worker[w].state \in {"idle", "starting", "running", "aborting", "failed", "autoboot"}
      BY <1>0, WorkerFields
    <3> QED BY <3>1, <3>2
  <2> QED
    BY <1>0, <1>a, <2>1, <2>2, WorkerFields DEF Place
<1>2. CASE AutoBoot(w)
  <2>1. CASE worker' = [worker EXCEPT ![w].state = "idle"] /\ UNCHANGED thread
    BY <1>0, <2>1, WorkerFields
  <2>2. CASE /\ worker' = [worker EXCEPT ![w].state = "starting", ![w].locked = FALSE]
             /\ \E pc \in {"runner", "reply_error"} :
                  thread' = [thread EXCEPT ![w].pc = pc, ![w].context = NULL]
    <3>1. worker' \in [Worker -> WorkerRecord]
      BY <1>0, <2>2, WorkerFields
    <3>2. thread' \in [Worker -> ThreadRecord]
      <4>1. PICK pc \in Place : thread' = [thread EXCEPT ![w].pc = pc, ![w].context = NULL]
        BY <2>2 DEF Place
      <4> QED
        BY <1>0, <4>1, ThreadFields
    <3> QED
      BY <3>1, <3>2
  <2> QED
    BY <1>2, <2>1, <2>2 DEF AutoBoot
<1>3. CASE BecomeIdle(w)
  BY <1>0, <1>3, <1>a, WorkerFields DEF BecomeIdle, Place
<1>4. CASE WaitRequest(w)
  <2>1. worker[w].sem - 1 \in 0..SEM_VALUE_MAX
    <3>1. worker[w].sem \in 0..SEM_VALUE_MAX
      BY <1>0 DEF WorkerRecord
    <3> QED
      BY <1>4, <3>1, AgentAssumption DEF WaitRequest
  <2>2. worker' \in [Worker -> WorkerRecord]
    <3>1. worker' = [worker EXCEPT ![w] = [worker[w] EXCEPT !.sem = worker[w].sem - 1]]
      BY <1>0, <1>4 DEF WaitRequest
    <3> QED
      BY <1>0, <2>1, <3>1, WorkerFields
  <2> QED
    BY <1>4, <1>a, <2>2 DEF WaitRequest, Place
<1>5. CASE TakeRequest(w)
  <2>1. CASE worker[w].context = NULL
    BY <1>0, <1>5, <1>a, <2>1 DEF TakeRequest, Place
  <2>2. CASE worker[w].context # NULL
    <3>1. worker' \in [Worker -> WorkerRecord]
      BY <1>0, <1>5, <2>2, WorkerFields DEF TakeRequest
    <3>2. /\ thread' = [thread EXCEPT ![w].pc = "parse", ![w].context = worker[w].context]
          /\ worker[w].context \in Job \cup {NULL}
      BY <1>0, <1>5, <2>2, WorkerFields DEF TakeRequest
    <3>3. thread' \in [Worker -> ThreadRecord]
      BY <1>0, <3>2, ThreadFields DEF Place
    <3> QED
      BY <3>1, <3>3
  <2> QED
    BY <2>1, <2>2
<1>6. CASE ParseRequest(w) \/ RunnerFails(w) \/ NotifyInit(w) \/ Tick(w) \/ QueryAbort(w)
  <2>1. UNCHANGED worker /\ \E pc \in Place : Goto(w, pc)
    BY <1>6 DEF ParseRequest, RunnerFails, NotifyInit, Tick, QueryAbort, Place
  <2> QED
    BY <1>0, <1>a, <2>1
<1>7. CASE RunnerReturns(w) \/ ReplyError(w) \/ AnswerCallback(w) \/ ClearContext(w)
  <2>1. \E pc \in Place : Goto(w, pc)
    BY <1>7 DEF RunnerReturns, ReplyError, AnswerCallback, ClearContext, Place
  <2>2. worker' \in [Worker -> WorkerRecord]
    <3>1. CASE worker' = [worker EXCEPT ![w].locked = TRUE]
      BY <1>0, <3>1, WorkerFields
    <3>2. CASE worker' = [worker EXCEPT ![w].context = NULL]
      BY <1>0, <3>2, WorkerFields
    <3>3. CASE worker' = [worker EXCEPT ![w].callback_context = NULL]
      BY <1>0, <3>3, WorkerFields
    <3> QED
      BY <1>7, <3>1, <3>2, <3>3 DEF RunnerReturns, ReplyError, AnswerCallback, ClearContext
  <2> QED
    BY <1>a, <2>1, <2>2
<1>8. CASE Cooperate(w)
  BY <1>0, <1>8, WorkerFields, ThreadFields DEF Cooperate, Place
<1>9. CASE Handle(w)
  <2>1. worker' \in [Worker -> WorkerRecord]
    BY <1>0, <1>9, WorkerFields, ThreadFields DEF Handle
  <2> QED
    BY <1>9, <1>a, <2>1 DEF Handle, Place
<1>10. CASE Notified(w)
  <2>1. worker' \in [Worker -> WorkerRecord]
    <3>1. PICK x \in {"failed", "running"} :
            worker' = [worker EXCEPT ![w].context = NULL, ![w].state = x]
      BY <1>10 DEF Notified
    <3> QED
      BY <1>0, <3>1, WorkerFields
  <2> QED
    BY <1>10, <1>a, <2>1 DEF Notified, Place
<1> QED
  BY <1>1, <1>2, <1>3, <1>4, <1>5, <1>6, <1>7, <1>8, <1>9, <1>10 DEF WorkerStep

-----------------------------------------------------------------------------
(* What the steps mean for the jobs. *)

\* The answer to a job that a worker has yet to answer is a step of RpcNext.
LEMMA WorkerAnswers ==
  ASSUME NEW w \in Worker, AgentInv, WorkerStep(w)
  PROVE  \/ UNCHANGED rpcVars
         \/ \E j \in Job : j \in Pending(w) /\ j \notin Pending(w)' /\ AsyncCallback(j)
<1> DEFINE Answers(j) == j \in Pending(w) /\ j \notin Pending(w)' /\ AsyncCallback(j)
<1>0. /\ \A j \in Job : j \in Pending(w) => Accepted(j)
      /\ worker \in [Worker -> WorkerRecord] /\ thread \in [Worker -> ThreadRecord]
      /\ Own(w)
  BY DEF AgentInv, Distinct, AgentTypeOK
<1>f. /\ worker[w].context \in Job \cup {NULL} /\ worker[w].callback_context \in Job \cup {NULL}
      /\ thread[w].context \in Job \cup {NULL} /\ thread[w].rpc_ctx \in Job \cup {NULL}
  BY <1>0, WorkerFields, ThreadFields
<1>1. CASE NotifyInit(w)
  BY <1>0, <1>f, <1>1, RpcAssumption
  DEF NotifyInit, Callback, AsyncCallback, Pending, Own, In, Goto, rpcVars, free
<1>2. CASE Handle(w)
  BY <1>0, <1>f, <1>2, RpcAssumption
  DEF Handle, Callback, AsyncCallback, Pending, Own, In, Goto, rpcVars, free
<1>3. CASE ReplyError(w)
  BY <1>0, <1>f, <1>3, RpcAssumption
  DEF ReplyError, Callback, AsyncCallback, Pending, Own, In, Goto, rpcVars, free
<1>4. CASE AnswerCallback(w)
  BY <1>0, <1>f, <1>4, RpcAssumption
  DEF AnswerCallback, Callback, AsyncCallback, Pending, Own, In, Goto, rpcVars, free
<1>5. CASE ~(NotifyInit(w) \/ Handle(w) \/ ReplyError(w) \/ AnswerCallback(w))
  BY <1>5 DEF WorkerStep, StartWorker, AutoBoot, BecomeIdle, WaitRequest, TakeRequest,
     ParseRequest, RunnerFails, Notified, Tick, Cooperate, ClearContext, QueryAbort,
     RunnerReturns
<1> QED
  BY <1>1, <1>2, <1>3, <1>4, <1>5

\* Accepting a job, or any step of the server that is none of a method, takes
\* nothing from the jobs that have been accepted.
LEMMA ServerKeepsAccepted ==
  ASSUME RpcInv,
         SinkStep \/ \E s \in RpcWorker :
           ServiceStep(s) \/ AsyncAccept(s) \/ AsyncReturn(s) \/ AsyncRefuse(s)
  PROVE  \A j \in Job : Accepted(j) => Accepted(j)'
<1> USE RpcAssumption DEF RpcInv, RpcTypeOK, Owned, Accepted, InServer, free, Step, Return, At
<1>1. CASE SinkStep
  BY <1>1 DEF SinkStep, SinkBegin, SinkDrop, SinkEnd
<1>2. CASE \E s \in RpcWorker : ServiceWait(s) \/ ServiceTake(s) \/ ServiceClear(s)
  BY <1>2 DEF ServiceWait, ServiceTake, ServiceClear
<1>3. CASE \E s \in RpcWorker : ServiceSync(s) \/ ServiceAsync(s)
  BY <1>3 DEF ServiceSync, ServiceAsync
<1>4. CASE \E s \in RpcWorker : AsyncAccept(s) \/ AsyncReturn(s) \/ AsyncRefuse(s)
  BY <1>4 DEF AsyncAccept, AsyncReturn, AsyncRefuse
<1> QED
  BY <1>1, <1>2, <1>3, <1>4 DEF ServiceStep

\* The job that a method accepts was the server's until then.
LEMMA AcceptHandsOver ==
  ASSUME RpcInv, NEW s \in RpcWorker, AsyncAccept(s)
  PROVE  \E j \in Job : j = rpc[s].job /\ ~Accepted(j) /\ Accepted(j)'
  BY RpcAssumption DEF RpcInv, RpcTypeOK, Owned, Accepted, InServer, At, AsyncAccept

-----------------------------------------------------------------------------
(* The invariant is kept. *)

\* A step that changes neither worker nor thread.
LEMMA ServerStepKeepsInv ==
  ASSUME AgentInv, UNCHANGED <<worker, thread>>, AgentTypeOK',
         \/ SinkStep \/ UNCHANGED rpcVars
         \/ \E s \in RpcWorker : ServiceStep(s) \/ AsyncReturn(s) \/ AsyncRefuse(s)
  PROVE  AgentInv'
<1>1. RpcInv'
  BY RpcNextKeepsInv DEF AgentInv, RpcNext
<1>2. \A j \in Job : Accepted(j) => Accepted(j)'
  BY ServerKeepsAccepted DEF AgentInv, Accepted, InServer, rpcVars
<1>3. Distinct'
  BY <1>2 DEF AgentInv, Distinct, Pending, In
<1>4. \A w \in Worker : Own(w)'
  BY DEF AgentInv, Own, In
<1> QED
  BY <1>1, <1>3, <1>4 DEF AgentInv

\* A step of a worker frees only a job of its own.
LEMMA WorkerStepKeepsInv ==
  ASSUME AgentInv, NEW w \in Worker, WorkerStep(w)
  PROVE  AgentInv'
<1>1. Alone(w)
  BY WorkerAlone
<1>2. RpcInv'
  BY WorkerAnswers, RpcNextKeepsInv DEF AgentInv, RpcNext
<1>3. AgentTypeOK'
  BY WorkerTypes, <1>1 DEF AgentInv, AgentTypeOK, Alone
<1>4. \A v \in Worker : Own(v)'
  BY <1>1 DEF AgentInv, Alone, Own, In
<1>5. \A v \in Worker \ {w} : Pending(v)' = Pending(v)
  BY <1>1 DEF Alone, Pending, In
<1>6. \A j \in Job : Accepted(j) /\ (j \in Pending(w) => j \in Pending(w)') => Accepted(j)'
  BY WorkerAnswers DEF Accepted, InServer, AsyncCallback, free, rpcVars, AgentInv, RpcInv, RpcTypeOK
<1>7. Distinct'
  BY <1>1, <1>5, <1>6, RpcAssumption DEF AgentInv, Distinct, Alone
<1> QED
  BY <1>2, <1>3, <1>4, <1>7 DEF AgentInv

\* A thread of the server gives the job it has to a worker that has none.
LEMMA GiveKeepsInv ==
  ASSUME AgentInv, NEW s \in RpcWorker, NEW w \in Worker, AsyncAccept(s),
         UNCHANGED thread, AgentTypeOK',
         \A v \in Worker \ {w} : worker'[v] = worker[v],
         worker'[w].context = rpc[s].job,
         worker'[w].callback_context = worker[w].callback_context,
         \/ worker[w].context = NULL /\ worker'[w].state = worker[w].state
         \/ worker[w].state = "idle" /\ worker'[w].state = "starting"
  PROVE  AgentInv'
<1>1. RpcInv'
  BY RpcNextKeepsInv DEF AgentInv, RpcNext
<1>j. PICK j \in Job : j = rpc[s].job /\ ~Accepted(j) /\ Accepted(j)'
  BY AcceptHandsOver DEF AgentInv
<1>2. \A i \in Job : Accepted(i) => Accepted(i)'
  BY ServerKeepsAccepted DEF AgentInv
<1>3. \A v \in Worker : j \notin Pending(v)
  BY <1>j DEF AgentInv, Distinct
<1>4. /\ \A v \in Worker \ {w} : Pending(v)' = Pending(v)
      /\ Pending(w)' \subseteq Pending(w) \cup {j}
  BY <1>j DEF Pending, In
<1>5. Distinct'
  BY <1>j, <1>2, <1>3, <1>4 DEF AgentInv, Distinct
<1>6. \A v \in Worker \ {w} : Own(v)'
  BY DEF AgentInv, Own, In
<1>7. Own(w)'
  BY <1>j, <1>3 DEF AgentInv, Own, In, Pending
<1> QED
  BY <1>1, <1>5, <1>6, <1>7 DEF AgentInv

\* The types of the queue's own variables.
LEMMA QueueTypes ==
  ASSUME AgentInv, NEW s \in RpcWorker,
         QueueToWorker(s) \/ QueueStart(s) \/ QueueRefuse(s) \/ QueuePost(s)
  PROVE  AgentTypeOK'
<1>0. /\ worker \in [Worker -> WorkerRecord] /\ target \in [RpcWorker -> 0..WORKER_THREADS]
      /\ thread' \in [Worker -> ThreadRecord]
      /\ Worker = 0..WORKER_THREADS-1 /\ WORKER_THREADS \in Nat \ {0}
      /\ RpcTypeOK
  BY AgentAssumption DEF AgentInv, RpcInv, AgentTypeOK, Worker, QueueToWorker, QueueStart,
     QueueRefuse, QueuePost
<1>1. CASE QueueToWorker(s)
  <2>1. CASE worker[Asked(s).tid].context # NULL
    BY <1>0, <1>1, <2>1 DEF QueueToWorker, AgentTypeOK
  <2>2. CASE worker[Asked(s).tid].context = NULL
    <3>1. Asked(s).tid \in Worker /\ rpc[s].job \in Job
      BY <1>0, <1>1 DEF QueueToWorker, RpcTypeOK, At
    <3>2. PICK w \in Worker, j \in Job : worker' = [worker EXCEPT ![w].context = j]
      BY <1>1, <2>2, <3>1 DEF QueueToWorker
    <3>3. worker' \in [Worker -> WorkerRecord]
      <4>1. [worker[w] EXCEPT !.context = j] \in WorkerRecord
        BY <1>0, WorkerFields
      <4> QED
        BY <1>0, <3>2, <4>1
    <3>4. target' \in [RpcWorker -> 0..WORKER_THREADS]
      <4>1. PICK n \in 0..WORKER_THREADS : target' = [target EXCEPT ![s] = n]
        <5>1. Asked(s).tid \in 0..WORKER_THREADS
          BY <1>0, <3>1
        <5>2. target' = [target EXCEPT ![s] = Asked(s).tid]
          BY <1>1, <2>2 DEF QueueToWorker
        <5> QED
          BY <5>1, <5>2
      <4> QED
        BY <1>0, <4>1
    <3> QED
      BY <1>0, <3>3, <3>4 DEF AgentTypeOK
  <2> QED
    BY <2>1, <2>2
<1>2. CASE QueueStart(s)
  <2>1. target[s] \in Worker /\ rpc[s].job \in Job
    BY <1>0, <1>2 DEF QueueStart, RpcTypeOK, At
  <2>2. worker' \in [Worker -> WorkerRecord]
    <3>1. CASE UNCHANGED worker
      BY <1>0, <3>1
    <3>2. CASE \E w \in Worker, j \in Job :
                 worker' = [worker EXCEPT ![w].state = "starting", ![w].context = j]
      <4>1. PICK w \in Worker, j \in Job :
              worker' = [worker EXCEPT ![w].state = "starting", ![w].context = j]
        BY <3>2
      <4>2. [worker[w] EXCEPT !.state = "starting"] \in WorkerRecord
        BY <1>0, WorkerFields
      <4>3. [[worker[w] EXCEPT !.state = "starting"] EXCEPT !.context = j] \in WorkerRecord
        BY <4>2, WorkerFields
      <4> QED
        BY <1>0, <4>1, <4>3
    <3> QED
      BY <1>2, <2>1, <3>1, <3>2 DEF QueueStart
  <2>3. target' \in [RpcWorker -> 0..WORKER_THREADS]
    <3>1. target[s] + 1 \in 0..WORKER_THREADS
      BY <1>0, <2>1
    <3> QED
      BY <1>0, <1>2, <3>1 DEF QueueStart
  <2> QED
    BY <1>0, <2>2, <2>3 DEF AgentTypeOK
<1>3. CASE QueueRefuse(s)
  BY <1>0, <1>3 DEF QueueRefuse, AgentTypeOK
<1>4. CASE QueuePost(s)
  <2>1. worker' \in [Worker -> WorkerRecord]
    <3>1. CASE target[s] \in Worker
      <4>1. PICK n \in 0..SEM_VALUE_MAX : worker' = [worker EXCEPT ![target[s]].sem = n]
        <5>1. worker[target[s]].sem \in 0..SEM_VALUE_MAX
          BY <1>0, <3>1 DEF WorkerRecord
        <5>2. CASE worker[target[s]].sem < SEM_VALUE_MAX
          <6>1. worker[target[s]].sem + 1 \in 0..SEM_VALUE_MAX
            BY <5>1, <5>2, AgentAssumption
          <6>2. worker' = [worker EXCEPT ![target[s]].sem = worker[target[s]].sem + 1]
            BY <1>0, <1>4, <3>1, <5>2 DEF QueuePost
          <6> QED
            BY <6>1, <6>2
        <5>3. CASE ~(worker[target[s]].sem < SEM_VALUE_MAX)
          <6>1. worker' = [worker EXCEPT ![target[s]].sem = worker[target[s]].sem]
            BY <1>0, <1>4, <3>1, <5>3 DEF QueuePost
          <6> QED
            BY <5>1, <6>1
        <5> QED
          BY <5>2, <5>3
      <4> QED
        BY <1>0, <3>1, <4>1, WorkerFields
    <3>2. CASE target[s] \notin Worker
      BY <1>0, <1>4, <3>2 DEF QueuePost
    <3> QED
      BY <3>1, <3>2
  <2>2. target' \in [RpcWorker -> 0..WORKER_THREADS]
    BY <1>0, <1>4 DEF QueuePost
  <2> QED
    BY <1>0, <2>1, <2>2 DEF AgentTypeOK
<1> QED
  BY <1>1, <1>2, <1>3, <1>4

\* A step of the queue: a job is given to a worker, or nothing changes but the
\* server and the count of a semaphore.
LEMMA QueueKeepsInv ==
  ASSUME AgentInv, NEW s \in RpcWorker,
         QueueToWorker(s) \/ QueueStart(s) \/ QueueRefuse(s) \/ QueuePost(s)
  PROVE  AgentInv' /\ [RpcNext]_rpcVars
<1>0. AgentTypeOK'
  BY QueueTypes
<1>t. worker \in [Worker -> WorkerRecord] /\ RpcTypeOK
  BY DEF AgentInv, RpcInv, AgentTypeOK
<1>1. CASE QueueToWorker(s)
  <2>1. CASE worker[Asked(s).tid].context # NULL
    BY <1>0, <1>1, <2>1, ServerStepKeepsInv DEF QueueToWorker, RpcNext
  <2>2. CASE worker[Asked(s).tid].context = NULL
    <3>1. PICK w \in Worker : w = Asked(s).tid
      BY <1>1 DEF QueueToWorker
    <3>2. /\ AsyncAccept(s) /\ UNCHANGED thread
          /\ worker' = [worker EXCEPT ![w].context = rpc[s].job]
      BY <1>1, <2>2, <3>1 DEF QueueToWorker
    <3>3. /\ \A v \in Worker \ {w} : worker'[v] = worker[v]
          /\ worker'[w].context = rpc[s].job
          /\ worker'[w].callback_context = worker[w].callback_context
          /\ worker'[w].state = worker[w].state
      BY <1>t, <3>2 DEF WorkerRecord
    <3>4. AgentInv'
      BY <1>0, <2>2, <3>1, <3>2, <3>3, GiveKeepsInv
    <3> QED
      BY <3>2, <3>4 DEF RpcNext
  <2> QED
    BY <2>1, <2>2
<1>2. CASE QueueStart(s)
  <2>1. PICK w \in Worker : w = target[s]
    BY <1>2 DEF QueueStart
  <2>2. CASE worker[w].state # "idle"
    BY <1>0, <1>2, <2>1, <2>2, ServerStepKeepsInv DEF QueueStart
  <2>3. CASE worker[w].state = "idle"
    <3>1. /\ AsyncAccept(s) /\ UNCHANGED thread
          /\ worker' = [worker EXCEPT ![w].state = "starting", ![w].context = rpc[s].job]
      BY <1>2, <2>1, <2>3 DEF QueueStart
    <3>2. /\ \A v \in Worker \ {w} : worker'[v] = worker[v]
          /\ worker'[w].context = rpc[s].job
          /\ worker'[w].callback_context = worker[w].callback_context
          /\ worker'[w].state = "starting"
      BY <1>t, <3>1 DEF WorkerRecord
    <3>3. AgentInv'
      BY <1>0, <2>3, <3>1, <3>2, GiveKeepsInv
    <3> QED
      BY <3>1, <3>3 DEF RpcNext
  <2> QED
    BY <2>2, <2>3
<1>3. CASE QueueRefuse(s)
  BY <1>0, <1>3, ServerStepKeepsInv DEF QueueRefuse, RpcNext
<1>4. CASE QueuePost(s)
  <2>1. AsyncReturn(s) /\ UNCHANGED thread
    BY <1>4 DEF QueuePost
  <2>2. \A w \in Worker : /\ worker'[w].state = worker[w].state
                          /\ worker'[w].context = worker[w].context
                          /\ worker'[w].callback_context = worker[w].callback_context
    BY <1>4, <1>t DEF QueuePost, WorkerRecord
  <2>3. RpcInv'
    BY <2>1, RpcNextKeepsInv DEF AgentInv, RpcNext
  <2>4. \A j \in Job : Accepted(j) => Accepted(j)'
    BY <2>1, ServerKeepsAccepted DEF AgentInv
  <2>5. Distinct'
    BY <2>1, <2>2, <2>4 DEF AgentInv, Distinct, Pending, In
  <2>6. \A w \in Worker : Own(w)'
    BY <2>1, <2>2 DEF AgentInv, Own, In
  <2> QED
    BY <1>0, <2>1, <2>3, <2>5, <2>6 DEF AgentInv, RpcNext
<1> QED
  BY <1>1, <1>2, <1>3, <1>4

-----------------------------------------------------------------------------

\* rubic_agent_init and peridot_rpc_server_init
LEMMA AgentInitInv == AgentInit => AgentInv
<1> SUFFICES ASSUME AgentInit PROVE AgentInv
  OBVIOUS
<1>1. RpcInv
  BY RpcInitInv DEF AgentInit
<1>2. AgentTypeOK
  BY AgentAssumption DEF AgentInit, AgentTypeOK, WorkerRecord, ThreadRecord, Place
<1>3. \A w \in Worker : Own(w)
  BY DEF AgentInit, Own, In
<1>4. Distinct
  BY RpcAssumption DEF AgentInit, Distinct, Pending, In
<1> QED
  BY <1>1, <1>2, <1>3, <1>4 DEF AgentInv

\* Every step of the agent keeps the invariant and is one of the RPC server.
LEMMA AgentNextKeepsInv ==
  ASSUME AgentInv, [AgentNext]_agentVars
  PROVE  AgentInv' /\ [RpcNext]_rpcVars
<1>1. CASE SinkStep /\ UNCHANGED <<worker, thread, target>>
  <2>1. AgentTypeOK'
    BY <1>1 DEF AgentInv, AgentTypeOK
  <2> QED
    BY <1>1, <2>1, ServerStepKeepsInv DEF RpcNext
<1>2. ASSUME NEW s \in RpcWorker, Serve(s) PROVE AgentInv' /\ [RpcNext]_rpcVars
  <2>1. CASE ServiceStep(s) /\ UNCHANGED <<worker, thread, target>>
    <3>1. AgentTypeOK'
      BY <2>1 DEF AgentInv, AgentTypeOK
    <3> QED
      BY <2>1, <3>1, ServerStepKeepsInv DEF RpcNext
  <2> QED
    BY <1>2, <2>1, QueueKeepsInv DEF Serve
<1>3. ASSUME NEW w \in Worker, WorkerStep(w) PROVE AgentInv' /\ [RpcNext]_rpcVars
  BY <1>3, WorkerStepKeepsInv, WorkerAnswers DEF RpcNext
<1>4. CASE UNCHANGED agentVars
  BY <1>4 DEF agentVars, rpcVars, AgentInv, RpcInv, RpcTypeOK, OneCall, SlotAnnounced, Owned,
     Taking, At, AgentTypeOK, Distinct, Pending, Own, In, Accepted, InServer
<1> QED
  BY <1>1, <1>2, <1>3, <1>4 DEF AgentNext

\* The invariant says what the properties say.
LEMMA InvImpliesProperties ==
  AgentInv => AgentTypeOK /\ ServerOwnsJobs /\ SlotAnnounced /\ LiveRequests /\ CallbackOfProgram
<1> SUFFICES ASSUME AgentInv
             PROVE  AgentTypeOK /\ ServerOwnsJobs /\ SlotAnnounced /\ LiveRequests
                    /\ CallbackOfProgram
  OBVIOUS
<1>1. ServerOwnsJobs /\ SlotAnnounced
  BY OwnedImpliesServerOwnsJobs DEF AgentInv, RpcInv
<1>2. CallbackOfProgram
  BY DEF AgentInv, CallbackOfProgram, Own
<1>3. \A w \in Worker : Pending(w) \subseteq Job \cup {NULL}
  BY WorkerFields, ThreadFields DEF AgentInv, AgentTypeOK, Pending
<1>4. LiveRequests
  BY <1>3 DEF AgentInv, LiveRequests, Distinct, Own
<1> QED
  BY <1>1, <1>2, <1>4 DEF AgentInv

\* The invariant holds of every state the agent can reach.
THEOREM AgentInvariant == AgentSpec => []AgentInv
  BY AgentInitInv, AgentNextKeepsInv, PTL DEF AgentSpec

\* For any number of jobs and threads, no request is answered from the memory
\* of another, and no two workers answer the same request.
THEOREM AgentLiveRequests == AgentSpec => []LiveRequests
  BY AgentInvariant, InvImpliesProperties, PTL

\* For any number of jobs and threads, a callback request is kept only while
\* the program that has accepted it is there to answer it.
THEOREM AgentCallbacks == AgentSpec => []CallbackOfProgram
  BY AgentInvariant, InvImpliesProperties, PTL

\* For any number of jobs and threads, the agent is a correct client of the
\* RPC server: it implements RpcSpec, answering only what it has accepted.
THEOREM AgentImplementsRpc == AgentSpec => ImplementsRpc
<1>1. AgentInit => RpcInit
  BY DEF AgentInit
<1> QED
  BY AgentInvariant, AgentNextKeepsInv, <1>1, PTL DEF AgentSpec, ImplementsRpc
=============================================================================
