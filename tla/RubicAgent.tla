------------------------------ MODULE RubicAgent -----------------------------
(***************************************************************************)
(* The Rubic agent (rubic_agent.c): the asynchronous method rubic.queue    *)
(* hands the host's requests to worker threads, which start programs and   *)
(* serve the requests to the running one.  The workers answer the jobs     *)
(* that the threads of the RPC server have put into their context field.   *)
(* A worker clears that field outside its mutex.                           *)
(*                                                                         *)
(* The runner is that of Duktape, which looks for requests between two     *)
(* ticks of the program; that of Lua is the one that never gets to look.   *)
(* Mutexes exclude and semaphores count, as POSIX says.                    *)
(***************************************************************************)
EXTENDS RpcServer

CONSTANTS
  WORKER_THREADS,
  BootFile,         \* whether parse_boot_json may find something to start
  SEM_VALUE_MAX     \* where sem_post fails

Worker == 0..WORKER_THREADS-1
Name == {"start", "abort", "callback", "other"}

ASSUME AgentAssumption ==
  /\ WORKER_THREADS \in Nat \ {0}
  /\ BootFile \in BOOLEAN
  /\ SEM_VALUE_MAX \in Nat \ {0}
  /\ \A q \in Request : q.method = "async" => q.tid \in Int /\ q.name \in Name

VARIABLES
  worker,    \* rubic_agent_worker of each worker, with its mutex
  thread,    \* the place of each worker thread and its locals
  target     \* of each thread of the RPC server: worker in ..._method_queue

agentVars == <<memory, request, incoming_job, pending_job, rpc_sem, rpc,
               worker, thread, target>>

-----------------------------------------------------------------------------
(* rubic_agent_method_queue, in a thread s of the RPC server.  A worker     *)
(* never stores what could change the course of a section that is inside   *)
(* the mutex, which is therefore one step.                                  *)

Asked(s) == request[rpc[s].job]

\* A faulty variant: the context is not looked at.
QueueToWorkerAnyway(s) ==
  /\ At(s, "async") /\ Asked(s).tid \in Worker
  /\ ~worker[Asked(s).tid].locked
  /\ AsyncAccept(s)
  /\ worker' = [worker EXCEPT ![Asked(s).tid].context = rpc[s].job]
  /\ target' = [target EXCEPT ![s] = Asked(s).tid]
  /\ UNCHANGED thread

\* The host names the worker.
QueueToWorker(s) ==
  /\ At(s, "async") /\ Asked(s).tid \in Worker
  /\ ~worker[Asked(s).tid].locked
  /\ IF worker[Asked(s).tid].context # NULL
     THEN AsyncRefuse(s) /\ UNCHANGED <<worker, target>>
     ELSE /\ AsyncAccept(s)
          /\ worker' = [worker EXCEPT ![Asked(s).tid].context = rpc[s].job]
          /\ target' = [target EXCEPT ![s] = Asked(s).tid]
  /\ UNCHANGED thread

\* A start request goes to the first worker that is idle.
QueueStart(s) ==
  /\ At(s, "async") /\ Asked(s).tid \notin Worker /\ Asked(s).name = "start"
  /\ target[s] \in Worker
  /\ ~worker[target[s]].locked
  /\ IF worker[target[s]].state = "idle"
     THEN /\ AsyncAccept(s)
          /\ worker' = [worker EXCEPT ![target[s]].state = "starting",
                                      ![target[s]].context = rpc[s].job]
          /\ UNCHANGED target
     ELSE /\ target' = [target EXCEPT ![s] = @ + 1]
          /\ UNCHANGED <<rpcVars, worker>>
  /\ UNCHANGED thread

\* No worker is idle, or the request is none for the queue.
QueueRefuse(s) ==
  /\ At(s, "async") /\ Asked(s).tid \notin Worker
  /\ Asked(s).name # "start" \/ target[s] = WORKER_THREADS
  /\ AsyncRefuse(s)
  /\ target' = [target EXCEPT ![s] = 0]
  /\ UNCHANGED <<worker, thread>>

\* sem_post, outside the mutex, and the return.  A running program serves the
\* request and leaves the token, so that the tokens add up.
QueuePost(s) ==
  /\ AsyncReturn(s)
  /\ worker' = [worker EXCEPT ![target[s]].sem = IF @ < SEM_VALUE_MAX THEN @ + 1 ELSE @]
  /\ target' = [target EXCEPT ![s] = 0]
  /\ UNCHANGED thread

-----------------------------------------------------------------------------
(* worker_thread *)

In(w, pc) == thread[w].pc = pc
Goto(w, pc) == thread' = [thread EXCEPT ![w].pc = pc]

\* peridot_rpc_server_async_callback.  Without a job it reads what happens to
\* be at the bottom of the memory and frees nothing.
Callback(j) == IF j = NULL THEN UNCHANGED <<memory, request>> ELSE free(j)

\* The thread starts and locks its mutex.  Only the first worker, which may be
\* told to, boots by itself; requests may have come before.
StartWorker(w) ==
  /\ In(w, "new")
  /\ \E state \in IF w = 0 THEN {"autoboot", worker[w].state} ELSE {worker[w].state} :
       worker' = [worker EXCEPT ![w].state = state, ![w].locked = TRUE]
  /\ Goto(w, "top")
  /\ UNCHANGED <<rpcVars, target>>

\* The boot file, with the mutex held: nothing to start, a runtime that does
\* not exist, or a program.
AutoBoot(w) ==
  /\ In(w, "top") /\ worker[w].state = "autoboot"
  /\ \/ /\ worker' = [worker EXCEPT ![w].state = "idle"]
        /\ UNCHANGED thread
     \/ /\ BootFile
        /\ worker' = [worker EXCEPT ![w].state = "starting", ![w].locked = FALSE]
        /\ \E pc \in {"runner", "reply_error"} :
             thread' = [thread EXCEPT ![w].pc = pc, ![w].context = NULL]
  /\ UNCHANGED <<rpcVars, target>>

\* A faulty variant: the mutex stays locked.
BecomeIdleLocked(w) ==
  /\ In(w, "top") /\ worker[w].state # "autoboot"
  /\ worker' = [worker EXCEPT ![w].state = "idle"]
  /\ Goto(w, "wait")
  /\ UNCHANGED <<rpcVars, target>>

\* The state and the unlock.  A worker that comes without the mutex stores the
\* state all the same, and its unlock fails.
BecomeIdle(w) ==
  /\ In(w, "top") /\ worker[w].state # "autoboot"
  /\ worker' = [worker EXCEPT ![w].state = "idle", ![w].locked = FALSE]
  /\ Goto(w, "wait")
  /\ UNCHANGED <<rpcVars, target>>

WaitRequest(w) ==
  /\ In(w, "wait") /\ worker[w].sem > 0
  /\ worker' = [worker EXCEPT ![w].sem = @ - 1]
  /\ Goto(w, "take")
  /\ UNCHANGED <<rpcVars, target>>

\* Inside the mutex, which no other thread holds between two steps.
TakeRequest(w) ==
  /\ In(w, "take")
  /\ IF worker[w].context = NULL
     THEN Goto(w, "top") /\ UNCHANGED worker
     ELSE /\ worker' = [worker EXCEPT ![w].state = "starting"]
          /\ thread' = [thread EXCEPT ![w].pc = "parse", ![w].context = worker[w].context]
  /\ UNCHANGED <<rpcVars, target>>

\* A request that gives a runtime and a file or a source starts a program; its
\* name is not looked at.
ParseRequest(w) ==
  /\ In(w, "parse")
  /\ \E pc \in {"runner", "reply_error"} : Goto(w, pc)
  /\ UNCHANGED <<rpcVars, worker, target>>

\* The runner fails before it has notified the agent.
RunnerFails(w) ==
  /\ In(w, "runner")
  /\ Goto(w, "ended")
  /\ UNCHANGED <<rpcVars, worker, target>>

\* rubic_agent_runner_notify_init: the answer, with or without the memory for
\* it; then the fields.
NotifyInit(w) ==
  /\ In(w, "runner")
  /\ Callback(worker[w].context)
  /\ \E pc \in {"notified", "failed"} : Goto(w, pc)
  /\ UNCHANGED <<incoming_job, pending_job, rpc_sem, rpc, worker, target>>

Notified(w) ==
  /\ In(w, "notified") \/ In(w, "failed")
  /\ worker' = [worker EXCEPT ![w].context = NULL,
       ![w].state = IF In(w, "failed") THEN "failed" ELSE "running"]
  /\ Goto(w, IF In(w, "failed") THEN "ended" ELSE "tick")
  /\ UNCHANGED <<rpcVars, target>>

\* dux_tick, and the evaluation of the module before it: the program ends or
\* goes on.
Tick(w) ==
  /\ In(w, "tick")
  /\ \E pc \in {"ended", "cooperate"} : Goto(w, pc)
  /\ UNCHANGED <<rpcVars, worker, target>>

\* rubic_agent_runner_cooperate, without the mutex: the load of the context ...
Cooperate(w) ==
  /\ In(w, "cooperate")
  /\ thread' = [thread EXCEPT ![w].rpc_ctx = worker[w].context,
       ![w].pc = IF worker[w].context = NULL THEN "query" ELSE "clear"]
  /\ UNCHANGED <<rpcVars, worker, target>>

\* ... the store of NULL ...
ClearContext(w) ==
  /\ In(w, "clear")
  /\ worker' = [worker EXCEPT ![w].context = NULL]
  /\ Goto(w, "handle")
  /\ UNCHANGED <<rpcVars, target>>

\* ... and what the request asks for: only one callback is kept.
Handle(w) ==
  LET name == request[thread[w].rpc_ctx].name
      kept == name = "callback" /\ worker[w].callback_context = NULL
  IN /\ In(w, "handle")
     /\ worker' = [worker EXCEPT
          ![w].state = IF name = "abort" THEN "aborting" ELSE @,
          ![w].callback_context = IF kept THEN thread[w].rpc_ctx ELSE @]
     /\ IF kept THEN UNCHANGED <<memory, request>> ELSE Callback(thread[w].rpc_ctx)
     /\ Goto(w, "query")
     /\ UNCHANGED <<incoming_job, pending_job, rpc_sem, rpc, target>>

\* A faulty variant: the runner does not ask.
QueryNothing(w) ==
  /\ In(w, "query")
  /\ Goto(w, "tick")
  /\ UNCHANGED <<rpcVars, worker, target>>

\* rubic_agent_runner_query_abort
QueryAbort(w) ==
  /\ In(w, "query")
  /\ Goto(w, IF worker[w].state = "aborting" THEN "ended" ELSE "tick")
  /\ UNCHANGED <<rpcVars, worker, target>>

\* The runner has returned; the worker locks its mutex.
RunnerReturns(w) ==
  /\ In(w, "ended")
  /\ worker' = [worker EXCEPT ![w].locked = TRUE]
  /\ Goto(w, IF worker[w].state = "starting" THEN "reply_error" ELSE "callback")
  /\ UNCHANGED <<rpcVars, target>>

\* The start request has not been answered.
ReplyError(w) ==
  /\ In(w, "reply_error")
  /\ worker' = [worker EXCEPT ![w].context = NULL]
  /\ Callback(thread[w].context)
  /\ Goto(w, "callback")
  /\ UNCHANGED <<incoming_job, pending_job, rpc_sem, rpc, target>>

\* A faulty variant: the callback that has been answered stays.
AnswerCallbackKeeps(w) ==
  /\ In(w, "callback")
  /\ Callback(worker[w].callback_context)
  /\ Goto(w, "top")
  /\ UNCHANGED <<incoming_job, pending_job, rpc_sem, rpc, worker, target>>

\* The callback request learns that the program has ended.
AnswerCallback(w) ==
  /\ In(w, "callback")
  /\ worker' = [worker EXCEPT ![w].callback_context = NULL]
  /\ Callback(worker[w].callback_context)
  /\ Goto(w, "top")
  /\ UNCHANGED <<incoming_job, pending_job, rpc_sem, rpc, target>>

-----------------------------------------------------------------------------

\* rubic_agent_init and rubic_agent_service
AgentInit ==
  /\ RpcInit
  /\ worker = [w \in Worker |-> [state |-> "idle", locked |-> FALSE, sem |-> 0,
                               context |-> NULL, callback_context |-> NULL]]
  /\ thread = [w \in Worker |-> [pc |-> "new", context |-> NULL, rpc_ctx |-> NULL]]
  /\ target = [s \in RpcWorker |-> 0]

Serve(s) ==
  \/ ServiceStep(s) /\ UNCHANGED <<worker, thread, target>>
  \/ QueueToWorker(s) \/ QueueStart(s) \/ QueueRefuse(s) \/ QueuePost(s)

WorkerStep(w) ==
  \/ StartWorker(w) \/ AutoBoot(w) \/ BecomeIdle(w) \/ WaitRequest(w) \/ TakeRequest(w)
  \/ ParseRequest(w) \/ RunnerFails(w) \/ NotifyInit(w) \/ Notified(w)
  \/ Tick(w) \/ Cooperate(w) \/ ClearContext(w) \/ Handle(w) \/ QueryAbort(w)
  \/ RunnerReturns(w) \/ ReplyError(w) \/ AnswerCallback(w)

AgentNext ==
  \/ SinkStep /\ UNCHANGED <<worker, thread, target>>
  \/ \E s \in RpcWorker : Serve(s)
  \/ \E w \in Worker : WorkerStep(w)

AgentSpec == AgentInit /\ [][AgentNext]_agentVars

(***************************************************************************)
(* Fairness: every thread gets the processor again and again, a mutex      *)
(* serves its waiters, and the program returns from its ticks.             *)
(***************************************************************************)
AgentFairness ==
  /\ \A s \in RpcWorker : WF_agentVars(Serve(s)) /\ SF_agentVars(QueueToWorker(s) \/ QueueStart(s))
  /\ \A w \in Worker : WF_agentVars(WorkerStep(w))

FairAgentSpec == AgentSpec /\ AgentFairness

-----------------------------------------------------------------------------
(* Properties *)

WorkerRecord ==
  [state : {"idle", "starting", "running", "aborting", "failed", "autoboot"},
   locked : BOOLEAN, sem : 0..SEM_VALUE_MAX,
   context : Job \cup {NULL}, callback_context : Job \cup {NULL}]

Place ==
  {"new", "top", "wait", "take", "parse", "runner", "notified", "failed", "tick",
   "cooperate", "clear", "handle", "query", "ended", "reply_error", "callback"}

ThreadRecord ==
  [pc : Place, context : Job \cup {NULL}, rpc_ctx : Job \cup {NULL}]

\* The types of the agent's own state.
AgentTypeOK ==
  /\ worker \in [Worker -> WorkerRecord]
  /\ thread \in [Worker -> ThreadRecord]
  /\ target \in [RpcWorker -> 0..WORKER_THREADS]

\* Every step of the agent is a step the RPC server allows its methods: the
\* agent answers only a job that it has put into the context of a worker, and
\* only once, and returns an error only for one that it has not
\* ("Successfully queued / Job will free by async_callback",
\* peridot_rpc_server.c:306).  The answer may precede the return of 0.
ImplementsRpc == RpcInit /\ [][RpcNext]_rpcVars

\* The jobs a worker has yet to answer.  From the answer to a start request to
\* the store behind it, context still points to the freed job.
Pending(w) ==
  {worker[w].callback_context}
    \cup (IF In(w, "notified") \/ In(w, "failed") THEN {} ELSE {worker[w].context})
    \cup (IF In(w, "handle") THEN {thread[w].rpc_ctx} ELSE {})

\* No request is answered from the memory of another: what a worker has yet to
\* answer, or reads, is a job that the agent was given and nobody has answered,
\* no two workers have the same, no worker has the same in two fields, and the
\* start request stays in the context until it is answered, although the
\* context is filled by other threads and emptied outside the mutex.
LiveRequests ==
  \A w \in Worker :
    /\ \A j \in Pending(w) \ {NULL} :
         Accepted(j) /\ \A v \in Worker : j \in Pending(v) => v = w
    /\ worker[w].callback_context # NULL =>
         worker[w].callback_context \notin {worker[w].context} \cup
           (IF In(w, "handle") THEN {thread[w].rpc_ctx} ELSE {})
    /\ In(w, "clear") => thread[w].rpc_ctx = worker[w].context
    /\ In(w, "handle") => thread[w].rpc_ctx # worker[w].context
    /\ In(w, "parse") \/ In(w, "runner") \/ In(w, "reply_error") =>
         thread[w].context \in {NULL, worker[w].context}

\* A callback request that a program has accepted is answered when that
\* program ends, before the worker is idle again.
CallbackOfProgram ==
  \A w \in Worker : worker[w].callback_context # NULL =>
    thread[w].pc \in {"query", "tick", "cooperate", "clear", "handle", "ended", "callback"}

\* The RPC server goes on whatever the programs do: no thread keeps the mutex
\* of a worker, or a worker's context, from which the server would have to wait.
ServerResponds == (pending_job # NULL) ~> (pending_job = NULL)

\* An abort that has been accepted ends the program: no other request undoes
\* it, and the worker becomes idle.
AbortEnds ==
  \A w \in Worker : (worker[w].state = "aborting") ~> (worker[w].state = "idle")

\* "Successfully queued / Job will free by async_callback"
\* (peridot_rpc_server.c:306): a job that has been accepted is in the hands of
\* a worker until it is answered.
NeverDropped ==
  \A j \in Job : Accepted(j) => \E w \in Worker : j \in Pending(w)

\* "context for "start" still alive" (rubic_agent.c:304): when a program has
\* failed to start, the request that is taken out of the worker's context is the
\* start request, which is answered.
StartContext ==
  \A w \in Worker :
    In(w, "reply_error") /\ worker[w].state = "starting"
      => worker[w].context = thread[w].context
=============================================================================
