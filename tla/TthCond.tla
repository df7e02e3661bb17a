------------------------------ MODULE TthCond -------------------------------
(***************************************************************************)
(* pthread_cond_* of TinyThreads.  (The board's configuration builds the   *)
(* library without them, TTHREAD_ENABLE_COND = 0.)                         *)
(***************************************************************************)
EXTENDS TthMutex

CONSTANT Cond

ASSUME CondAssumption == Cond \subseteq WaitList \ {Sleeping} /\ Cond \cap Mutex = {}

-----------------------------------------------------------------------------

\* tth_cs_mutex_unlock readies the first waiter of the mutex; then the head
\* of tth_ready, whichever thread that is by now, joins the waiters of the
\* condition.  Only when that is the caller does the processor change hands;
\* otherwise the caller goes straight on and takes the mutex back.
pthread_cond_wait(c, m) ==
  LET woken == Move(list, m, Ready)
      marked == Mark(waitstate, list, m, "ready")
  IN  /\ Caller
      /\ m \in held[running] /\ owner[m] = running   \* EPERM changes nothing
      /\ list' = Move(woken, Ready, c)
      /\ waitstate' = Mark(marked, woken, Ready, "cond")
      /\ Switch
      /\ IF running' = running
         THEN UNCHANGED <<owner, held, cont>>
         ELSE /\ owner' = [owner EXCEPT ![m] = NULL]
              /\ held' = [held EXCEPT ![running] = @ \ {m}]
              /\ cont' = [cont EXCEPT ![running] = Await("condlock", m)]
      /\ UNCHANGED <<intLevel, ticked>>

\* A signalled waiter locks the mutex again before it returns.
ResumeCondWait(m) ==
  /\ Continues("condlock", m)
  /\ CsMutexLock(m)

pthread_cond_signal(c) ==
  /\ Caller
  /\ Wake(c)
  /\ UNCHANGED <<cont, owner, held>>

\* The lists L after the loop of the broadcast, which goes on while somebody
\* waits: woken[n] are the lists after n rounds.
Emptied(L, c) ==
  LET woken[n \in 0..Len(L[c])] == IF n = 0 THEN L ELSE Move(woken[n-1], c, Ready)
  IN  woken[Len(L[c])]

\* The loop empties the list within one critical section.
pthread_cond_broadcast(c) ==
  /\ Caller
  /\ list' = Emptied(list, c)
  /\ waitstate' = [t \in Thread |->
                     IF t \in ToSet(list[c]) THEN "ready" ELSE waitstate[t]]
  /\ Switch
  /\ UNCHANGED <<intLevel, ticked, cont, owner, held>>

CondStep ==
  \/ \E c \in Cond :
       pthread_cond_signal(c) \/ pthread_cond_broadcast(c)
  \/ \E m \in Mutex :
       ResumeCondWait(m) \/ \E c \in Cond : pthread_cond_wait(c, m)

CondNext == CondStep \/ MutexNext

CondSpec == MutexInit /\ [][CondNext]_mvars

-----------------------------------------------------------------------------
(* Properties *)

\* A thread blocked on a condition is one that called pthread_cond_wait, as
\* tth_core.h says of the state 'C', released its mutex and has to lock it
\* again: it is not another thread which the unlock made the head of tth_ready.
CondWaitersCalled ==
  \A c \in Cond : \A t \in ToSet(list[c]) : cont[t].op = "condlock"

\* What is left of it when a waiter of the mutex has been made the head of
\* tth_ready inside pthread_cond_wait and has been moved to the condition: who
\* is in its list has a mutex to take.
CondHoldsWaiters ==
  \A c \in Cond : \A t \in ToSet(list[c]) : cont[t].op \in {"condlock", "lock"}

-----------------------------------------------------------------------------
\* With conditions, a client that holds a mutex unlocks it or waits for a
\* condition, and a thread that was signalled goes on when it is switched to.
FairCondSpec ==
  /\ CondSpec
  /\ MutexFairness
  /\ \A m \in Mutex : WF_mvars(ResumeCondWait(m))
=============================================================================
