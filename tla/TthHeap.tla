------------------------------ MODULE TthHeap -------------------------------
(***************************************************************************)
(* The lock newlib takes around malloc and free: __malloc_lock and         *)
(* __malloc_unlock make a TinyThreads mutex recursive with a counter that  *)
(* the mutex is meant to protect.  (__env_lock is written the same way.)   *)
(* Every thread allocates; the idle thread does when it frees the stack of *)
(* a detached thread.                                                      *)
(***************************************************************************)
EXTENDS TthMutex

CONSTANTS
  Heap,       \* alt_malloc_lock
  MaxDepth,   \* how deep the allocator nests its calls (realloc calls malloc)
  LocksBound  \* how far the counter may drift from 0

ASSUME HeapAssumption ==
  Heap \in Mutex /\ MaxDepth \in Nat \ {0} /\ LocksBound \in Nat

VARIABLES
  locks,  \* the counter
  step,   \* where each thread is in the lock and unlock functions
  reg,    \* the value of the counter each thread has loaded
  depth,  \* how many locks each thread has to undo
  overtaken  \* the mutex has been locked between a waiter's wake-up and its turn

heapVars == <<locks, step, reg, depth, overtaken>>
hvars == <<list, running, waitstate, intLevel, ticked, cont, owner, held,
           locks, step, reg, depth, overtaken>>

\* "out", then in __malloc_lock before the load of the counter ("load") and
\* before its store ("store"), "in" the allocator, and in __malloc_unlock
\* likewise.
StepState == {"out", "load", "store", "in", "unload", "unlock"}

At(s) == UserMode /\ step[running] = s
Goto(s) == step' = [step EXCEPT ![running] = s]

-----------------------------------------------------------------------------

\* A waiter has been woken and not run yet.
Offered == \E t \in ToSet(list[Ready]) : cont[t] = Await("lock", Heap)

\* pthread_mutex_lock: 0 and EDEADLK both count.  A thread that waits for
\* the mutex is "load" when it runs again.
MallocLock ==
  /\ At("out") \/ (At("in") /\ depth[running] < MaxDepth)
  /\ CsMutexLock(Heap)
  /\ Goto("load")
  /\ depth' = [depth EXCEPT ![running] = @ + 1]
  /\ overtaken' = (overtaken \/ (owner[Heap] = NULL /\ Offered))
  /\ UNCHANGED <<locks, reg>>

ResumeMallocLock == ResumeLock(Heap) /\ UNCHANGED heapVars

\* ++locks is a load and a store, between which an interrupt may switch.
LoadCount ==
  /\ At("load")
  /\ reg' = [reg EXCEPT ![running] = locks]
  /\ Goto("store")
  /\ UNCHANGED <<locks, depth, overtaken, coreVars, mutexVars>>

StoreCount ==
  /\ At("store") /\ reg[running] < LocksBound
  /\ locks' = reg[running] + 1
  /\ Goto("in")
  /\ UNCHANGED <<reg, depth, overtaken, coreVars, mutexVars>>

\* --locks, likewise.
UnloadCount ==
  /\ At("in")
  /\ reg' = [reg EXCEPT ![running] = locks]
  /\ Goto("unload")
  /\ UNCHANGED <<locks, depth, overtaken, coreVars, mutexVars>>

\* A faulty variant: the mutex is given back one unlock too early.
UnstoreEarly ==
  /\ At("unload") /\ reg[running] > -LocksBound
  /\ locks' = reg[running] - 1
  /\ depth' = [depth EXCEPT ![running] = @ - 1]
  /\ Goto(IF locks' <= 1 THEN "unlock" ELSE IF depth'[running] > 0 THEN "in" ELSE "out")
  /\ reg' = [reg EXCEPT ![running] = 0]
  /\ UNCHANGED <<overtaken, coreVars, mutexVars>>

UnstoreCount ==
  /\ At("unload") /\ reg[running] > -LocksBound
  /\ locks' = reg[running] - 1
  /\ depth' = [depth EXCEPT ![running] = @ - 1]
  /\ Goto(IF locks' = 0 THEN "unlock" ELSE IF depth'[running] > 0 THEN "in" ELSE "out")
  /\ reg' = [reg EXCEPT ![running] = 0]
  /\ UNCHANGED <<overtaken, coreVars, mutexVars>>

MallocUnlock ==
  /\ At("unlock")
  /\ CsMutexUnlock(Heap)
  /\ held' = [held EXCEPT ![running] = @ \ {Heap}]
  /\ Goto(IF depth[running] > 0 THEN "in" ELSE "out")
  /\ UNCHANGED <<locks, reg, depth, overtaken>>

\* The allocator does not sleep or yield.
Schedule ==
  /\ CoreNext
  /\ usleep \/ sched_yield => step[running] = "out"
  /\ UNCHANGED <<mutexVars, heapVars>>

HeapInit ==
  /\ MutexInit
  /\ locks = 0
  /\ step = [t \in Thread |-> "out"]
  /\ reg = [t \in Thread |-> 0]
  /\ depth = [t \in Thread |-> 0]
  /\ overtaken = FALSE

HeapNext ==
  \/ MallocLock \/ ResumeMallocLock \/ LoadCount \/ StoreCount
  \/ UnloadCount \/ UnstoreCount \/ MallocUnlock
  \/ Schedule

HeapSpec == HeapInit /\ [][HeapNext]_hvars

-----------------------------------------------------------------------------
(* Properties *)

\* The types: the nesting counter, each thread's register between the load and
\* the store of it, and how deep the thread is in the allocator.
HeapTypeOK ==
  /\ MutexTypeOK
  /\ locks \in -LocksBound..LocksBound /\ reg \in [Thread -> -LocksBound..LocksBound]
  /\ depth \in [Thread -> 0..MaxDepth]
  /\ step \in [Thread -> StepState]
  /\ overtaken \in BOOLEAN

\* A thread between the return of __malloc_lock and the matching unlock.
InHeap(t) == step[t] # "out" /\ cont[t] # Await("lock", Heap)

\* Two threads are never in the allocator at once.
HeapExclusive == \A s, t \in Thread : InHeap(s) /\ InHeap(t) => s = t

\* The counter, which no critical section protects, keeps the others out for as
\* long as a thread is in the allocator, and the idle thread, which frees stacks,
\* never has to wait for them: if that ever fails, the mutex was taken while a
\* waiter that had been woken was still to take it, and for no other reason.
HeapSafe == overtaken \/ (HeapExclusive /\ IdleReady)
=============================================================================
