------------------------------ MODULE TthMutex ------------------------------
(***************************************************************************)
(* pthread_mutex_* of TinyThreads, called by threads that unlock only what *)
(* a lock call gave them.  Unlocking hands a mutex to nobody: it clears    *)
(* the owner and readies the first waiter, which takes the mutex when it   *)
(* next runs, whoever owns it by then.                                     *)
(***************************************************************************)
EXTENDS TthCore

CONSTANT Mutex

ASSUME MutexAssumption == Mutex \subseteq WaitList \ {Sleeping}

VARIABLES
  owner,  \* pthread_mutex_t.owner of each mutex
  held    \* the mutexes that each thread was given and has not unlocked

mutexVars == <<owner, held>>
mvars == <<list, running, waitstate, intLevel, ticked, cont, owner, held>>

-----------------------------------------------------------------------------

\* The assignment at the end of tth_cs_mutex_lock and its return of 0.
Acquire(m) ==
  /\ owner' = [owner EXCEPT ![m] = running]
  /\ held' = [held EXCEPT ![running] = @ \cup {m}]
  /\ cont' = [cont EXCEPT ![running] = User]
  /\ UNCHANGED <<list, running, waitstate, intLevel, ticked>>

\* tth_cs_mutex_lock(m, 1) by the running thread, up to its switch when it
\* has to wait.  EDEADLK leaves the mutex alone.
CsMutexLock(m) ==
  \/ /\ owner[m] = NULL
     /\ Acquire(m)
  \/ /\ owner[m] = running
     /\ cont' = [cont EXCEPT ![running] = User]
     /\ UNCHANGED <<list, running, waitstate, intLevel, ticked, owner, held>>
  \/ /\ owner[m] \notin {NULL, running}
     /\ Block(m, "mutex", "lock")
     /\ UNCHANGED <<owner, held>>

pthread_mutex_lock(m) ==
  /\ Caller
  /\ CsMutexLock(m)

\* A waiter is switched to inside tth_cs_mutex_lock: it does not look again.
ResumeLock(m) ==
  /\ Continues("lock", m)
  /\ Acquire(m)

\* Without waiting: EBUSY changes nothing.
pthread_mutex_trylock(m) ==
  /\ Caller
  /\ owner[m] = NULL
  /\ Acquire(m)

\* Faulty variants: the waiters are forgotten; the mutex is left to a waiter
\* that is not given it.
UnlockWithoutWake(m) ==
  \/ /\ owner[m] = running
     /\ owner' = [owner EXCEPT ![m] = NULL]
     /\ UNCHANGED coreVars
  \/ /\ owner[m] # running
     /\ UNCHANGED <<coreVars, owner>>
UnlockKeepsOwner(m) ==
  \/ /\ owner[m] = running
     /\ owner' = [owner EXCEPT ![m] = IF list[m] = <<>> THEN NULL ELSE @]
     /\ Wake(m)
     /\ UNCHANGED cont
  \/ /\ owner[m] # running
     /\ UNCHANGED <<coreVars, owner>>

\* tth_cs_mutex_unlock and the switch after it.  EPERM leaves the mutex
\* alone.
CsMutexUnlock(m) ==
  \/ /\ owner[m] = running
     /\ owner' = [owner EXCEPT ![m] = NULL]
     /\ Wake(m)
     /\ UNCHANGED cont
  \/ /\ owner[m] # running
     /\ UNCHANGED <<coreVars, owner>>

\* The caller believes it has given the mutex back, also when EPERM tells it
\* that another thread has become the owner.
pthread_mutex_unlock(m) ==
  /\ Caller
  /\ m \in held[running]
  /\ held' = [held EXCEPT ![running] = @ \ {m}]
  /\ CsMutexUnlock(m)

MutexInit ==
  /\ AllReady
  /\ owner = [m \in Mutex |-> NULL]
  /\ held = [t \in Thread |-> {}]

MutexStep ==
  \E m \in Mutex :
    \/ pthread_mutex_lock(m) \/ pthread_mutex_trylock(m)
    \/ ResumeLock(m) \/ pthread_mutex_unlock(m)

MutexNext == MutexStep \/ (CoreNext /\ UNCHANGED mutexVars)

MutexSpec == MutexInit /\ [][MutexNext]_mvars

-----------------------------------------------------------------------------
(* Properties *)

\* The types: a mutex has an owner or none (tth_mutex.h), and held is what the
\* callers of pthread_mutex_lock believe they have.
MutexTypeOK ==
  /\ CoreTypeOK
  /\ owner \in [Mutex -> Thread \cup {NULL}]
  /\ held \in [Thread -> SUBSET Mutex]

\* POSIX: between the return of pthread_mutex_lock and the unlock, no other
\* thread has the mutex.
MutualExclusion ==
  \A m \in Mutex, s, t \in Thread : m \in held[s] /\ m \in held[t] => s = t

\* A free mutex with threads waiting for it has been offered to one of them:
\* that thread is ready and takes the mutex when it runs.  Nobody waits for
\* an unlock that has already happened.
NoStrandedWaiter ==
  \A m \in Mutex :
    owner[m] = NULL /\ list[m] # <<>> =>
      \E t \in ToSet(list[Ready]) : cont[t] = Await("lock", m)

\* The owner is a thread that is going to unlock: whatever overwrites the
\* owner field, it never names a thread that already called unlock.
OwnerWillUnlock ==
  \A m \in Mutex : owner[m] # NULL => m \in held[owner[m]]

-----------------------------------------------------------------------------
(***************************************************************************)
(* Fairness.  Interrupts keep coming (the timer is periodic) and end, time *)
(* slices end, a thread that has been switched to goes on, and a client    *)
(* that holds a mutex unlocks it when it gets to run often enough.         *)
(***************************************************************************)
MutexFairness ==
  /\ WF_mvars(tth_int_exit /\ UNCHANGED mutexVars)
  /\ SF_mvars(tth_int_enter /\ UNCHANGED mutexVars)
  /\ SF_mvars(EndSlice /\ UNCHANGED mutexVars)
  /\ \A m \in Mutex : WF_mvars(ResumeLock(m))
  /\ \A m \in Mutex, t \in Thread :
       SF_mvars(running = t /\ pthread_mutex_unlock(m))

FairMutexSpec == MutexSpec /\ MutexFairness

\* What tth_sleep_tick guarantees (SleepEnds of module TthSleep).
SleepsEnd == \A t \in Thread : []<>(t \notin ToSet(list[Sleeping]))

\* A thread that waits for a mutex is given it in the end, in spite of the
\* threads that take it first, when all threads share a priority and yield
\* the processor at the end of a time slice.
WaiterServed ==
  SleepsEnd =>
    \A m \in Mutex, t \in Thread : (t \in ToSet(list[m])) ~> (m \in held[t])
=============================================================================
