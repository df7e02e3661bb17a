------------------------------ MODULE TthOnce -------------------------------
(***************************************************************************)
(* pthread_once of TinyThreads, called by threads that also use other      *)
(* mutexes: done is looked at without the mutex first, and again with it.  *)
(* The routine may sleep, yield, and lock other mutexes.                   *)
(***************************************************************************)
EXTENDS TthMutex

CONSTANT Once  \* the mutex of the once_control

ASSUME OnceAssumption == Once \in Mutex

VARIABLES
  onceDone,  \* once_control->done
  place,     \* where each thread is in pthread_once; "back": it has returned 0
  routine    \* how often init_routine has been started and has ended

onceVars == <<onceDone, place, routine>>
ovars == <<list, running, waitstate, intLevel, ticked, cont, owner, held,
           onceDone, place, routine>>

OncePlace == {"out", "lock", "look", "run", "store", "unlock", "back"}

In(p) == Caller /\ place[running] = p
Go(p) == place' = [place EXCEPT ![running] = p]

-----------------------------------------------------------------------------

OnceCall ==
  /\ In("out") \/ In("back")
  /\ IF onceDone THEN Go("back") ELSE Go("lock")
  /\ UNCHANGED <<coreVars, mutexVars, onceDone, routine>>

OnceLock ==
  /\ In("lock")
  /\ CsMutexLock(Once)
  /\ Go("look")
  /\ UNCHANGED <<onceDone, routine>>

ResumeOnceLock == ResumeLock(Once) /\ UNCHANGED onceVars

\* A faulty variant: done is not looked at again.
LookNoMore ==
  /\ In("look")
  /\ Go("run") /\ routine' = [routine EXCEPT !.started = @ + 1]
  /\ UNCHANGED <<coreVars, mutexVars, onceDone>>

OnceLook ==
  /\ In("look")
  /\ IF onceDone THEN Go("unlock") /\ UNCHANGED routine
     ELSE Go("run") /\ routine' = [routine EXCEPT !.started = @ + 1]
  /\ UNCHANGED <<coreVars, mutexVars, onceDone>>

RoutineEnds ==
  /\ In("run")
  /\ Go("store") /\ routine' = [routine EXCEPT !.ended = @ + 1]
  /\ UNCHANGED <<coreVars, mutexVars, onceDone>>

OnceStore ==
  /\ In("store")
  /\ Go("unlock") /\ onceDone' = TRUE
  /\ UNCHANGED <<coreVars, mutexVars, routine>>

\* pthread_once returns what the unlock returns: EPERM when a thread that
\* waited has taken the mutex over.
OnceUnlock ==
  /\ In("unlock")
  /\ Go(IF owner[Once] = running THEN "back" ELSE "out")
  /\ CsMutexUnlock(Once)
  /\ held' = [held EXCEPT ![running] = @ \ {Once}]
  /\ UNCHANGED <<onceDone, routine>>

OnceStep ==
  \/ OnceCall \/ OnceLock \/ ResumeOnceLock \/ OnceLook
  \/ RoutineEnds \/ OnceStore \/ OnceUnlock

\* pthread_once itself does not sleep, yield or use another mutex; its routine
\* may.
Elsewhere == place[running] \in {"out", "run", "back"}

OtherMutexes ==
  \E m \in Mutex \ {Once} :
    \/ Elsewhere /\ (pthread_mutex_lock(m) \/ pthread_mutex_trylock(m))
    \/ Elsewhere /\ pthread_mutex_unlock(m)
    \/ ResumeLock(m)

OnceSchedule ==
  /\ CoreNext
  /\ usleep \/ (sched_yield /\ running # Idle) => Elsewhere
  /\ UNCHANGED mutexVars

OnceInit ==
  /\ MutexInit
  /\ onceDone = FALSE
  /\ place = [t \in Thread |-> "out"]
  /\ routine = [started |-> 0, ended |-> 0]

OnceNext == OnceStep \/ ((OtherMutexes \/ OnceSchedule) /\ UNCHANGED onceVars)

OnceSpec == OnceInit /\ [][OnceNext]_ovars

-----------------------------------------------------------------------------
(* Properties *)

\* POSIX: the routine runs once, and who returns from pthread_once, the thread
\* that ran it or another, finds it ended, also when the mutex has been taken
\* over between a waiter's wake-up and its turn.
OnceOnly ==
  /\ routine.started <= 1
  /\ (\E t \in Thread : place[t] = "back") => routine.ended = 1
=============================================================================
