------------------------------- MODULE TthSem -------------------------------
(***************************************************************************)
(* sem_* of TinyThreads.  A post with threads waiting hands its token to   *)
(* the first of them instead of counting it; interrupt handlers post too,  *)
(* and leave the switch to tth_int_exit.                                   *)
(***************************************************************************)
EXTENDS TthCore

CONSTANTS
  Sem,
  InitialValue,  \* the argument of sem_init
  SEM_VALUE_MAX

ASSUME SemAssumption ==
  /\ Sem \subseteq WaitList
  /\ Sleeping \notin Sem
  /\ SEM_VALUE_MAX \in Nat /\ InitialValue \in 0..SEM_VALUE_MAX

VARIABLE value  \* sem_t.value

semVars == <<list, running, waitstate, intLevel, ticked, cont, value>>

-----------------------------------------------------------------------------

\* A faulty variant: the post counts although it has readied a waiter.
PostAlwaysCounts(s) ==
  /\ value[s] # SEM_VALUE_MAX
  /\ value' = [value EXCEPT ![s] = @ + 1]
  /\ Wake(s)
  /\ UNCHANGED cont

\* The body of sem_post, for threads and interrupt handlers.  EOVERFLOW
\* changes nothing.
Post(s) ==
  \/ /\ list[s] # <<>>
     /\ Wake(s)
     /\ UNCHANGED <<cont, value>>
  \/ /\ list[s] = <<>> /\ value[s] # SEM_VALUE_MAX
     /\ value' = [value EXCEPT ![s] = @ + 1]
     /\ UNCHANGED coreVars

sem_post(s) == Caller /\ Post(s)

IsrPost(s) == intLevel > 0 /\ Post(s)

sem_wait(s) ==
  /\ Caller
  /\ \/ /\ value[s] > 0
        /\ value' = [value EXCEPT ![s] = @ - 1]
        /\ UNCHANGED coreVars
     \/ /\ value[s] <= 0
        /\ Block(s, "sem", "sem")
        /\ UNCHANGED value

\* A waiter is switched to inside sem_wait and returns.
ResumeSemWait(s) ==
  /\ Continues("sem", s)
  /\ cont' = [cont EXCEPT ![running] = User]
  /\ UNCHANGED <<list, running, waitstate, intLevel, ticked, value>>

\* EAGAIN changes nothing.
sem_trywait(s) ==
  /\ Caller
  /\ value[s] > 0
  /\ value' = [value EXCEPT ![s] = @ - 1]
  /\ UNCHANGED coreVars

SemInit ==
  /\ AllReady
  /\ value = [s \in Sem |-> InitialValue]

SemStep ==
  \E s \in Sem :
    \/ sem_post(s) \/ IsrPost(s)
    \/ sem_wait(s) \/ ResumeSemWait(s) \/ sem_trywait(s)

SemNext == SemStep \/ (CoreNext /\ UNCHANGED value)

SemSpec == SemInit /\ [][SemNext]_semVars

-----------------------------------------------------------------------------
(* Properties *)

\* The types: a semaphore counts up to SEM_VALUE_MAX (sem_post refuses more).
SemTypeOK == CoreTypeOK /\ value \in [Sem -> 0..SEM_VALUE_MAX]

\* No thread waits for a semaphore that has a token to give, whether it was
\* posted by a thread or by an interrupt handler.
NoIdleToken == \A s \in Sem : value[s] > 0 => list[s] = <<>>

\* A thread that sem_wait suspended is in the list of its semaphore until a
\* post takes it out, and ready from then on.
SemWaitersLinked ==
  \A t \in Thread, s \in Sem :
    /\ t \in ToSet(list[s]) => cont[t] = Await("sem", s)
    /\ cont[t] = Await("sem", s) => t \in ToSet(list[s]) \cup ToSet(list[Ready])

(***************************************************************************)
(* The tokens a semaphore has given out for good: those it counts and      *)
(* those on their way to a thread that has been readied.                   *)
(***************************************************************************)
Suspended(s) == {t \in Thread : cont[t] = Await("sem", s)}
Tokens(s) == value[s] + Cardinality(Suspended(s) \ ToSet(list[s]))

Counting == INSTANCE Semaphore WITH
  Initial <- InitialValue,
  avail   <- [s \in Sem |-> Tokens(s)],
  waiting <- [s \in Sem |-> Suspended(s)]

\* The handoff implements a counting semaphore: no post is lost, no token is
\* taken twice, and a thread returns only with a token.
ImplementsSemaphore == Counting!Spec
=============================================================================
