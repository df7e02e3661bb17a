----------------------------- MODULE TthThread ------------------------------
(***************************************************************************)
(* The life of a thread in TinyThreads: pthread_create, pthread_exit,      *)
(* pthread_join, pthread_detach and the idle thread, which frees the       *)
(* threads that terminate detached.                                        *)
(*                                                                         *)
(* The control block of a thread lies at the end of its own stack, so that *)
(* freeing the stack frees both.  The callers keep to POSIX: they join or  *)
(* detach a thread at most once, and not while another thread joins it.    *)
(***************************************************************************)
EXTENDS TthCore

CONSTANT Detached  \* the name of the list tth_detach

ASSUME ThreadAssumption ==
  Thread \subseteq WaitList \ {Sleeping} /\ Detached \in WaitList \ (Thread \cup {Sleeping})

VARIABLES
  detachstate,  \* tth_thread.detachstate
  stack,        \* what has become of the stack of each thread
  claimed       \* the threads somebody has called pthread_join for

lifeVars == <<detachstate, stack, claimed>>
threadVars == <<list, running, waitstate, intLevel, ticked, cont,
                detachstate, stack, claimed>>

Static == {Idle, Main}          \* threads whose control block is static
Dynamic == Thread \ Static

\* "none": not created; "used": allocated; "freed"; "freed twice".
StackState == {"none", "used", "freed", "freed twice"}

\* A thread that has been created and may be named in a call.
Known(t) == t \in Dynamic /\ stack[t] = "used"

-----------------------------------------------------------------------------

\* pthread_create up to the ready list; malloc may refuse the stack before,
\* which changes nothing.
pthread_create(t, detach) ==
  /\ Caller
  /\ t \in Dynamic /\ stack[t] = "none"
  /\ stack' = [stack EXCEPT ![t] = "used"]
  /\ detachstate' = [detachstate EXCEPT ![t] = detach]
  /\ list' = [list EXCEPT ![Ready] = Insert(@, t)]
  /\ waitstate' = [waitstate EXCEPT ![t] = "ready"]
  /\ Switch
  /\ UNCHANGED <<intLevel, ticked, cont, claimed>>

\* A joinable thread leaves the lists and readies the thread that joins it.
ExitJoinable ==
  LET left == Unlink(list, Ready)
      marked == Mark(waitstate, list, Ready, "join")
  IN  /\ detachstate[running] = "joinable"
      /\ list' = Move(left, running, Ready)
      /\ waitstate' = Mark(marked, left, running, "ready")

\* A faulty variant: the thread is not handed to the idle thread.
ExitUnlinked ==
  /\ detachstate[running] = "detached"
  /\ list' = Unlink(list, Ready)
  /\ waitstate' = Mark(waitstate, list, Ready, "dead")

\* A detached one is left to the idle thread.
ExitDetached ==
  /\ detachstate[running] = "detached"
  /\ MoveHead(Ready, Detached, "dead")

pthread_exit ==
  /\ Caller /\ running \in Dynamic
  /\ ExitJoinable \/ ExitDetached
  /\ Switch
  /\ UNCHANGED <<intLevel, ticked, cont, lifeVars>>

\* A faulty variant: the thread is freed without a wait for its end.
JoinAtOnce(t) ==
  /\ Caller
  /\ Known(t) /\ t \notin claimed
  /\ detachstate[t] = "joinable" /\ list[t] = <<>> /\ t # running
  /\ claimed' = claimed \cup {t}
  /\ cont' = [cont EXCEPT ![running] = Await("free", t)]
  /\ UNCHANGED <<list, running, waitstate, intLevel, ticked, detachstate, stack>>

\* EINVAL and EDEADLK change nothing.  A thread that has terminated is freed
\* at once, after the critical section.
pthread_join(t) ==
  /\ Caller
  /\ Known(t) /\ t \notin claimed
  /\ detachstate[t] = "joinable" /\ list[t] = <<>> /\ t # running
  /\ claimed' = claimed \cup {t}
  /\ \/ /\ waitstate[t] # "join"
        /\ Block(t, "thread", "join")
     \/ /\ waitstate[t] = "join"
        /\ cont' = [cont EXCEPT ![running] = Await("free", t)]
        /\ UNCHANGED <<list, running, waitstate, intLevel, ticked>>
  /\ UNCHANGED <<detachstate, stack>>

\* The thread that joins is switched to, and leaves its critical section.
ResumeJoin(t) ==
  /\ Continues("join", t)
  /\ cont' = [cont EXCEPT ![running] = Await("free", t)]
  /\ UNCHANGED <<list, running, waitstate, intLevel, ticked, lifeVars>>

\* free(target->autostack), by the thread that joined or the idle thread.
Free(t) ==
  /\ Continues("free", t)
  /\ stack' = [stack EXCEPT ![t] = IF @ = "used" THEN "freed" ELSE "freed twice"]
  /\ cont' = [cont EXCEPT ![running] = User]
  /\ UNCHANGED <<list, running, waitstate, intLevel, ticked, detachstate, claimed>>

pthread_detach(t) ==
  /\ Caller
  /\ Known(t) /\ t \notin claimed
  /\ detachstate[t] = "joinable"
  /\ list[t] = <<>>                      \* tth_crash otherwise
  /\ detachstate' = [detachstate EXCEPT ![t] = "detached"]
  /\ UNCHANGED <<coreVars, stack, claimed>>

\* A faulty variant: the thread stays in tth_detach.
IdleKeepsLink ==
  /\ UserMode /\ running = Idle
  /\ list[Detached] # <<>>
  /\ cont' = [cont EXCEPT ![Idle] = Await("free", Head(list[Detached]))]
  /\ UNCHANGED <<list, running, waitstate, intLevel, ticked, lifeVars>>

\* The idle thread takes a thread from tth_detach, frees it and yields.
tth_idle ==
  /\ UserMode /\ running = Idle
  /\ list[Detached] # <<>>
  /\ list' = Unlink(list, Detached)
  /\ cont' = [cont EXCEPT ![Idle] = Await("free", Head(list[Detached]))]
  /\ UNCHANGED <<running, waitstate, intLevel, ticked, lifeVars>>

\* tth_initialize, when main is about to run: the two static threads.
ThreadInit ==
  /\ CoreInit([l \in Lists |-> IF l = Ready THEN <<Main, Idle>> ELSE <<>>])
  /\ detachstate = [t \in Thread |-> IF t = Idle THEN "detached" ELSE "joinable"]
  /\ stack = [t \in Thread |-> "none"]
  /\ claimed = {}

ThreadStep ==
  \/ \E t \in Dynamic :
       \/ \E detach \in {"joinable", "detached"} : pthread_create(t, detach)
       \/ pthread_join(t) \/ ResumeJoin(t) \/ Free(t) \/ pthread_detach(t)
  \/ pthread_exit \/ tth_idle

ThreadNext == ThreadStep \/ (CoreNext /\ UNCHANGED lifeVars)

ThreadSpec == ThreadInit /\ [][ThreadNext]_threadVars

-----------------------------------------------------------------------------
(* Properties *)

\* The types: what a thread's detachstate and its stack may be; joins and
\* detaches name threads that pthread_create has made.
ThreadTypeOK ==
  /\ CoreTypeOK
  /\ detachstate \in [Thread -> {"joinable", "detached"}]
  /\ stack \in [Thread -> StackState]
  /\ claimed \subseteq Dynamic

\* A stack is freed once: not by two joins, nor by a join and the idle thread.
FreedOnce == \A t \in Thread : stack[t] # "freed twice"

\* What has been freed is not reachable: no list links the thread, no thread
\* waits in its own list, nobody is going to free it, it does not run.
NoUseAfterFree ==
  \A t \in Dynamic : stack[t] = "freed" =>
    /\ running # t /\ list[t] = <<>>
    /\ \A l \in Lists : t \notin ToSet(list[l])
    /\ \A u \in Thread : cont[u] \notin {Await("free", t), Await("join", t)}

Terminated(t) == waitstate[t] \in {"join", "dead"}

\* A thread that joined another continues after the other has terminated.
JoinedAfterExit ==
  \A t \in Dynamic, u \in Thread :
    \/ cont[u] = Await("free", t)
    \/ cont[u] = Await("join", t) /\ u \in ToSet(list[Ready])
    => Terminated(t)

\* POSIX: a detached thread's storage is reclaimed when it has terminated.
\* Whoever terminated detached is freed or in the list of the idle thread.
DetachedReclaimed ==
  \A t \in Dynamic :
    detachstate[t] = "detached" /\ Terminated(t) =>
      \/ stack[t] = "freed"
      \/ t \in ToSet(list[Detached])
      \/ cont[Idle] = Await("free", t)

\* The same for those that were detached before they terminated.
DeadReclaimed ==
  \A t \in Dynamic :
    waitstate[t] = "dead" =>
      \/ stack[t] = "freed"
      \/ t \in ToSet(list[Detached])
      \/ cont[Idle] = Await("free", t)
=============================================================================
