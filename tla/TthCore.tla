------------------------------ MODULE TthCore -------------------------------
(***************************************************************************)
(* The scheduler core of TinyThreads, the thread library of the firmware   *)
(* (src/software/olive_rubic_bsp/TINYTH).                                  *)
(*                                                                         *)
(* Every list of threads in the library is a singly linked list threaded   *)
(* through tth_thread.follower: tth_ready, the waiter list of each mutex,  *)
(* condition, semaphore and thread, tth_sleeping and tth_detach.  They are *)
(* the variable "list", a function from the name of a list to the sequence *)
(* of its threads.  An object (a mutex, a semaphore, ...) is the name of   *)
(* its own waiter list.                                                    *)
(*                                                                         *)
(* tth_cs_begin disables the interrupts, so that a library call runs       *)
(* without interference up to tth_cs_switch, where another thread          *)
(* continues.  What a suspended thread has left to do when it runs again,  *)
(* still inside its critical section, is its continuation "cont".          *)
(***************************************************************************)
EXTENDS Integers, FiniteSets, SequencesExt

CONSTANTS
  Thread,      \* every thread that may exist, the idle thread included
  Idle,        \* tth_idle_thread
  Main,        \* tth_default_thread
  Priority,    \* schedpriority of each thread
  RoundRobin,  \* the threads whose schedpolicy is SCHED_RR
  Ready,       \* the name of the list tth_ready
  Sleeping,    \* the name of the list tth_sleeping
  WaitList,    \* the names of all the lists but tth_ready
  NULL         \* the null pointer

ASSUME CoreAssumption ==
  /\ IsFiniteSet(Thread)
  /\ Idle \in Thread /\ Main \in Thread /\ Idle # Main
  /\ Priority \in [Thread -> Nat]
  /\ \A t \in Thread \ {Idle} : Priority[t] > Priority[Idle]
  /\ RoundRobin \subseteq Thread
  /\ Ready \notin WaitList /\ Sleeping \in WaitList
  /\ NULL \notin Thread /\ NULL \notin WaitList

VARIABLES
  list,       \* the threads of each list, first one first
  running,    \* tth_running
  waitstate,  \* tth_thread.waitstate
  intLevel,   \* tth_int_level
  ticked,     \* the interrupt being served has run tth_int_tick to its end
  cont        \* what each thread does when it is switched to

coreVars == <<list, running, waitstate, intLevel, ticked, cont>>

Lists == {Ready} \cup WaitList

\* waitstate: the letters of the enumeration in tth_core.h; the statically
\* initialised threads have none of them yet.
WaitState == {"none", "ready", "join", "dead", "thread", "mutex", "sem", "cond", "sleep"}

(***************************************************************************)
(* Continuations.  "user": the thread is outside the library.  The others  *)
(* name the operation that waits and the object it waits for; those in     *)
(* CsOps continue with the interrupts still disabled.                      *)
(***************************************************************************)
CsOps == {"lock", "condlock", "sem", "join"}
Ops   == CsOps \cup {"user", "free"}
User  == [op |-> "user", on |-> NULL]
Await(op, obj) == [op |-> op, on |-> obj]
Continuation == [op : Ops, on : WaitList \cup {NULL}]

\* The running thread is outside the library.
UserMode == running # NULL /\ intLevel = 0 /\ cont[running] = User
\* Interrupts are enabled outside the critical sections.
InterruptsOn == running # NULL /\ intLevel = 0 /\ cont[running].op \notin CsOps
\* A thread other than the idle thread runs and may call the library.
Caller == UserMode /\ running # Idle
\* The running thread has just been switched to and continues its call.
Continues(op, obj) == running # NULL /\ intLevel = 0 /\ cont[running] = Await(op, obj)

-----------------------------------------------------------------------------
(* Linked lists *)

HeadOf(q) == IF q = <<>> THEN NULL ELSE Head(q)

\* In the order of the priorities, higher ones first.
Ordered(q) == \A i, j \in DOMAIN q : i <= j => Priority[q[i]] >= Priority[q[j]]

\* A faulty variant of the walk: it stops at an equal priority.
InsertPosBeforeEqual(q, t) ==
  CHOOSE p \in 1..Len(q)+1 :
    /\ \A i \in 1..p-1 : Priority[q[i]] > Priority[t]
    /\ p <= Len(q) => Priority[q[p]] <= Priority[t]

\* Where tth_cs_move links a thread: behind every thread of its own or a
\* higher priority that the walk from the head meets before a lower one.
InsertPos(q, t) ==
  CHOOSE p \in 1..Len(q)+1 :
    /\ \A i \in 1..p-1 : Priority[q[i]] >= Priority[t]
    /\ p <= Len(q) => Priority[q[p]] < Priority[t]

Insert(q, t) == InsertAt(q, InsertPos(q, t), t)

\* A faulty variant: the head is linked to the new list but not unlinked.
MoveKeepsHead(L, from, to) ==
  IF L[from] = <<>> THEN L ELSE [L EXCEPT ![to] = Insert(@, Head(L[from]))]

\* The lists L after tth_cs_move(&from, &to, _).
Move(L, from, to) ==
  IF L[from] = <<>> THEN L
  ELSE LET R == [L EXCEPT ![from] = Tail(@)]
       IN  [R EXCEPT ![to] = Insert(@, Head(L[from]))]

\* The lists L after tth_cs_move(&from, NULL, _).
Unlink(L, from) == [L EXCEPT ![from] = IF @ = <<>> THEN @ ELSE Tail(@)]

\* The waitstates W after a move of the head of list from in L.
Mark(W, L, from, state) ==
  IF L[from] = <<>> THEN W ELSE [W EXCEPT ![Head(L[from])] = state]

\* tth_cs_move as a step: list from gives its head to list to.
MoveHead(from, to, state) ==
  /\ list' = Move(list, from, to)
  /\ waitstate' = Mark(waitstate, list, from, state)

\* tth_cs_switch: at interrupt level 0 the head of tth_ready runs.  The
\* interrupt handlers leave the switch to tth_int_exit.
Switch == running' = IF intLevel = 0 THEN HeadOf(list'[Ready]) ELSE running

-----------------------------------------------------------------------------
(* The operations of the scheduler itself *)

\* The running thread waits in a list of an object and continues with op.
Block(q, state, op) ==
  /\ MoveHead(Ready, q, state)
  /\ Switch
  /\ cont' = [cont EXCEPT ![running] = Await(op, q)]
  /\ UNCHANGED <<intLevel, ticked>>

\* A faulty variant: the lists are swapped.
WakeSwapped(q) ==
  /\ MoveHead(Ready, q, "ready")
  /\ Switch
  /\ UNCHANGED <<intLevel, ticked>>

\* The first thread of a list, if any, becomes ready.
Wake(q) ==
  /\ MoveHead(q, Ready, "ready")
  /\ Switch
  /\ UNCHANGED <<intLevel, ticked>>

sched_yield ==
  /\ UserMode
  /\ MoveHead(Ready, Ready, "ready")
  /\ Switch
  /\ UNCHANGED <<intLevel, ticked, cont>>

\* The running thread joins tth_sleeping.  Its place there depends on the
\* times (module TthSleep) and is left open here.
usleep ==
  /\ Caller
  /\ \E p \in 1..Len(list[Sleeping])+1 :
       list' = [list EXCEPT ![Ready] = Tail(@), ![Sleeping] = InsertAt(@, p, running)]
  /\ waitstate' = [waitstate EXCEPT ![running] = "sleep"]
  /\ Switch
  /\ UNCHANGED <<intLevel, ticked, cont>>

\* The prologue of an interrupt.  The core takes no nested interrupts.
tth_int_enter ==
  /\ InterruptsOn
  /\ intLevel' = 1
  /\ ticked' = FALSE
  /\ UNCHANGED <<list, running, waitstate, cont>>

\* The end of an interrupt, where a thread readied by a handler gets the
\* processor.
tth_int_exit ==
  /\ intLevel > 0
  /\ intLevel' = intLevel - 1
  /\ running' = IF intLevel' = 0 THEN HeadOf(list[Ready]) ELSE running
  /\ UNCHANGED <<list, waitstate, ticked, cont>>

\* tth_int_tick first wakes sleepers from the head of the list on; which of
\* them are due is left open here.
tth_sleep_tick ==
  /\ intLevel > 0 /\ ~ticked
  /\ list[Sleeping] # <<>>
  /\ Wake(Sleeping)
  /\ UNCHANGED cont

\* It then ends the time slice when the tick completes the interval, which
\* is left open here as well.
EndSlice ==
  /\ intLevel > 0 /\ ~ticked
  /\ ticked' = TRUE
  /\ running \in RoundRobin
  /\ MoveHead(Ready, Ready, "ready")
  /\ Switch
  /\ UNCHANGED <<intLevel, cont>>

KeepSlice ==
  /\ intLevel > 0 /\ ~ticked
  /\ ticked' = TRUE
  /\ UNCHANGED <<list, running, waitstate, intLevel, cont>>

tth_int_tick == EndSlice \/ KeepSlice

\* The threads that alt_sys_init and main have created, all of them ready, by
\* priority and in whatever order they were created.
StartQueues == {q \in [1..Cardinality(Thread) -> Thread] :
                  IsInjective(q) /\ ToSet(q) = Thread /\ Ordered(q)}
ReadyQueues(q) == [l \in Lists |-> IF l = Ready THEN q ELSE <<>>]

\* A state after alt_sys_init, with the threads in "queues" already created.
CoreInit(queues) ==
  /\ list = queues
  /\ running = HeadOf(queues[Ready])
  /\ waitstate = [t \in Thread |-> IF t \in ToSet(queues[Ready]) \ {Idle, Main}
                                   THEN "ready" ELSE "none"]
  /\ intLevel = 0
  /\ ticked = FALSE
  /\ cont = [t \in Thread |-> User]

AllReady == \E q \in StartQueues : CoreInit(ReadyQueues(q))

CoreNext ==
  \/ sched_yield \/ usleep
  \/ tth_int_enter \/ tth_sleep_tick \/ tth_int_tick \/ tth_int_exit

CoreSpec == AllReady /\ [][CoreNext]_coreVars

-----------------------------------------------------------------------------
(* Properties common to every component built on the core *)

\* The control blocks and globals hold what their declarations say (tth_core.h).
CoreTypeOK ==
  /\ list \in [Lists -> Seq(Thread)]
  /\ running \in Thread \cup {NULL}
  /\ waitstate \in [Thread -> WaitState]
  /\ intLevel \in {0, 1}
  /\ ticked \in BOOLEAN
  /\ cont \in [Thread -> Continuation]

LinkedOnce(L) ==
  \A a, b \in Lists : \A i \in DOMAIN L[a], j \in DOMAIN L[b] :
    L[a][i] = L[b][j] => a = b /\ i = j

\* A follower pointer links a thread into one list at a time, at one place:
\* no call may leave a thread reachable from two lists or twice from one.
OneList == LinkedOnce(list)

\* The ready list and the waiter lists are ordered by priority, whatever
\* order calls and interrupts moved threads in: tth_cs_switch runs the head
\* of the one, an unlock or a post readies the head of another.
ListsOrdered == \A l \in Lists \ {Sleeping} : Ordered(list[l])

\* The idle thread is always ready (tth_thread.c:15): the head of tth_ready,
\* which tth_int_context_switch dereferences, is never null.
IdleReady == Idle \in ToSet(list[Ready])

\* At interrupt level 0 the processor belongs to the head of tth_ready: no
\* operation that readies a thread forgets the switch.
RunningIsHead == intLevel = 0 => running = HeadOf(list[Ready])

\* The scheduler's state stays sound, whatever calls and interrupts moved
\* threads in whatever order: separate lists in order, a thread to run, and
\* the right one running.
SchedulerSound == OneList /\ ListsOrdered /\ IdleReady /\ RunningIsHead
=============================================================================
