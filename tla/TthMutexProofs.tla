--------------------------- MODULE TthMutexProofs ---------------------------
(***************************************************************************)
(* The mutexes of TinyThreads for any number of threads, priorities and    *)
(* mutexes, and what is built on them: conditions, the allocator's lock    *)
(* and pthread_once.                                                       *)
(*                                                                         *)
(* Mutexes: that a free mutex has been offered needs to know where a       *)
(* waiter is (WaitersLock, WaitersFound), and that needs to know that no   *)
(* thread is in two lists (OneList) and that the head of tth_ready runs.   *)
(*                                                                         *)
(* Conditions, among threads of any priorities: the unlock may put a       *)
(* thread of a higher priority at the head, which is then moved to the     *)
(* condition in the caller's place.  That thread is the waiter the unlock  *)
(* has readied, so that who is in the list of a condition always has a     *)
(* mutex to take.                                                          *)
(*                                                                         *)
(* The allocator, for any depth of nesting: as long as nobody takes the    *)
(* mutex while a waiter that has been woken is still to take it, who is    *)
(* woken finds nobody in the allocator.                                    *)
(*                                                                         *)
(* pthread_once, beside other mutexes: who ran the routine has stored done *)
(* before it gives the mutex back, so that a waiter that is woken, and     *)
(* whoever takes the mutex before it, finds done set.                      *)
(***************************************************************************)
EXTENDS TthHeap, TthOnce, TthCond, TthCoreProofs

\* A thread in the list of a mutex takes the mutex when it runs again, and one
\* that is going to take a mutex is in its list or ready.
WaitersLock ==
  \A m \in Mutex, t \in Thread : t \in ToSet(list[m]) => cont[t] = Await("lock", m)
WaitersFound ==
  \A m \in Mutex, t \in Thread :
    cont[t] = Await("lock", m) => t \in ToSet(list[m]) \cup ToSet(list[Ready])

\* What holds with conditions, too.
OfferInv ==
  /\ CoreInv
  /\ MutexTypeOK
  /\ WaitersLock
  /\ NoStrandedWaiter
  /\ OwnerWillUnlock

MutexInv == OfferInv /\ WaitersFound

\* What each step of the mutexes and the scheduler does with the two.
Kept == OfferInv' /\ (WaitersFound => WaitersFound')


\* A mutex has a list of waiters, which is not that of the sleepers.
LEMMA MutexLists == \A m \in Mutex : m \in WaitList \ {Sleeping}
BY MutexAssumption

\* Waiting for a mutex is neither being outside the library nor waiting for
\* another mutex.
LEMMA LockIsNotUser ==
  \A m, n \in Mutex : /\ Await("lock", m) # User
                      /\ Await("lock", m) = Await("lock", n) => m = n
BY DEF Await, User

\* The start: every mutex is free and nobody waits.
LEMMA MutexInitial == MutexInit => OfferInv /\ WaitersFound
<1> SUFFICES ASSUME MutexInit PROVE  OfferInv /\ WaitersFound
  OBVIOUS
<1>1. CoreInv
  BY CoreInitial DEF MutexInit
<1>2. /\ owner = [m \in Mutex |-> NULL] /\ held = [t \in Thread |-> {}]
      /\ cont = [t \in Thread |-> User]
      /\ \A m \in Mutex : list[m] = <<>>
  BY MutexLists, ListNames DEF MutexInit, AllReady, CoreInit, ReadyQueues
<1>3. MutexTypeOK
  BY <1>1, <1>2 DEF MutexTypeOK, CoreInv
<1> QED
  BY <1>1, <1>2, <1>3
  DEF OfferInv, WaitersLock, WaitersFound, NoStrandedWaiter, OwnerWillUnlock, ToSet, User, Await

\* A step of the scheduler takes no thread out of the middle of a lock call.
LEMMA SchedulerStep ==
  ASSUME OfferInv, CoreNext, UNCHANGED mutexVars
  PROVE  Kept
<1>1. CoreInv' /\ CoreFrame
  BY CoreStep DEF OfferInv
<1>2. /\ cont' = cont /\ owner' = owner /\ held' = held
      /\ \A m \in Mutex : list'[m] = list[m]
      /\ \A t \in ToSet(list[Ready]) : cont[t] # User => t \in ToSet(list'[Ready])
  BY <1>1, MutexLists DEF CoreFrame, mutexVars
<1>3. MutexTypeOK'
  BY <1>1, <1>2 DEF OfferInv, MutexTypeOK, CoreInv
<1>4. WaitersLock' /\ (WaitersFound => WaitersFound')
  <2> SUFFICES ASSUME NEW m \in Mutex, NEW t \in Thread
               PROVE  /\ t \in ToSet(list'[m]) => cont'[t] = Await("lock", m)
                      /\ WaitersFound /\ cont'[t] = Await("lock", m) =>
                           t \in ToSet(list'[m]) \cup ToSet(list'[Ready])
    BY DEF WaitersLock, WaitersFound
  <2>1. /\ t \in ToSet(list[m]) => cont[t] = Await("lock", m)
        /\ WaitersFound /\ cont[t] = Await("lock", m) => t \in ToSet(list[m]) \cup ToSet(list[Ready])
    BY DEF OfferInv, WaitersLock, WaitersFound
  <2> QED BY <1>2, <2>1, LockIsNotUser
<1>5. NoStrandedWaiter'
  BY <1>2, LockIsNotUser DEF OfferInv, NoStrandedWaiter
<1>6. OwnerWillUnlock'
  BY <1>2 DEF OfferInv, OwnerWillUnlock
<1> QED
  BY <1>1, <1>3, <1>4, <1>5, <1>6 DEF OfferInv, Kept

\* A running thread that is given a mutex and was not waiting for another.
LEMMA TakeStep ==
  ASSUME OfferInv, NEW m \in Mutex, Acquire(m), intLevel = 0,
         \A n \in Mutex \ {m} : cont[running] # Await("lock", n)
  PROVE  Kept
<1>1. running \in Thread /\ \A n \in Mutex : running \notin ToSet(list[n])
  BY RunningFacts, MutexLists DEF OfferInv
<1>2. /\ owner' = [owner EXCEPT ![m] = running]
      /\ held' = [held EXCEPT ![running] = @ \cup {m}]
      /\ cont' = [cont EXCEPT ![running] = User]
      /\ list' = list /\ UNCHANGED <<running, waitstate, intLevel, ticked>>
  BY DEF Acquire
<1>3. cont' \in [Thread -> Continuation]
  BY <1>2 DEF OfferInv, CoreInv, CoreTypeOK, User, Continuation, Ops
<1>4. CoreInv'
  BY <1>2, <1>3 DEF OfferInv, CoreInv, CoreTypeOK, OneList, ListsOrdered,
    IdleReady, RunningIsHead
<1>5. MutexTypeOK'
  BY <1>1, <1>2, <1>4 DEF OfferInv, MutexTypeOK, CoreInv
<1>6. owner'[m] = running /\ \A n \in Mutex \ {m} : owner'[n] = owner[n]
  BY <1>2 DEF OfferInv, MutexTypeOK
<1>7. cont'[running] = User /\ \A t \in Thread \ {running} : cont'[t] = cont[t]
  BY <1>1, <1>2 DEF OfferInv, CoreInv, CoreTypeOK
<1>8. WaitersLock' /\ (WaitersFound => WaitersFound')
  <2> SUFFICES ASSUME NEW n \in Mutex, NEW t \in Thread
               PROVE  /\ t \in ToSet(list'[n]) => cont'[t] = Await("lock", n)
                      /\ WaitersFound /\ cont'[t] = Await("lock", n) =>
                           t \in ToSet(list'[n]) \cup ToSet(list'[Ready])
    BY DEF WaitersLock, WaitersFound
  <2>1. /\ t \in ToSet(list[n]) => cont[t] = Await("lock", n)
        /\ WaitersFound /\ cont[t] = Await("lock", n) => t \in ToSet(list[n]) \cup ToSet(list[Ready])
    BY DEF OfferInv, WaitersLock, WaitersFound
  <2>2. CASE t = running
    BY <2>2, <1>1, <1>2, <1>7, LockIsNotUser
  <2>3. CASE t # running
    BY <2>1, <2>3, <1>2, <1>7
  <2> QED BY <2>2, <2>3
<1>9. NoStrandedWaiter'
  <2> SUFFICES ASSUME NEW n \in Mutex, owner'[n] = NULL, list'[n] # <<>>
               PROVE  \E t \in ToSet(list'[Ready]) : cont'[t] = Await("lock", n)
    BY DEF NoStrandedWaiter
  <2>1. n # m /\ owner[n] = NULL /\ list[n] # <<>>
    BY <1>1, <1>2, <1>6, CoreAssumption
  <2>2. PICK t \in ToSet(list[Ready]) : cont[t] = Await("lock", n)
    BY <2>1 DEF OfferInv, NoStrandedWaiter
  <2>3. t # running
    BY <2>1, <2>2, LockIsNotUser
  <2>4. t \in Thread
    BY <2>2, ListNames, ElementOfSeq, LenProperties
    DEF OfferInv, CoreInv, CoreTypeOK, ToSet
  <2> QED BY <2>2, <2>3, <2>4, <1>2, <1>7
<1>10. OwnerWillUnlock'
  BY <1>1, <1>2, <1>6 DEF OfferInv, OwnerWillUnlock, MutexTypeOK
<1> QED
  BY <1>4, <1>5, <1>8, <1>9, <1>10 DEF OfferInv, Kept

\* It was outside the library or has waited for this one.
LEMMA AcquireStep ==
  ASSUME OfferInv, NEW m \in Mutex, Acquire(m), intLevel = 0,
         cont[running] \in {User, Await("lock", m)}
  PROVE  Kept
BY TakeStep, LockIsNotUser

\* A thread that has to wait for a mutex somebody owns, and was not waiting for
\* another.
LEMMA QueueStep ==
  ASSUME OfferInv, NEW m \in Mutex, owner[m] \notin {NULL, running},
         intLevel = 0, running # Idle, \A n \in Mutex : cont[running] # Await("lock", n),
         Block(m, "mutex", "lock"), UNCHANGED mutexVars
  PROVE  Kept
<1>1. /\ running \in Thread /\ running \in ToSet(list[Ready])
      /\ \A n \in Mutex : running \notin ToSet(list[n])
  BY RunningFacts, MutexLists DEF OfferInv
<1>2. /\ CoreInv'
      /\ \A l \in Lists \ {m, Ready} : list'[l] = list[l]
      /\ ToSet(list'[m]) = ToSet(list[m]) \cup {running}
      /\ ToSet(list'[Ready]) = ToSet(list[Ready]) \ {running}
  BY BlockFacts, MutexLists DEF OfferInv, WaitState, Ops, CsOps
<1>3. cont'[running] = Await("lock", m) /\ \A t \in Thread \ {running} : cont'[t] = cont[t]
  BY <1>1 DEF Block, OfferInv, CoreInv, CoreTypeOK
<1>4. \A n \in Mutex \ {m} : list'[n] = list[n]
  BY <1>2, MutexLists, ListNames
<1>5. owner' = owner /\ held' = held
  BY DEF mutexVars
<1>6. MutexTypeOK'
  BY <1>2, <1>5 DEF OfferInv, MutexTypeOK, CoreInv
<1>7. WaitersLock' /\ (WaitersFound => WaitersFound')
  <2> SUFFICES ASSUME NEW n \in Mutex, NEW t \in Thread
               PROVE  /\ t \in ToSet(list'[n]) => cont'[t] = Await("lock", n)
                      /\ WaitersFound /\ cont'[t] = Await("lock", n) =>
                           t \in ToSet(list'[n]) \cup ToSet(list'[Ready])
    BY DEF WaitersLock, WaitersFound
  <2>1. /\ t \in ToSet(list[n]) => cont[t] = Await("lock", n)
        /\ WaitersFound /\ cont[t] = Await("lock", n) => t \in ToSet(list[n]) \cup ToSet(list[Ready])
    BY DEF OfferInv, WaitersLock, WaitersFound
  <2>2. CASE t = running
    BY <2>2, <1>1, <1>2, <1>3, <1>4, LockIsNotUser
  <2>3. CASE t # running
    BY <2>1, <2>3, <1>2, <1>3, <1>4
  <2> QED BY <2>2, <2>3
<1>8. NoStrandedWaiter'
  <2> SUFFICES ASSUME NEW n \in Mutex, owner[n] = NULL, list'[n] # <<>>
               PROVE  \E t \in ToSet(list'[Ready]) : cont'[t] = Await("lock", n)
    BY <1>5 DEF NoStrandedWaiter
  <2>1. n # m /\ list[n] # <<>>
    BY <1>4
  <2>2. PICK t \in ToSet(list[Ready]) : cont[t] = Await("lock", n)
    BY <2>1 DEF OfferInv, NoStrandedWaiter
  <2>3. t # running
    BY <2>2, LockIsNotUser
  <2>4. t \in Thread
    BY <2>2, ListNames, ElementOfSeq, LenProperties
    DEF OfferInv, CoreInv, CoreTypeOK, ToSet
  <2> QED BY <2>2, <2>3, <2>4, <1>2, <1>3
<1>9. OwnerWillUnlock'
  BY <1>5 DEF OfferInv, OwnerWillUnlock
<1> QED
  BY <1>2, <1>6, <1>7, <1>8, <1>9 DEF OfferInv, Kept

\* A caller that has to wait.
LEMMA WaitStep ==
  ASSUME OfferInv, NEW m \in Mutex, owner[m] \notin {NULL, running},
         intLevel = 0, running # Idle, cont[running] = User,
         Block(m, "mutex", "lock"), UNCHANGED mutexVars
  PROVE  Kept
BY QueueStep, LockIsNotUser

\* An unlock readies the first waiter of the mutex it frees.
LEMMA UnlockStep ==
  ASSUME OfferInv, NEW m \in Mutex, UserMode, CsMutexUnlock(m),
         held' = [held EXCEPT ![running] = @ \ {m}]
  PROVE  Kept
<1>1. running \in Thread /\ intLevel = 0
  BY RunningFacts DEF OfferInv, UserMode
<1>2. CASE owner[m] = running
  <2>1. /\ owner' = [owner EXCEPT ![m] = NULL] /\ Wake(m) /\ cont' = cont
    BY <1>2, CoreAssumption, <1>1 DEF CsMutexUnlock
  <2>2. cont' \in [Thread -> Continuation]
    BY <2>1 DEF OfferInv, CoreInv, CoreTypeOK
  <2>3. /\ CoreInv'
        /\ \A l \in Lists \ {m, Ready} : list'[l] = list[l]
        /\ list[m] = <<>> => list' = list
        /\ list[m] # <<>> =>
             /\ Head(list[m]) \in ToSet(list[m])
             /\ ToSet(list'[Ready]) = ToSet(list[Ready]) \cup {Head(list[m])}
             /\ ToSet(list'[m]) = ToSet(list[m]) \ {Head(list[m])}
    BY <2>1, <2>2, WakeFacts, MutexLists DEF OfferInv
  <2>4. \A n \in Mutex \ {m} : list'[n] = list[n]
    BY <2>3, MutexLists, ListNames
  <2>5. MutexTypeOK'
    BY <1>1, <2>1, <2>3 DEF OfferInv, MutexTypeOK, CoreInv
  <2>6. ToSet(list[Ready]) \subseteq ToSet(list'[Ready])
    BY <2>3
  <2>7. WaitersLock' /\ (WaitersFound => WaitersFound')
    <3> SUFFICES ASSUME NEW n \in Mutex, NEW t \in Thread
                 PROVE  /\ t \in ToSet(list'[n]) => cont[t] = Await("lock", n)
                        /\ WaitersFound /\ cont[t] = Await("lock", n) =>
                             t \in ToSet(list'[n]) \cup ToSet(list'[Ready])
      BY <2>1 DEF WaitersLock, WaitersFound
    <3>1. /\ t \in ToSet(list[n]) => cont[t] = Await("lock", n)
          /\ WaitersFound /\ cont[t] = Await("lock", n) => t \in ToSet(list[n]) \cup ToSet(list[Ready])
      BY DEF OfferInv, WaitersLock, WaitersFound
    <3> QED BY <3>1, <2>3, <2>4, <2>6
  <2>8. NoStrandedWaiter'
    <3> SUFFICES ASSUME NEW n \in Mutex, owner'[n] = NULL, list'[n] # <<>>
                 PROVE  \E t \in ToSet(list'[Ready]) : cont[t] = Await("lock", n)
      BY <2>1 DEF NoStrandedWaiter
    <3>1. CASE n = m
      <4>1. list[m] # <<>>
        BY <3>1, <2>3
      <4>2. Head(list[m]) \in Thread
        BY <4>1, <2>3, MutexLists, ListNames, HeadTailProperties
        DEF OfferInv, CoreInv, CoreTypeOK
      <4>3. cont[Head(list[m])] = Await("lock", m)
        BY <4>1, <4>2, <2>3 DEF OfferInv, WaitersLock, WaitersFound
      <4> QED BY <3>1, <4>1, <4>3, <2>3
    <3>2. CASE n # m
      <4>1. owner[n] = NULL /\ list[n] # <<>>
        BY <3>2, <2>1, <2>4 DEF OfferInv, MutexTypeOK
      <4> QED BY <4>1, <2>6 DEF OfferInv, NoStrandedWaiter
    <3> QED BY <3>1, <3>2
  <2>9. OwnerWillUnlock'
    BY <1>1, <2>1 DEF OfferInv, OwnerWillUnlock, MutexTypeOK
  <2> QED BY <2>3, <2>5, <2>7, <2>8, <2>9 DEF OfferInv, Kept
<1>3. CASE owner[m] # running
  <2>1. UNCHANGED <<coreVars, owner>>
    BY <1>3 DEF CsMutexUnlock
  <2>2. CoreInv'
    BY <2>1, CoreStutter DEF OfferInv
  <2>3. list' = list /\ cont' = cont /\ owner' = owner
    BY <2>1 DEF coreVars
  <2>4. MutexTypeOK'
    BY <1>1, <2>2, <2>3 DEF OfferInv, MutexTypeOK, CoreInv
  <2>5. WaitersLock' /\ (WaitersFound => WaitersFound') /\ NoStrandedWaiter'
    BY <2>3 DEF OfferInv, WaitersLock, WaitersFound, NoStrandedWaiter
  <2>6. OwnerWillUnlock'
    BY <1>1, <1>3, <2>3 DEF OfferInv, OwnerWillUnlock, MutexTypeOK
  <2> QED BY <2>2, <2>4, <2>5, <2>6 DEF OfferInv, Kept
<1> QED
  BY <1>2, <1>3

\* A lock call up to its return or its wait, which is not for the idle thread.
LEMMA LockStep ==
  ASSUME OfferInv, NEW m \in Mutex, UserMode, CsMutexLock(m),
         owner[m] \notin {NULL, running} => running # Idle
  PROVE  Kept
<1>1. /\ intLevel = 0 /\ running \in Thread /\ cont[running] = User
  BY RunningFacts DEF OfferInv, UserMode
<1>2. CASE owner[m] = NULL /\ Acquire(m)
  BY <1>1, <1>2, AcquireStep
<1>3. CASE /\ cont' = [cont EXCEPT ![running] = User]
           /\ UNCHANGED <<list, running, waitstate, intLevel, ticked, owner, held>>
  <2>1. cont' = cont
    BY <1>1, <1>3 DEF OfferInv, CoreInv, CoreTypeOK
  <2>2. CoreInv'
    BY <1>3, <2>1, CoreStutter DEF OfferInv, coreVars
  <2> QED
    BY <1>3, <2>1, <2>2 DEF OfferInv, Kept, MutexTypeOK, CoreInv, WaitersLock, WaitersFound,
      NoStrandedWaiter, OwnerWillUnlock
<1>4. CASE /\ owner[m] \notin {NULL, running} /\ Block(m, "mutex", "lock")
           /\ UNCHANGED <<owner, held>>
  BY <1>1, <1>4, WaitStep DEF mutexVars
<1> QED
  BY <1>2, <1>3, <1>4 DEF CsMutexLock

\* Every step of a thread, the scheduler or an interrupt.
LEMMA OfferInvStep ==
  ASSUME OfferInv, MutexNext
  PROVE  Kept
<1>1. ASSUME NEW m \in Mutex, pthread_mutex_lock(m)
      PROVE  Kept
  BY <1>1, LockStep DEF pthread_mutex_lock, Caller
<1>2. ASSUME NEW m \in Mutex, pthread_mutex_trylock(m)
      PROVE  Kept
  BY <1>2, AcquireStep DEF pthread_mutex_trylock, Caller, UserMode
<1>3. ASSUME NEW m \in Mutex, ResumeLock(m)
      PROVE  Kept
  BY <1>3, AcquireStep DEF ResumeLock, Continues
<1>4. ASSUME NEW m \in Mutex, pthread_mutex_unlock(m)
      PROVE  Kept
  BY <1>4, UnlockStep DEF pthread_mutex_unlock, Caller
<1>5. CASE CoreNext /\ UNCHANGED mutexVars
  BY <1>5, SchedulerStep
<1> QED
  BY <1>1, <1>2, <1>3, <1>4, <1>5 DEF MutexNext, MutexStep

LEMMA MutexInvStep ==
  ASSUME MutexInv, MutexNext
  PROVE  MutexInv'
BY OfferInvStep DEF MutexInv, Kept

\* A step of something else.
LEMMA MutexStutter ==
  ASSUME MutexInv, UNCHANGED coreVars, UNCHANGED mutexVars
  PROVE  MutexInv'
<1>1. CoreInv'
  BY CoreStutter DEF MutexInv, OfferInv
<1> QED
  BY <1>1 DEF MutexInv, OfferInv, MutexTypeOK, CoreInv, WaitersLock, WaitersFound,
    NoStrandedWaiter, OwnerWillUnlock, coreVars, mutexVars

\* The invariant of the mutexes, in every reachable state.
LEMMA MutexInvariant == MutexSpec => []MutexInv
<1>1. MutexInit => MutexInv
  BY MutexInitial DEF MutexInv
<1>2. MutexInv /\ [MutexNext]_mvars => MutexInv'
  <2> SUFFICES ASSUME MutexInv, UNCHANGED mvars PROVE MutexInv'
    BY MutexInvStep
  <2> QED BY MutexStutter DEF mvars, coreVars, mutexVars
<1> QED
  BY <1>1, <1>2, PTL DEF MutexSpec

-----------------------------------------------------------------------------

\* The control blocks, lists and mutexes hold what their types say.
THEOREM MutexTypeCorrect == MutexSpec => []MutexTypeOK
<1>1. MutexInv => MutexTypeOK
  BY DEF MutexInv, OfferInv
<1> QED
  BY <1>1, MutexInvariant, PTL

\* No sequence of mutex and scheduler calls links a thread twice, breaks the
\* order of a list that tth_cs_move keeps, loses the idle thread or leaves the
\* processor to another thread than tth_cs_switch would choose.
THEOREM MutexSchedulerSound == MutexSpec => []SchedulerSound
<1>1. MutexInv => SchedulerSound
  BY DEF MutexInv, OfferInv, CoreInv, SchedulerSound
<1> QED
  BY <1>1, MutexInvariant, PTL

\* tth_cs_mutex_unlock frees no mutex with waiters without readying one that
\* takes it: no waiter is stranded behind a free mutex.
THEOREM MutexNoStrandedWaiter == MutexSpec => []NoStrandedWaiter
<1>1. MutexInv => NoStrandedWaiter
  BY DEF MutexInv, OfferInv
<1> QED
  BY <1>1, MutexInvariant, PTL

\* The owner field names a thread that is still going to unlock, although a
\* waiter that resumes overwrites it without looking.
THEOREM MutexOwnerWillUnlock == MutexSpec => []OwnerWillUnlock
<1>1. MutexInv => OwnerWillUnlock
  BY DEF MutexInv, OfferInv
<1> QED
  BY <1>1, MutexInvariant, PTL

-----------------------------------------------------------------------------
(* The conditions *)

\* The idle thread never waits for a condition.
IdleNoCondition == cont[Idle].op # "condlock"

CondInv == OfferInv /\ CondHoldsWaiters /\ IdleNoCondition

\* A condition has a list of waiters of its own.
LEMMA CondLists ==
  \A c \in Cond : c \in WaitList \ {Sleeping} /\ c \in Lists /\ c # Ready /\ c \notin Mutex
BY CondAssumption, ListNames

\* The rounds of the loop of pthread_cond_broadcast, as a function: there is
\* one that agrees with the loop in each round, by the least round that has
\* none.
LEMMA BroadcastRounds ==
  ASSUME NEW L, NEW c, Len(L[c]) \in Nat
  PROVE  \E woken : /\ woken[0] = L
                    /\ \A n \in 1..Len(L[c]) : woken[n] = Move(woken[n-1], c, Ready)
                    /\ Emptied(L, c) = woken[Len(L[c])]
<1> DEFINE Woken(n, g) == g = [k \in 0..n |-> IF k = 0 THEN L ELSE Move(g[k-1], c, Ready)]
           T == {n \in Nat : ~\E g : Woken(n, g)}
<1>1. T = {}
  <2> SUFFICES ASSUME T # {} PROVE FALSE
    OBVIOUS
  <2>1. \E n \in T : \A k \in T : ~(<<k, n>> \in OpToRel(<, Nat))
    BY WFMin, NatLessThanWellFounded
  <2>2. PICK n \in T : \A k \in T : ~(<<k, n>> \in OpToRel(<, Nat))
    BY <2>1
  <2>3. CASE n = 0
    <3> DEFINE g == [k \in 0..0 |-> L]
    <3>1. Woken(0, g)
      OBVIOUS
    <3> QED BY <3>1, <2>2, <2>3
  <2>4. CASE n # 0
    <3>1. n \in Nat /\ n - 1 \in Nat /\ n - 1 < n
      BY <2>4
    <3>2. n - 1 \notin T
      BY <3>1, <2>2 DEF OpToRel
    <3>3. PICK g : Woken(n - 1, g)
      BY <3>1, <3>2
    <3> DEFINE h == [k \in 0..n |-> IF k = 0 THEN L ELSE Move(g[k-1], c, Ready)]
    <3>4. \A k \in 0..n-1 : g[k] = IF k = 0 THEN L ELSE Move(g[k-1], c, Ready)
      <4>1. g = [k \in 0..n-1 |-> IF k = 0 THEN L ELSE Move(g[k-1], c, Ready)]
        BY <3>3
      <4> HIDE DEF Woken
      <4> QED BY <4>1
    <3>5. \A k \in 0..n : h[k] = IF k = 0 THEN L ELSE Move(g[k-1], c, Ready)
      OBVIOUS
    <3> HIDE DEF h
    <3>6. \A k \in 0..n : k # 0 => h[k-1] = g[k-1]
      <4> SUFFICES ASSUME NEW k \in 0..n, k # 0 PROVE h[k-1] = g[k-1]
        OBVIOUS
      <4>1. k-1 \in 0..n-1 /\ k-1 \in 0..n
        BY <3>1
      <4> QED BY <4>1, <3>4, <3>5
    <3>7. Woken(n, h)
      BY <3>6 DEF h
    <3> QED BY <3>7, <2>2
  <2> QED BY <2>3, <2>4
<1>2. \E g : Woken(Len(L[c]), g)
  BY <1>1
<1> DEFINE w == CHOOSE g : Woken(Len(L[c]), g)
<1>3. Woken(Len(L[c]), w)
  BY <1>2
<1>4. Emptied(L, c) = w[Len(L[c])]
  BY DEF Emptied
<1> HIDE DEF w
<1>5. \A k \in 0..Len(L[c]) : w[k] = IF k = 0 THEN L ELSE Move(w[k-1], c, Ready)
  <2>1. w = [k \in 0..Len(L[c]) |-> IF k = 0 THEN L ELSE Move(w[k-1], c, Ready)]
    BY <1>3
  <2> HIDE DEF Woken
  <2> QED BY <2>1
<1>6. w[0] = L /\ \A n \in 1..Len(L[c]) : w[n] = Move(w[n-1], c, Ready)
  BY <1>5
<1> QED BY <1>4, <1>6

\* The loop moves everybody from the list of the condition to tth_ready.
BroadcastDone(L, M, c) ==
  /\ ListsOK(M) /\ LinkedOnce(M) /\ SortedLists(M)
  /\ M[c] = <<>>
  /\ ToSet(M[Ready]) = ToSet(L[Ready]) \cup ToSet(L[c])
  /\ \A l \in Lists \ {c, Ready} : M[l] = L[l]

LEMMA BroadcastFacts ==
  ASSUME NEW L, ListsOK(L), LinkedOnce(L), SortedLists(L), NEW c \in Lists, c # Ready
  PROVE  BroadcastDone(L, Emptied(L, c), c)
<1>1. L[c] \in Seq(Thread) /\ Len(L[c]) \in Nat
  BY LenProperties DEF ListsOK
<1>2. PICK woken : /\ woken[0] = L
                   /\ \A n \in 1..Len(L[c]) : woken[n] = Move(woken[n-1], c, Ready)
                   /\ Emptied(L, c) = woken[Len(L[c])]
  BY <1>1, BroadcastRounds
<1> DEFINE Round(n) ==
      LET M == woken[n]
      IN  /\ ListsOK(M) /\ LinkedOnce(M) /\ SortedLists(M)
          /\ Len(M[c]) = Len(L[c]) - n
          /\ ToSet(M[Ready]) \cup ToSet(M[c]) = ToSet(L[Ready]) \cup ToSet(L[c])
          /\ \A l \in Lists \ {c, Ready} : M[l] = L[l]
       T == {n \in 0..Len(L[c]) : ~Round(n)}
<1>3. Round(0)
  BY <1>1, <1>2
<1>4. ASSUME NEW n \in 1..Len(L[c]), Round(n-1) PROVE Round(n)
  <2> DEFINE K == woken[n-1]
             M == woken[n]
  <2>1. /\ ListsOK(K) /\ LinkedOnce(K) /\ SortedLists(K)
        /\ Len(K[c]) = Len(L[c]) - (n-1)
        /\ ToSet(K[Ready]) \cup ToSet(K[c]) = ToSet(L[Ready]) \cup ToSet(L[c])
        /\ \A l \in Lists \ {c, Ready} : K[l] = L[l]
    BY <1>4
  <2>2. M = Move(K, c, Ready)
    BY <1>2
  <2> HIDE DEF K, M
  <2>3. K[c] \in Seq(Thread) /\ K[c] # <<>>
    BY <1>1, <2>1 DEF ListsOK
  <2>4. Moved(K, M, c, Ready)
    BY <2>1, <2>2, MoveFacts, ListNames
  <2>5. /\ ListsOK(M) /\ LinkedOnce(M) /\ SortedLists(M)
        /\ \A l \in Lists \ {c, Ready} : M[l] = K[l]
        /\ ToSet(M[Ready]) = ToSet(K[Ready]) \cup {Head(K[c])}
        /\ ToSet(M[c]) = ToSet(K[c]) \ {Head(K[c])}
    BY <2>1, <2>3, <2>4, ListNames DEF Moved
  <2>6. Head(K[c]) \in ToSet(K[c])
    BY <2>3, TailElements
  <2>7. M[c] = Tail(K[c])
    BY <2>1, <2>2, <2>3, ListNames DEF Move, ListsOK
  <2>8. Len(M[c]) = Len(L[c]) - n
    BY <1>1, <2>1, <2>3, <2>7, HeadTailProperties
  <2>9. ToSet(M[Ready]) \cup ToSet(M[c]) = ToSet(L[Ready]) \cup ToSet(L[c])
    BY <2>1, <2>5, <2>6
  <2> QED BY <2>1, <2>5, <2>8, <2>9 DEF M
<1> HIDE DEF Round
<1>5. T = {}
  <2> SUFFICES ASSUME T # {} PROVE FALSE
    OBVIOUS
  <2>1. T \subseteq Nat
    BY <1>1
  <2>2. \E n \in T : \A k \in T : ~(<<k, n>> \in OpToRel(<, Nat))
    BY <2>1, WFMin, NatLessThanWellFounded
  <2>3. PICK n \in T : \A k \in T : ~(<<k, n>> \in OpToRel(<, Nat))
    BY <2>2
  <2>4. n \in 1..Len(L[c]) /\ n-1 \in 0..Len(L[c]) /\ n-1 < n /\ n-1 \in Nat /\ n \in Nat
    <3>1. n \in 0..Len(L[c]) /\ ~Round(n)
      OBVIOUS
    <3>2. n # 0
      BY <1>3, <3>1
    <3> QED BY <1>1, <3>1, <3>2
  <2>5. n-1 \notin T
    BY <2>3, <2>4 DEF OpToRel
  <2>6. Round(n-1)
    BY <2>4, <2>5
  <2> QED BY <1>4, <2>3, <2>4, <2>6
<1>6. Round(Len(L[c]))
  BY <1>1, <1>5
<1>7. LET M == Emptied(L, c)
      IN  /\ ListsOK(M) /\ LinkedOnce(M) /\ SortedLists(M)
          /\ Len(M[c]) = 0
          /\ ToSet(M[Ready]) \cup ToSet(M[c]) = ToSet(L[Ready]) \cup ToSet(L[c])
          /\ \A l \in Lists \ {c, Ready} : M[l] = L[l]
  BY <1>1, <1>2, <1>6 DEF Round
<1>8. Emptied(L, c)[c] = <<>>
  BY <1>7, EmptySeq DEF ListsOK
<1>9. ToSet(Emptied(L, c)[c]) = {}
  BY <1>8 DEF ToSet
<1> QED BY <1>7, <1>8, <1>9 DEF BroadcastDone

\* Signal and broadcast: the waiters of the condition, one or all, become ready.
LEMMA SignalStep ==
  ASSUME CondInv, NEW c \in Cond, UserMode, Switch, ListsOK(list'), LinkedOnce(list'),
         SortedLists(list'), waitstate' \in [Thread -> WaitState],
         UNCHANGED <<intLevel, ticked, cont, owner, held>>,
         ToSet(list[Ready]) \subseteq ToSet(list'[Ready]),
         ToSet(list'[c]) \subseteq ToSet(list[c]),
         \A l \in Lists \ {c, Ready} : list'[l] = list[l]
  PROVE  CondInv'
<1>1. /\ cont' = cont /\ owner' = owner /\ held' = held
      /\ \A m \in Mutex : list'[m] = list[m]
  BY CondLists, MutexLists, ListNames
<1>2. CoreInv'
  <2>1. Idle \in ToSet(list'[Ready]) /\ cont' \in [Thread -> Continuation]
    BY <1>1 DEF CondInv, OfferInv, CoreInv, CoreTypeOK, IdleReady
  <2>2. CoreInv
    BY DEF CondInv, OfferInv
  <2> QED BY <2>1, <2>2, RelinkFacts
<1>3. MutexTypeOK'
  BY <1>1, <1>2 DEF CondInv, OfferInv, MutexTypeOK, CoreInv
<1>4. WaitersLock' /\ NoStrandedWaiter' /\ OwnerWillUnlock'
  BY <1>1 DEF CondInv, OfferInv, WaitersLock, NoStrandedWaiter, OwnerWillUnlock
<1>5. CondHoldsWaiters'
  <2> SUFFICES ASSUME NEW d \in Cond, NEW t \in ToSet(list'[d]) PROVE cont[t].op \in {"condlock", "lock"}
    BY <1>1 DEF CondHoldsWaiters
  <2>1. t \in ToSet(list[d])
    BY CondLists
  <2> QED BY <2>1 DEF CondInv, CondHoldsWaiters
<1>6. IdleNoCondition'
  BY <1>1 DEF CondInv, IdleNoCondition
<1> QED BY <1>2, <1>3, <1>4, <1>5, <1>6 DEF CondInv, OfferInv

LEMMA CondSignalStep ==
  ASSUME CondInv, NEW c \in Cond, pthread_cond_signal(c)
  PROVE  CondInv'
<1>1. /\ UserMode /\ Wake(c) /\ Switch /\ UNCHANGED <<intLevel, ticked, cont, owner, held>>
      /\ c \in WaitList
  BY CondLists DEF pthread_cond_signal, Caller, Wake
<1>2. CoreInv /\ cont' \in [Thread -> Continuation]
  BY <1>1 DEF CondInv, OfferInv, CoreInv, CoreTypeOK
<1>3. /\ CoreInv'
      /\ \A l \in Lists \ {c, Ready} : list'[l] = list[l]
      /\ list[c] = <<>> => list' = list
      /\ list[c] # <<>> =>
           /\ ToSet(list'[Ready]) = ToSet(list[Ready]) \cup {Head(list[c])}
           /\ ToSet(list'[c]) = ToSet(list[c]) \ {Head(list[c])}
  BY <1>1, <1>2, WakeFacts
<1>4. /\ ListsOK(list') /\ LinkedOnce(list') /\ SortedLists(list')
      /\ waitstate' \in [Thread -> WaitState]
  BY <1>3 DEF CoreInv, CoreTypeOK, ListsOK, OneList, ListsOrdered, SortedLists
<1>5. ToSet(list[Ready]) \subseteq ToSet(list'[Ready]) /\ ToSet(list'[c]) \subseteq ToSet(list[c])
  BY <1>3
<1> QED BY <1>1, <1>3, <1>4, <1>5, SignalStep

LEMMA CondBroadcastStep ==
  ASSUME CondInv, NEW c \in Cond, pthread_cond_broadcast(c)
  PROVE  CondInv'
<1>1. /\ UserMode /\ Switch /\ UNCHANGED <<intLevel, ticked, cont, owner, held>>
      /\ list' = Emptied(list, c)
      /\ waitstate' = [t \in Thread |->
                         IF t \in ToSet(list[c]) THEN "ready" ELSE waitstate[t]]
  BY DEF pthread_cond_broadcast, Caller
<1>2. waitstate' \in [Thread -> WaitState]
  BY <1>1 DEF CondInv, OfferInv, CoreInv, CoreTypeOK, WaitState
<1>3. ListsOK(list) /\ LinkedOnce(list) /\ SortedLists(list)
  BY DEF CondInv, OfferInv, CoreInv, CoreTypeOK, ListsOK, OneList, ListsOrdered, SortedLists
<1>4. BroadcastDone(list, list', c)
  BY <1>1, <1>3, BroadcastFacts, CondLists
<1>5. /\ ListsOK(list') /\ LinkedOnce(list') /\ SortedLists(list')
      /\ ToSet(list[Ready]) \subseteq ToSet(list'[Ready])
      /\ ToSet(list'[c]) \subseteq ToSet(list[c])
      /\ \A l \in Lists \ {c, Ready} : list'[l] = list[l]
  <2>1. ToSet(<<>>) = {}
    BY DEF ToSet
  <2> QED BY <1>4, <2>1 DEF BroadcastDone
<1> QED BY <1>1, <1>2, <1>5, SignalStep

\* A thread that is woken inside pthread_cond_wait goes behind the caller or, with
\* a higher priority, before it and the rest of tth_ready.
LEMMA FirstAfterWake ==
  ASSUME CoreInv, intLevel = 0, NEW m \in WaitList
  PROVE  LET woken == Move(list, m, Ready)
         IN  /\ woken[Ready] # <<>>
             /\ \/ Head(woken[Ready]) = running
                \/ /\ list[m] # <<>> /\ Head(woken[Ready]) = Head(list[m])
                   /\ Tail(woken[Ready]) = list[Ready]
<1> USE ListNames
<1>1. /\ list[Ready] \in Seq(Thread) /\ list[Ready] # <<>> /\ running = Head(list[Ready])
      /\ running \in Thread
  BY RunningFacts DEF CoreInv, CoreTypeOK
<1>2. CASE list[m] = <<>>
  BY <1>1, <1>2 DEF Move
<1>3. CASE list[m] # <<>>
  <2> DEFINE h == Head(list[m])
             q == list[Ready]
             p == InsertPos(q, h)
             r == InsertAt(q, p, h)
  <2>1. h \in Thread
    BY <1>3, HeadTailProperties DEF CoreInv, CoreTypeOK
  <2>2. p \in 1..Len(q)+1
    BY <1>1, <2>1, InsertPosFacts
  <2>3. Len(q) \in Nat /\ Len(q) >= 1 /\ q[1] = running
    BY <1>1, EmptySeq, HeadTailProperties
  <2>4. Move(list, m, Ready)[Ready] = r
    BY <1>3 DEF Move, Insert, CoreInv, CoreTypeOK
  <2>5. q \in Seq(Thread)
    BY <1>1
  <2> HIDE DEF h, q, p
  <2>6. /\ r \in Seq(Thread) /\ Len(r) = Len(q) + 1
        /\ \A i \in 1..Len(q)+1 : r[i] = IF i < p THEN q[i] ELSE IF i = p THEN h ELSE q[i-1]
    BY <2>1, <2>2, <2>5, InsertAtFacts
  <2> HIDE DEF r
  <2>7. r # <<>> /\ Head(r) = r[1]
    BY <2>3, <2>6, EmptySeq, HeadTailProperties
  <2>8. CASE p # 1
    <3>1. 1 < p /\ r[1] = q[1]
      BY <2>2, <2>3, <2>6, <2>8
    <3> QED BY <3>1, <2>3, <2>4, <2>7
  <2>9. CASE p = 1
    <3>1. r[1] = h
      BY <2>3, <2>6, <2>9
    <3>2. /\ Tail(r) \in Seq(Thread) /\ Len(Tail(r)) = Len(q)
          /\ \A i \in 1..Len(q) : Tail(r)[i] = r[i+1]
      BY <2>3, <2>6, <2>7, HeadTailProperties
    <3>3. \A i \in 1..Len(q) : r[i+1] = q[i]
      BY <2>3, <2>6, <2>9
    <3>4. Tail(r) = q
      BY <2>5, <3>2, <3>3, SeqEqual
    <3> QED BY <1>3, <3>1, <3>4, <2>4, <2>7 DEF h, q
  <2> QED BY <2>8, <2>9
<1> QED BY <1>2, <1>3

\* pthread_cond_wait relinks a waiter of the mutex and the head of tth_ready.
CondMoved(c, m, h) ==
  /\ ListsOK(list') /\ LinkedOnce(list') /\ SortedLists(list')
  /\ waitstate' \in [Thread -> WaitState]
  /\ Idle \in ToSet(list'[Ready])
  /\ \A l \in Lists \ {c, Ready, m} : list'[l] = list[l]
  /\ ToSet(list'[c]) = ToSet(list[c]) \cup {h}
  /\ ToSet(list'[m]) = IF list[m] = <<>> THEN {} ELSE ToSet(list[m]) \ {Head(list[m])}
  /\ ToSet(list'[Ready]) =
       (ToSet(list[Ready]) \cup IF list[m] = <<>> THEN {} ELSE {Head(list[m])}) \ {h}
  /\ list[m] = <<>> => list'[m] = <<>>
  /\ list[m] # <<>> => Head(list[m]) \in ToSet(list[m]) /\ Head(list[m]) \in Thread

LEMMA CondMoves ==
  ASSUME CoreInv, NEW c \in Cond, NEW m \in Mutex,
         NEW woken, woken = Move(list, m, Ready), woken[Ready] # <<>>,
         Head(woken[Ready]) # Idle,
         list' = Move(woken, Ready, c),
         waitstate' = Mark(Mark(waitstate, list, m, "ready"), woken, Ready, "cond")
  PROVE  CondMoved(c, m, Head(woken[Ready]))
<1> USE ListNames, CondLists, MutexLists
<1> DEFINE marked == Mark(waitstate, list, m, "ready")
           h == Head(woken[Ready])
<1>1. /\ ListsOK(list) /\ LinkedOnce(list) /\ SortedLists(list)
  BY DEF CoreInv, CoreTypeOK, ListsOK, OneList, ListsOrdered, SortedLists
<1>2. Moved(list, woken, m, Ready)
  BY <1>1, MoveFacts
<1>3. /\ ListsOK(woken) /\ LinkedOnce(woken) /\ SortedLists(woken)
      /\ \A l \in Lists \ {m, Ready} : woken[l] = list[l]
      /\ list[m] = <<>> => woken = list
      /\ list[m] # <<>> =>
           /\ ToSet(woken[Ready]) = ToSet(list[Ready]) \cup {Head(list[m])}
           /\ ToSet(woken[m]) = ToSet(list[m]) \ {Head(list[m])}
  BY <1>1, <1>2 DEF Moved
<1>4. Moved(woken, list', Ready, c)
  BY <1>3, MoveFacts
<1>5. /\ ListsOK(list') /\ LinkedOnce(list') /\ SortedLists(list')
      /\ \A l \in Lists \ {c, Ready} : list'[l] = woken[l]
      /\ ToSet(list'[c]) = ToSet(woken[c]) \cup {h}
      /\ ToSet(list'[Ready]) = ToSet(woken[Ready]) \ {h}
      /\ h \in Thread
  BY <1>3, <1>4 DEF Moved
<1>6. /\ list'[m] = woken[m] /\ woken[c] = list[c]
      /\ \A l \in Lists \ {c, Ready, m} : list'[l] = list[l]
  BY <1>3, <1>5
<1>7. list[m] # <<>> => Head(list[m]) \in ToSet(list[m]) /\ Head(list[m]) \in Thread
  BY <1>1, TailElements, HeadTailProperties DEF ListsOK
<1>8. ToSet(list'[Ready]) =
        (ToSet(list[Ready]) \cup IF list[m] = <<>> THEN {} ELSE {Head(list[m])}) \ {h}
  BY <1>3, <1>5
<1>9. Idle \in ToSet(list'[Ready])
  BY <1>8 DEF CoreInv, IdleReady
<1>10. waitstate' \in [Thread -> WaitState]
  <2>1. marked \in [Thread -> WaitState]
    BY <1>7 DEF Mark, WaitState, CoreInv, CoreTypeOK
  <2>2. waitstate' = [marked EXCEPT ![h] = "cond"]
    BY DEF Mark
  <2> HIDE DEF marked
  <2> QED BY <1>5, <2>1, <2>2 DEF WaitState
<1>11. ToSet(list'[m]) = IF list[m] = <<>> THEN {} ELSE ToSet(list[m]) \ {Head(list[m])}
  BY <1>3, <1>6 DEF ToSet
<1>12. list[m] = <<>> => list'[m] = <<>>
  BY <1>3, <1>6
<1>13. ToSet(list'[c]) = ToSet(list[c]) \cup {h}
  BY <1>5, <1>6
<1> QED BY <1>5, <1>6, <1>7, <1>8, <1>9, <1>10, <1>11, <1>12, <1>13 DEF CondMoved

\* The caller gives the mutex back and waits.
LEMMA CallerWaits ==
  ASSUME CondInv, NEW c \in Cond, NEW m \in Mutex, pthread_cond_wait(c, m),
         CondMoved(c, m, running)
  PROVE  CondInv'
<1> USE ListNames, CondLists, MutexLists
<1>1. /\ CoreInv /\ intLevel = 0 /\ running # Idle /\ cont[running] = User
      /\ running \in Thread /\ running \in ToSet(list[Ready])
      /\ \A l \in WaitList : running \notin ToSet(list[l])
  BY RunningFacts DEF pthread_cond_wait, Caller, UserMode, CondInv, OfferInv
<1>2. ListsOK(list)
  BY <1>1 DEF CoreInv, CoreTypeOK, ListsOK
<1>3. Switch /\ UNCHANGED <<intLevel, ticked>>
  BY DEF pthread_cond_wait
<1>8. /\ ListsOK(list') /\ LinkedOnce(list') /\ SortedLists(list')
      /\ ToSet(list'[c]) = ToSet(list[c]) \cup {running}
  BY DEF CondMoved
<1>9. \A l \in Lists \ {c, Ready, m} : list'[l] = list[l]
  BY DEF CondMoved
<1>10. ToSet(list[Ready]) \ {running} \subseteq ToSet(list'[Ready])
  BY DEF CondMoved
<1>11. list[m] # <<>> => Head(list[m]) \in ToSet(list[m]) /\ Head(list[m]) \in Thread
  BY DEF CondMoved
<1>12. list[m] # <<>> => Head(list[m]) # running /\ Head(list[m]) \in ToSet(list'[Ready])
  BY <1>1, <1>11 DEF CondMoved
<1>13. Idle \in ToSet(list'[Ready]) /\ running \notin ToSet(list'[Ready])
  BY DEF CondMoved
<1>14. waitstate' \in [Thread -> WaitState]
  BY DEF CondMoved
<1>15. running' # running
  <2>1. list'[Ready] \in Seq(Thread) /\ list'[Ready] # <<>>
    BY <1>8, <1>13 DEF ListsOK, ToSet
  <2>2. Head(list'[Ready]) \in ToSet(list'[Ready])
    BY <2>1, TailElements
  <2>3. running' = Head(list'[Ready])
    BY <1>1, <1>3, <2>1 DEF Switch, HeadOf
  <2> QED BY <1>13, <2>2, <2>3
<1>16. /\ owner[m] = running /\ m \in held[running]
       /\ owner' = [owner EXCEPT ![m] = NULL]
       /\ held' = [held EXCEPT ![running] = @ \ {m}]
       /\ cont' = [cont EXCEPT ![running] = Await("condlock", m)]
  BY <1>15 DEF pthread_cond_wait
<1>17. cont' \in [Thread -> Continuation]
  BY <1>1, <1>16 DEF Await, Continuation, Ops, CsOps, CoreInv, CoreTypeOK
<1>18. CoreInv'
  BY <1>1, <1>3, <1>8, <1>13, <1>14, <1>17, RelinkFacts
<1>19. /\ cont'[running] = Await("condlock", m)
       /\ \A t \in Thread \ {running} : cont'[t] = cont[t]
  BY <1>1, <1>16 DEF CoreInv, CoreTypeOK
<1>20. MutexTypeOK'
  BY <1>1, <1>16, <1>18 DEF CondInv, OfferInv, MutexTypeOK, CoreInv
<1>21. \A n \in Mutex \ {m} : list'[n] = list[n]
  BY <1>9
<1>22. ToSet(list'[m]) = IF list[m] = <<>> THEN {} ELSE ToSet(list[m]) \ {Head(list[m])}
  BY DEF CondMoved
<1>23. WaitersLock'
  <2> SUFFICES ASSUME NEW n \in Mutex, NEW t \in Thread, t \in ToSet(list'[n])
               PROVE  cont'[t] = Await("lock", n)
    BY DEF WaitersLock
  <2>1. t \in ToSet(list[n])
    BY <1>21, <1>22
  <2>2. t # running /\ cont[t] = Await("lock", n)
    BY <1>1, <2>1 DEF CondInv, OfferInv, WaitersLock
  <2> QED BY <2>2, <1>19
<1>24. NoStrandedWaiter'
  <2> SUFFICES ASSUME NEW n \in Mutex, owner'[n] = NULL, list'[n] # <<>>
               PROVE  \E t \in ToSet(list'[Ready]) : cont'[t] = Await("lock", n)
    BY DEF NoStrandedWaiter
  <2>1. CASE n = m
    <3>1. list[m] # <<>>
      BY <2>1 DEF CondMoved
    <3>2. cont[Head(list[m])] = Await("lock", m)
      BY <3>1, <1>11 DEF CondInv, OfferInv, WaitersLock
    <3> QED BY <2>1, <3>1, <3>2, <1>11, <1>12, <1>19
  <2>2. CASE n # m
    <3>1. owner[n] = NULL /\ list[n] # <<>>
      BY <2>2, <1>16, <1>21 DEF CondInv, OfferInv, MutexTypeOK
    <3>2. PICK t \in ToSet(list[Ready]) : cont[t] = Await("lock", n)
      BY <3>1 DEF CondInv, OfferInv, NoStrandedWaiter
    <3>3. t # running
      BY <1>1, <3>2, LockIsNotUser
    <3>4. t \in Thread
      BY <1>2, <3>2, ElementOfSeq, LenProperties DEF ListsOK, ToSet
    <3> QED BY <3>2, <3>3, <3>4, <1>10, <1>19
  <2> QED BY <2>1, <2>2
<1>25. OwnerWillUnlock'
  <2> SUFFICES ASSUME NEW n \in Mutex, owner'[n] # NULL PROVE n \in held'[owner'[n]]
    BY DEF OwnerWillUnlock
  <2>1. n # m /\ owner'[n] = owner[n]
    BY <1>16 DEF CondInv, OfferInv, MutexTypeOK
  <2>2. n \in held[owner[n]] /\ owner[n] \in Thread
    BY <2>1 DEF CondInv, OfferInv, MutexTypeOK, OwnerWillUnlock
  <2> QED BY <1>1, <1>16, <2>1, <2>2 DEF CondInv, OfferInv, MutexTypeOK
<1>26. CondHoldsWaiters'
  <2> SUFFICES ASSUME NEW d \in Cond, NEW t \in ToSet(list'[d]) PROVE cont'[t].op \in {"condlock", "lock"}
    BY DEF CondHoldsWaiters
  <2>1. t \in Thread
    BY <1>8, ElementOfSeq, LenProperties DEF ListsOK, ToSet
  <2>2. CASE t = running
    BY <2>2, <1>19 DEF Await
  <2>3. CASE t # running
    <3>1. t \in ToSet(list[d])
      <4>1. CASE d = c
        BY <4>1, <2>3, <1>8
      <4>2. CASE d # c
        BY <4>2, <1>9
      <4> QED BY <4>1, <4>2
    <3> QED BY <2>1, <2>3, <3>1, <1>19 DEF CondInv, CondHoldsWaiters
  <2> QED BY <2>2, <2>3
<1>27. IdleNoCondition'
  BY <1>1, <1>19, CoreAssumption DEF CondInv, IdleNoCondition
<1> QED BY <1>18, <1>20, <1>23, <1>24, <1>25, <1>26, <1>27 DEF CondInv, OfferInv

\* The head of tth_ready is a waiter of the mutex by now: it joins the condition
\* instead of the caller, who goes straight on with the mutex.
LEMMA WaiterWaits ==
  ASSUME CondInv, NEW c \in Cond, NEW m \in Mutex, pthread_cond_wait(c, m),
         list[m] # <<>>, CondMoved(c, m, Head(list[m])), list'[Ready] = list[Ready]
  PROVE  CondInv'
<1> USE ListNames, CondLists, MutexLists
<1>1. /\ CoreInv /\ intLevel = 0 /\ owner[m] = running /\ running \in Thread
      /\ running = HeadOf(list[Ready]) /\ Switch /\ UNCHANGED <<intLevel, ticked>>
  BY RunningFacts DEF pthread_cond_wait, Caller, UserMode, CondInv, OfferInv
<1>2. running' = running
  BY <1>1 DEF Switch
<1>3. owner' = owner /\ held' = held /\ cont' = cont
  BY <1>2 DEF pthread_cond_wait
<1>4. CoreInv'
  BY <1>1, <1>3, RelinkFacts DEF CondMoved, CoreInv, CoreTypeOK
<1>5. MutexTypeOK'
  BY <1>3, <1>4 DEF CondInv, OfferInv, MutexTypeOK, CoreInv
<1>6. /\ \A n \in Mutex \ {m} : list'[n] = list[n]
      /\ ToSet(list'[m]) \subseteq ToSet(list[m])
      /\ Head(list[m]) \in ToSet(list[m]) /\ Head(list[m]) \in Thread
      /\ ToSet(list'[c]) = ToSet(list[c]) \cup {Head(list[m])}
      /\ \A d \in Cond \ {c} : list'[d] = list[d]
  BY DEF CondMoved
<1>7. WaitersLock'
  BY <1>3, <1>6 DEF CondInv, OfferInv, WaitersLock
<1>8. NoStrandedWaiter'
  <2> SUFFICES ASSUME NEW n \in Mutex, owner[n] = NULL, list'[n] # <<>>
               PROVE  \E t \in ToSet(list[Ready]) : cont[t] = Await("lock", n)
    BY <1>3 DEF NoStrandedWaiter
  <2>1. n # m
    BY <1>1, CoreAssumption
  <2> QED BY <2>1, <1>6 DEF CondInv, OfferInv, NoStrandedWaiter
<1>9. OwnerWillUnlock'
  BY <1>3 DEF CondInv, OfferInv, OwnerWillUnlock
<1>10. CondHoldsWaiters'
  <2> SUFFICES ASSUME NEW d \in Cond, NEW t \in ToSet(list'[d])
               PROVE  cont[t].op \in {"condlock", "lock"}
    BY <1>3 DEF CondHoldsWaiters
  <2>1. CASE t \in ToSet(list[d])
    BY <2>1 DEF CondInv, CondHoldsWaiters
  <2>2. CASE t = Head(list[m])
    <3>1. cont[Head(list[m])] = Await("lock", m)
      BY <1>6 DEF CondInv, OfferInv, WaitersLock
    <3> QED BY <2>2, <3>1 DEF Await
  <2> QED BY <2>1, <2>2, <1>6
<1>11. IdleNoCondition'
  BY <1>3 DEF CondInv, IdleNoCondition
<1> QED BY <1>4, <1>5, <1>7, <1>8, <1>9, <1>10, <1>11 DEF CondInv, OfferInv

\* pthread_cond_wait, whatever the priorities.
LEMMA CondWaitStep ==
  ASSUME CondInv, NEW c \in Cond, NEW m \in Mutex, pthread_cond_wait(c, m)
  PROVE  CondInv'
<1> USE ListNames, CondLists, MutexLists
<1> DEFINE woken == Move(list, m, Ready)
<1>1. CoreInv /\ intLevel = 0 /\ running # Idle /\ running \in Thread
  BY RunningFacts DEF pthread_cond_wait, Caller, UserMode, CondInv, OfferInv
<1>2. /\ list' = Move(woken, Ready, c)
      /\ waitstate' = Mark(Mark(waitstate, list, m, "ready"), woken, Ready, "cond")
  BY DEF pthread_cond_wait
<1>3. /\ woken[Ready] # <<>>
      /\ \/ Head(woken[Ready]) = running
         \/ /\ list[m] # <<>> /\ Head(woken[Ready]) = Head(list[m])
            /\ Tail(woken[Ready]) = list[Ready]
  BY <1>1, FirstAfterWake
<1>4. list[m] # <<>> => Head(list[m]) \in ToSet(list[m])
  BY <1>1, TailElements DEF CoreInv, CoreTypeOK
<1>5. Head(woken[Ready]) # Idle
  BY <1>1, <1>3, <1>4 DEF CoreInv, IdleReady, OneList, LinkedOnce, ToSet
<1>6. list'[Ready] = Tail(woken[Ready])
  <2>1. ListsOK(woken)
    <3>1. ListsOK(list) /\ LinkedOnce(list)
      BY <1>1 DEF CoreInv, CoreTypeOK, ListsOK, OneList
    <3>2. Moved(list, woken, m, Ready)
      BY <3>1, MoveFacts
    <3> QED BY <3>2 DEF Moved
  <2> HIDE DEF woken
  <2> QED BY <1>2, <1>3, <2>1 DEF Move, ListsOK
<1>7. CondMoved(c, m, Head(woken[Ready]))
  BY <1>1, <1>2, <1>3, <1>5, CondMoves
<1> HIDE DEF woken
<1>8. CASE Head(woken[Ready]) = running
  BY <1>7, <1>8, CallerWaits
<1>9. CASE /\ list[m] # <<>> /\ Head(woken[Ready]) = Head(list[m])
           /\ Tail(woken[Ready]) = list[Ready]
  BY <1>6, <1>7, <1>9, WaiterWaits
<1> QED BY <1>3, <1>8, <1>9

\* What is left of the conditions by a step that touches neither their lists
\* nor what a waiter has left to do.
LEMMA CondFrame ==
  ASSUME CondInv, OfferInv', \A c \in Cond : list'[c] = list[c],
         \A t \in Thread : cont'[t] # cont[t] =>
            /\ \A c \in Cond : t \notin ToSet(list[c])
            /\ cont'[t].op # "condlock"
  PROVE  CondInv'
<1>1. CondHoldsWaiters'
  <2> SUFFICES ASSUME NEW c \in Cond, NEW t \in ToSet(list[c]) PROVE cont'[t].op \in {"condlock", "lock"}
    BY DEF CondHoldsWaiters
  <2>1. t \in Thread
    BY CondLists, ElementOfSeq, LenProperties DEF CondInv, OfferInv, CoreInv, CoreTypeOK, ToSet
  <2> QED BY <2>1 DEF CondInv, CondHoldsWaiters
<1>2. IdleNoCondition'
  BY CoreAssumption DEF CondInv, IdleNoCondition
<1> QED BY <1>1, <1>2 DEF CondInv

\* A step of a mutex call: it moves a waiter of the mutex or the caller, and
\* what the caller has left to do is no more than that mutex.
LEMMA MutexCallStep ==
  ASSUME CondInv, OfferInv', intLevel = 0, NEW m \in Mutex,
         list' = list \/ list' = Move(list, Ready, m) \/ list' = Move(list, m, Ready),
         \/ cont' = cont
         \/ cont' = [cont EXCEPT ![running] = User]
         \/ cont' = [cont EXCEPT ![running] = Await("lock", m)]
  PROVE  CondInv'
<1> USE ListNames, CondLists, MutexLists
<1>1. /\ CoreInv /\ ListsOK(list) /\ LinkedOnce(list)
  BY DEF CondInv, OfferInv, CoreInv, CoreTypeOK, ListsOK, OneList
<1>2. /\ running \in Thread /\ \A l \in WaitList : running \notin ToSet(list[l])
  BY <1>1, RunningFacts
<1>3. \A c \in Cond : list'[c] = list[c]
  <2>1. CASE list' = Move(list, Ready, m)
    <3>1. Moved(list, list', Ready, m)
      BY <1>1, <2>1, MoveFacts
    <3> QED BY <3>1 DEF Moved
  <2>2. CASE list' = Move(list, m, Ready)
    <3>1. Moved(list, list', m, Ready)
      BY <1>1, <2>2, MoveFacts
    <3> QED BY <3>1 DEF Moved
  <2> QED BY <2>1, <2>2
<1>4. \A t \in Thread : cont'[t] # cont[t] => t = running /\ cont'[t].op # "condlock"
  BY <1>1, <1>2 DEF CoreInv, CoreTypeOK, User, Await
<1> QED BY <1>2, <1>3, <1>4, CondFrame

\* A signalled thread takes its mutex or waits for it.
LEMMA ResumeCondStep ==
  ASSUME CondInv, NEW m \in Mutex, ResumeCondWait(m)
  PROVE  CondInv'
<1>1. /\ CsMutexLock(m) /\ cont[running] = Await("condlock", m) /\ intLevel = 0
      /\ OfferInv /\ CoreInv
  BY DEF ResumeCondWait, Continues, CondInv, OfferInv
<1>2. running \in Thread
  BY <1>1, RunningFacts
<1>3. \A n \in Mutex : cont[running] # Await("lock", n)
  BY <1>1 DEF Await
<1>4. running # Idle
  BY <1>1 DEF Await, CondInv, IdleNoCondition
<1>5. CASE Acquire(m)
  <2>1. OfferInv'
    BY <1>1, <1>3, <1>5, TakeStep DEF Kept
  <2> QED BY <1>1, <1>5, <2>1, MutexCallStep DEF Acquire
<1>6. CASE /\ cont' = [cont EXCEPT ![running] = User]
           /\ UNCHANGED <<list, running, waitstate, intLevel, ticked, owner, held>>
  <2>1. cont' \in [Thread -> Continuation]
    BY <1>1, <1>6 DEF CoreInv, CoreTypeOK, User, Continuation, Ops
  <2>2. CoreInv'
    BY <1>1, <1>6, <2>1 DEF CoreInv, CoreTypeOK, OneList, ListsOrdered, IdleReady, RunningIsHead
  <2>3. cont'[running] = User /\ \A t \in Thread \ {running} : cont'[t] = cont[t]
    BY <1>1, <1>2, <1>6 DEF CoreInv, CoreTypeOK
  <2>4. MutexTypeOK' /\ OwnerWillUnlock'
    BY <1>1, <1>6, <2>2 DEF OfferInv, MutexTypeOK, CoreInv, OwnerWillUnlock
  <2>5. \A t \in Thread, n \in Mutex : cont'[t] = Await("lock", n) <=> cont[t] = Await("lock", n)
    BY <1>3, <2>3, LockIsNotUser
  <2>6. \A t \in ToSet(list[Ready]) : t \in Thread
    BY <1>1, ListNames, ElementOfSeq, LenProperties DEF CoreInv, CoreTypeOK, ToSet
  <2>7. WaitersLock' /\ NoStrandedWaiter'
    BY <1>1, <1>6, <2>5, <2>6 DEF OfferInv, WaitersLock, NoStrandedWaiter
  <2>8. OfferInv'
    BY <2>2, <2>4, <2>7 DEF OfferInv
  <2> QED BY <1>1, <1>6, <2>8, MutexCallStep
<1>7. CASE /\ owner[m] \notin {NULL, running} /\ Block(m, "mutex", "lock")
           /\ UNCHANGED <<owner, held>>
  <2>1. OfferInv'
    BY <1>1, <1>3, <1>4, <1>7, QueueStep DEF mutexVars, Kept
  <2> QED BY <1>1, <1>7, <2>1, MutexCallStep DEF Block, MoveHead
<1> QED BY <1>1, <1>5, <1>6, <1>7 DEF CsMutexLock

\* The steps of the mutexes and of the scheduler.
LEMMA CondMutexStep ==
  ASSUME CondInv, MutexNext
  PROVE  CondInv'
<1>1. OfferInv'
  BY OfferInvStep DEF CondInv, Kept
<1>2. CASE CoreNext /\ UNCHANGED mutexVars
  <2>1. CoreFrame
    BY <1>2, CoreStep DEF CondInv, OfferInv
  <2> QED BY <1>1, <2>1, CondFrame, CondLists DEF CoreFrame
<1>3. ASSUME NEW m \in Mutex,
             \/ pthread_mutex_lock(m) \/ pthread_mutex_trylock(m)
             \/ ResumeLock(m) \/ pthread_mutex_unlock(m)
      PROVE  CondInv'
  <2>1. intLevel = 0
    BY <1>3 DEF pthread_mutex_lock, pthread_mutex_trylock, ResumeLock, pthread_mutex_unlock,
      Caller, UserMode, Continues
  <2>2. CASE CsMutexLock(m)
    BY <1>1, <2>1, <2>2, MutexCallStep DEF CsMutexLock, Acquire, Block, MoveHead
  <2>3. CASE Acquire(m)
    BY <1>1, <2>1, <2>3, MutexCallStep DEF Acquire
  <2>4. CASE CsMutexUnlock(m)
    BY <1>1, <2>1, <2>4, MutexCallStep DEF CsMutexUnlock, Wake, MoveHead, coreVars
  <2> QED BY <1>3, <2>2, <2>3, <2>4
       DEF pthread_mutex_lock, pthread_mutex_trylock, ResumeLock, pthread_mutex_unlock
<1> QED BY <1>2, <1>3 DEF MutexNext, MutexStep

\* The invariant of the conditions, in every reachable state.
LEMMA CondInvariant == CondSpec => []CondInv
<1>1. MutexInit => CondInv
  <2> SUFFICES ASSUME MutexInit PROVE CondInv
    OBVIOUS
  <2>1. OfferInv
    BY MutexInitial
  <2>2. cont = [t \in Thread |-> User] /\ \A c \in Cond : list[c] = <<>>
    BY CondLists DEF MutexInit, AllReady, CoreInit, ReadyQueues
  <2>3. CondHoldsWaiters
    BY <2>2 DEF CondHoldsWaiters, ToSet
  <2>4. IdleNoCondition
    BY <2>2, CoreAssumption DEF IdleNoCondition, User
  <2> QED BY <2>1, <2>3, <2>4 DEF CondInv
<1>2. CondInv /\ [CondNext]_mvars => CondInv'
  <2>1. ASSUME CondInv, CondStep PROVE CondInv'
    BY <2>1, CondSignalStep, CondBroadcastStep, CondWaitStep, ResumeCondStep DEF CondStep
  <2>2. ASSUME CondInv, MutexNext PROVE CondInv'
    BY <2>2, CondMutexStep
  <2>3. ASSUME CondInv, UNCHANGED mvars PROVE CondInv'
    <3>1. UNCHANGED coreVars /\ owner' = owner /\ held' = held
      BY <2>3 DEF mvars, coreVars
    <3>2. CoreInv'
      BY <2>3, <3>1, CoreStutter DEF CondInv, OfferInv
    <3> QED
      BY <2>3, <3>1, <3>2 DEF CondInv, OfferInv, MutexTypeOK, CoreInv, WaitersLock,
        NoStrandedWaiter, OwnerWillUnlock, CondHoldsWaiters, IdleNoCondition, coreVars
  <2> QED BY <2>1, <2>2, <2>3 DEF CondNext
<1> QED BY <1>1, <1>2, PTL DEF CondSpec

\* Whatever the priorities of the threads and whoever joins the list of a
\* condition, conditions do not disturb the mutexes nor the scheduler: a wait
\* strands no waiter of the mutex it releases, a broadcast to any number of
\* threads links nobody twice and out of order, and who is in the list of a
\* condition has a mutex to take when it is signalled.
THEOREM CondKeepsMutexes ==
  CondSpec => [](SchedulerSound /\ NoStrandedWaiter /\ OwnerWillUnlock /\ CondHoldsWaiters)
<1>1. CondInv => SchedulerSound /\ NoStrandedWaiter /\ OwnerWillUnlock /\ CondHoldsWaiters
  BY DEF CondInv, OfferInv, CoreInv, SchedulerSound
<1> QED BY <1>1, CondInvariant, PTL

-----------------------------------------------------------------------------
(* The allocator's lock *)

HolderOwns == \A t \in Thread : InHeap(t) <=> owner[Heap] = t

\* Nobody sleeps or waits in the allocator.
HolderReady == \A t \in Thread : InHeap(t) => t \in ToSet(list[Ready])

\* A thread to which an unlock has offered the mutex is the only one, and the
\* mutex is still free.
Woken(w) == w \in ToSet(list[Ready]) /\ cont[w] = Await("lock", Heap)
OfferedAlone ==
  \A w \in Thread : Woken(w) => owner[Heap] = NULL /\ \A v \in Thread : Woken(v) => v = w

\* The counter, which its load and its store leave to others in between, is
\* the nesting of the thread in the allocator.
Nesting(t) ==
  /\ step[t] = "out" => depth[t] = 0
  /\ step[t] = "load" => depth[t] = IF InHeap(t) THEN locks + 1 ELSE 1
  /\ step[t] = "store" => reg[t] = locks /\ depth[t] = locks + 1
  /\ step[t] = "in" => depth[t] = locks /\ locks > 0
  /\ step[t] = "unload" => reg[t] = locks /\ depth[t] = locks /\ locks > 0
  /\ step[t] = "unlock" => depth[t] = 0 /\ locks = 0

Counted ==
  /\ locks >= 0
  /\ owner[Heap] = NULL => locks = 0
  /\ \A t \in Thread :
       /\ Nesting(t)
       /\ cont[t] = Await("lock", Heap) => step[t] = "load"

\* What holds until the mutex is overtaken.
Sound ==
  /\ MutexInv
  /\ HeapTypeOK
  /\ HolderOwns
  /\ HolderReady
  /\ OfferedAlone
  /\ Counted

HeapInv == overtaken \/ Sound

\* The mutex of the heap has a list of waiters of its own.
LEMMA HeapIsMutex == /\ Heap \in Mutex /\ Heap \in WaitList \ {Sleeping} /\ Heap \in Lists
                     /\ Await("lock", Heap) # User /\ NULL \notin Thread
BY HeapAssumption, MutexLists, LockIsNotUser, ListNames, CoreAssumption

\* What the scheduler's invariant says of tth_ready.
LEMMA ReadyQueue ==
  ASSUME CoreInv
  PROVE  /\ list[Ready] \in Seq(Thread) /\ list[Ready] # <<>>
         /\ \A u \in ToSet(list[Ready]) :
              u \in Thread /\ Priority[Head(list[Ready])] >= Priority[u]
         /\ intLevel = 0 => running = Head(list[Ready])
<1> DEFINE q == list[Ready]
<1>1. q \in Seq(Thread) /\ q # <<>>
  BY RunningFacts, ListNames DEF CoreInv, CoreTypeOK
<1>2. Ordered(q)
  BY ListNames DEF CoreInv, ListsOrdered
<1>3. intLevel = 0 => running = Head(q)
  BY RunningFacts
<1>4. ASSUME NEW u \in ToSet(q) PROVE u \in Thread /\ Priority[Head(q)] >= Priority[u]
  <2>1. /\ Head(q) = q[1] /\ DOMAIN q = 1..Len(q) /\ Len(q) \in Nat \ {0}
    BY <1>1, TailElements, HeadTailProperties
  <2>2. PICK j \in DOMAIN q : q[j] = u
    BY DEF ToSet
  <2>3. 1 \in DOMAIN q /\ 1 <= j /\ u \in Thread
    BY <2>1, <2>2, <1>1, ElementOfSeq
  <2> QED BY <2>1, <2>2, <2>3, <1>2 DEF Ordered
<1> QED BY <1>1, <1>3, <1>4

\* The scheduler takes a thread from tth_ready only when that thread sleeps.
LEMMA StaysReady ==
  ASSUME CoreInv, CoreNext, NEW t, t \in ToSet(list[Ready]), usleep => t # running
  PROVE  t \in ToSet(list'[Ready])
<1> USE ListNames
<1>1. ListsOK(list) /\ LinkedOnce(list)
  BY DEF CoreInv, CoreTypeOK, ListsOK, OneList
<1>2. CASE MoveHead(Ready, Ready, "ready")
  <2>1. list' = Move(list, Ready, Ready)
    BY <1>2 DEF MoveHead
  <2>2. Moved(list, list', Ready, Ready)
    BY <1>1, <2>1, MoveFacts
  <2>3. list[Ready] # <<>>
    BY RunningFacts
  <2> QED BY <2>2, <2>3 DEF Moved
<1>3. CASE MoveHead(Sleeping, Ready, "ready")
  <2>1. list' = Move(list, Sleeping, Ready)
    BY <1>3 DEF MoveHead
  <2>2. Moved(list, list', Sleeping, Ready)
    BY <1>1, <2>1, MoveFacts
  <2> QED BY <2>2 DEF Moved
<1>4. CASE usleep
  <2>1. list'[Ready] = Tail(list[Ready])
    BY <1>4 DEF usleep, CoreInv, CoreTypeOK
  <2>2. list[Ready] \in Seq(Thread) /\ list[Ready] # <<>> /\ t # Head(list[Ready])
    BY <1>4, RunningFacts DEF usleep, Caller, UserMode, CoreInv, CoreTypeOK
  <2> QED BY <2>1, <2>2, TailElements
<1>5. CASE list' = list
  BY <1>5
<1> QED
  BY <1>2, <1>3, <1>4, <1>5
  DEF CoreNext, sched_yield, tth_int_enter, tth_sleep_tick, Wake, tth_int_tick, EndSlice,
    KeepSlice, tth_int_exit

\* The start: nobody is in the allocator.
LEMMA HeapInitial == HeapInit => HeapInv
<1> SUFFICES ASSUME HeapInit PROVE HeapInv
  OBVIOUS
<1>1. MutexInv
  BY MutexInitial DEF HeapInit, MutexInv
<1>2. /\ locks = 0 /\ step = [t \in Thread |-> "out"] /\ reg = [t \in Thread |-> 0]
      /\ depth = [t \in Thread |-> 0] /\ owner = [m \in Mutex |-> NULL]
      /\ cont = [t \in Thread |-> User] /\ overtaken = FALSE
  BY DEF HeapInit, MutexInit, AllReady, CoreInit
<1>3. HeapTypeOK
  <2>1. 0 \in -LocksBound..LocksBound /\ 0 \in 0..MaxDepth
    BY HeapAssumption
  <2> QED BY <1>1, <1>2, <2>1 DEF HeapTypeOK, StepState, MutexInv, OfferInv
<1>4. \A t \in Thread : ~InHeap(t)
  BY <1>2 DEF InHeap
<1>5. HolderOwns /\ HolderReady /\ OfferedAlone
  BY <1>2, <1>4, HeapIsMutex DEF HolderOwns, HolderReady, OfferedAlone, Woken
<1>6. Counted
  BY <1>2, HeapIsMutex DEF Counted, Nesting
<1> QED BY <1>1, <1>3, <1>5, <1>6 DEF HeapInv, Sound

\* A step of the scheduler.
LEMMA ScheduleStep ==
  ASSUME Sound, Schedule
  PROVE  Sound'
<1>1. CoreNext /\ UNCHANGED mutexVars /\ UNCHANGED heapVars
      /\ (usleep \/ sched_yield => step[running] = "out")
  BY DEF Schedule
<1>2. CoreInv /\ CoreInv' /\ CoreFrame /\ MutexInv'
  BY <1>1, CoreStep, SchedulerStep DEF Sound, MutexInv, OfferInv, Kept
<1>3. owner' = owner /\ cont' = cont /\ list'[Heap] = list[Heap]
      /\ locks' = locks /\ step' = step /\ reg' = reg /\ depth' = depth /\ overtaken' = overtaken
  BY <1>1, <1>2, HeapIsMutex DEF CoreFrame, mutexVars, heapVars
<1>4. HeapTypeOK'
  BY <1>2, <1>3 DEF Sound, HeapTypeOK, MutexInv, OfferInv
<1>5. \A t \in Thread : InHeap(t)' <=> InHeap(t)
  BY <1>3 DEF InHeap
<1>6. HolderOwns'
  BY <1>3, <1>5 DEF Sound, HolderOwns
<1>7. HolderReady'
  <2> SUFFICES ASSUME NEW t \in Thread, InHeap(t) PROVE t \in ToSet(list'[Ready])
    BY <1>5 DEF HolderReady
  <2>1. t \in ToSet(list[Ready]) /\ (usleep => t # running)
    BY <1>1 DEF Sound, HolderReady, InHeap
  <2> QED BY <1>1, <1>2, <2>1, StaysReady
<1>8. \A w \in Thread : Woken(w)' => Woken(w)
  <2> SUFFICES ASSUME NEW w \in Thread, Woken(w)' PROVE Woken(w)
    OBVIOUS
  <2>1. w \in ToSet(list'[Ready]) /\ cont[w] = Await("lock", Heap)
    BY <1>3 DEF Woken
  <2>2. w \notin ToSet(list'[Heap])
    BY <1>2, <2>1, HeapIsMutex, ListNames, LinkedOnceByList DEF CoreInv, OneList
  <2> QED BY <1>3, <2>1, <2>2, HeapIsMutex DEF Sound, MutexInv, WaitersFound, Woken
<1>9. OfferedAlone'
  BY <1>3, <1>8 DEF Sound, OfferedAlone
<1>10. Counted'
  <2> SUFFICES ASSUME NEW t \in Thread
               PROVE  Nesting(t)' /\ (cont'[t] = Await("lock", Heap) => step'[t] = "load")
    BY <1>3 DEF Sound, Counted
  <2> QED BY <1>3, <1>5 DEF Sound, Counted, Nesting
<1> QED BY <1>2, <1>4, <1>6, <1>7, <1>9, <1>10 DEF Sound

\* A thread with the processor is given the free mutex, which was offered to
\* nobody else.
LEMMA HeapAcquired ==
  ASSUME Sound, Acquire(Heap), owner[Heap] = NULL, intLevel = 0,
         cont[running] \in {User, Await("lock", Heap)},
         \A w \in Thread : Woken(w) => w = running,
         step' = [step EXCEPT ![running] = "load"],
         depth' = [depth EXCEPT ![running] = 1], UNCHANGED <<locks, reg>>,
         overtaken' \in BOOLEAN
  PROVE  Sound'
<1> DEFINE r == running
<1>1. MutexInv'
  BY HeapIsMutex, AcquireStep DEF Sound, MutexInv, Kept
<1>2. r \in Thread /\ r \in ToSet(list[Ready])
  BY RunningFacts DEF Sound, MutexInv, OfferInv
<1>3. list' = list /\ owner' = [owner EXCEPT ![Heap] = r] /\ cont' = [cont EXCEPT ![r] = User]
  BY DEF Acquire
<1>4. /\ cont'[r] = User /\ owner'[Heap] = r /\ step'[r] = "load" /\ depth'[r] = 1
      /\ \A t \in Thread \ {r} : cont'[t] = cont[t] /\ step'[t] = step[t] /\ depth'[t] = depth[t]
      /\ locks' = locks /\ reg' = reg
  BY <1>2, <1>3, HeapIsMutex
  DEF Sound, HeapTypeOK, MutexTypeOK, MutexInv, OfferInv, CoreInv, CoreTypeOK
<1>5. \A t \in Thread : ~InHeap(t)
  BY HeapIsMutex DEF Sound, HolderOwns
<1>6. \A t \in Thread : InHeap(t)' <=> t = r
  BY <1>4, <1>5, HeapIsMutex, <1>2 DEF InHeap
<1>7. HeapTypeOK'
  BY <1>1, <1>2, HeapAssumption DEF Sound, HeapTypeOK, StepState, MutexInv, OfferInv
<1>8. HolderOwns' /\ HolderReady'
  BY <1>2, <1>3, <1>4, <1>6 DEF HolderOwns, HolderReady
<1>9. OfferedAlone'
  <2>1. \A w \in Thread : ~Woken(w)'
    BY <1>3, <1>4, HeapIsMutex DEF Woken
  <2> QED BY <2>1 DEF OfferedAlone
<1>10. Counted'
  <2>1. locks = 0
    BY DEF Sound, Counted
  <2> SUFFICES ASSUME NEW t \in Thread
               PROVE  Nesting(t)' /\ (cont'[t] = Await("lock", Heap) => step'[t] = "load")
    BY <1>4, <1>2, HeapIsMutex, <2>1 DEF Counted
  <2>2. Nesting(t) /\ (cont[t] = Await("lock", Heap) => step[t] = "load")
    BY DEF Sound, Counted
  <2>3. CASE t = r
    BY <2>3, <1>4, <1>6, <2>1, HeapIsMutex DEF Nesting
  <2>4. CASE t # r
    BY <2>4, <2>2, <1>4, <1>5, <1>6 DEF Nesting
  <2> QED BY <2>3, <2>4
<1> QED BY <1>1, <1>7, <1>8, <1>9, <1>10 DEF Sound

\* The idle thread finds the allocator's mutex free or its own: whoever has it
\* is above the idle thread and ready.
LEMMA IdleNeverWaits ==
  ASSUME Sound, intLevel = 0, owner[Heap] \notin {NULL, running}
  PROVE  running # Idle
<1>1. CoreInv /\ owner[Heap] \in Thread /\ InHeap(owner[Heap])
  BY HeapIsMutex DEF Sound, HolderOwns, MutexInv, OfferInv, MutexTypeOK
<1>2. Priority[running] >= Priority[owner[Heap]]
  BY <1>1, ReadyQueue DEF Sound, HolderReady
<1>3. owner[Heap] # Idle => Priority[owner[Heap]] > Priority[Idle]
  BY <1>1, CoreAssumption
<1> QED BY <1>1, <1>2, <1>3, CoreAssumption

\* __malloc_lock, up to its count or its wait.
LEMMA MallocLockStep ==
  ASSUME Sound, MallocLock
  PROVE  HeapInv'
<1> DEFINE r == running
<1>1. /\ UserMode /\ intLevel = 0 /\ r \in Thread /\ cont[r] = User
      /\ r \in ToSet(list[Ready]) /\ CsMutexLock(Heap)
      /\ step' = [step EXCEPT ![r] = "load"] /\ depth' = [depth EXCEPT ![r] = @ + 1]
      /\ locks' = locks /\ reg' = reg
      /\ overtaken' = (overtaken \/ (owner[Heap] = NULL /\ Offered))
      /\ step[r] = "out" \/ (step[r] = "in" /\ depth[r] < MaxDepth)
  BY RunningFacts DEF MallocLock, At, Goto, UserMode, Sound, MutexInv, OfferInv
<1>2. MutexInv'
  BY <1>1, LockStep, IdleNeverWaits, HeapIsMutex DEF Sound, MutexInv, Kept
<1>3. /\ depth[r] \in 0..MaxDepth /\ Nesting(r) /\ (InHeap(r) <=> step[r] # "out")
      /\ (InHeap(r) <=> owner[Heap] = r) /\ depth' \in [Thread -> Int]
      /\ step' \in [Thread -> StepState] /\ overtaken' \in BOOLEAN
  BY <1>1, HeapIsMutex, HeapAssumption
  DEF Sound, HeapTypeOK, Counted, InHeap, HolderOwns, StepState
<1>4. depth' \in [Thread -> 0..MaxDepth]
  <2>1. depth[r] + 1 \in 0..MaxDepth
    BY <1>1, <1>3, HeapAssumption DEF Nesting
  <2> QED BY <1>1, <2>1 DEF Sound, HeapTypeOK
<1>5. HeapTypeOK'
  BY <1>1, <1>2, <1>3, <1>4 DEF Sound, HeapTypeOK, MutexInv, OfferInv
<1>6. CASE owner[Heap] = NULL /\ Acquire(Heap)
  <2>1. CASE Offered
    BY <1>1, <1>6, <2>1 DEF HeapInv
  <2>2. CASE ~Offered
    <3>1. step[r] = "out" /\ depth[r] = 0
      BY <1>1, <1>3, <1>6, HeapIsMutex DEF Nesting
    <3>2. depth' = [depth EXCEPT ![r] = 1]
      BY <1>1, <3>1
    <3>3. \A w \in Thread : ~Woken(w)
      BY <2>2 DEF Offered, Woken
    <3>4. Sound'
      BY <1>1, <1>3, <1>6, <3>2, <3>3, HeapAcquired
    <3> QED BY <3>4 DEF HeapInv
  <2> QED BY <2>1, <2>2
<1>7. CASE owner[Heap] = r /\ UNCHANGED <<list, running, waitstate, intLevel, ticked, owner, held>>
           /\ cont' = [cont EXCEPT ![running] = User]
  <2>1. cont' = cont /\ InHeap(r) /\ list' = list /\ owner' = owner
    BY <1>1, <1>3, <1>7 DEF Sound, MutexInv, OfferInv, CoreInv, CoreTypeOK
  <2>2. /\ \A t \in Thread : InHeap(t)' <=> InHeap(t)
        /\ \A t \in Thread \ {r} : step'[t] = step[t] /\ depth'[t] = depth[t] /\ ~InHeap(t)
        /\ step'[r] = "load" /\ depth'[r] = depth[r] + 1
    <3>1. /\ \A t \in Thread \ {r} : step'[t] = step[t] /\ depth'[t] = depth[t]
          /\ step'[r] = "load" /\ depth'[r] = depth[r] + 1
      BY <1>1 DEF Sound, HeapTypeOK
    <3>2. \A t \in Thread \ {r} : ~InHeap(t)
      BY <1>7 DEF Sound, HolderOwns
    <3> QED BY <3>1, <3>2, <2>1, <1>1, HeapIsMutex DEF InHeap
  <2>3. HolderOwns' /\ HolderReady' /\ OfferedAlone'
    BY <2>1, <2>2 DEF Sound, HolderOwns, HolderReady, OfferedAlone, Woken
  <2>4. Counted'
    <3> SUFFICES ASSUME NEW t \in Thread
                 PROVE  Nesting(t)' /\ (cont'[t] = Await("lock", Heap) => step'[t] = "load")
      BY <1>1, <1>7 DEF Sound, Counted
    <3>1. Nesting(t) /\ (cont[t] = Await("lock", Heap) => step[t] = "load")
      BY DEF Sound, Counted
    <3>2. CASE t = r
      BY <3>2, <1>1, <1>3, <2>1, <2>2 DEF Nesting
    <3>3. CASE t # r
      BY <3>3, <3>1, <1>1, <2>1, <2>2 DEF Nesting
    <3> QED BY <3>2, <3>3
  <2> QED BY <1>2, <1>5, <2>3, <2>4 DEF HeapInv, Sound
<1>8. CASE owner[Heap] \notin {NULL, r} /\ Block(Heap, "mutex", "lock") /\ UNCHANGED <<owner, held>>
  <2>1. ~InHeap(r) /\ step[r] = "out" /\ depth[r] = 0
    BY <1>1, <1>3, <1>8 DEF Nesting
  <2>2. /\ ToSet(list'[Ready]) = ToSet(list[Ready]) \ {r}
        /\ cont' = [cont EXCEPT ![r] = Await("lock", Heap)]
    BY <1>1, <1>8, BlockFacts, HeapIsMutex, IdleNeverWaits
    DEF Sound, MutexInv, OfferInv, WaitState, Ops, CsOps, Block
  <2>3. /\ cont'[r] = Await("lock", Heap) /\ step'[r] = "load" /\ depth'[r] = 1
        /\ \A t \in Thread \ {r} : /\ cont'[t] = cont[t] /\ step'[t] = step[t]
                                   /\ depth'[t] = depth[t]
    BY <1>1, <2>1, <2>2 DEF Sound, MutexInv, OfferInv, CoreInv, CoreTypeOK, HeapTypeOK
  <2>4. \A t \in Thread : InHeap(t)' <=> InHeap(t)
    BY <2>1, <2>3 DEF InHeap
  <2>5. HolderOwns' /\ HolderReady'
    BY <1>8, <2>1, <2>2, <2>4 DEF Sound, HolderOwns, HolderReady
  <2>6. OfferedAlone'
    <3>1. \A w \in Thread : Woken(w)' => Woken(w)
      BY <2>2, <2>3 DEF Woken
    <3> QED BY <1>8, <3>1 DEF Sound, OfferedAlone
  <2>7. Counted'
    <3> SUFFICES ASSUME NEW t \in Thread
                 PROVE  Nesting(t)' /\ (cont'[t] = Await("lock", Heap) => step'[t] = "load")
      BY <1>1, <1>8 DEF Sound, Counted
    <3>1. Nesting(t) /\ (cont[t] = Await("lock", Heap) => step[t] = "load")
      BY DEF Sound, Counted
    <3>2. CASE t = r
      BY <3>2, <2>1, <2>3, <2>4 DEF Nesting
    <3>3. CASE t # r
      BY <3>3, <3>1, <1>1, <2>3, <2>4 DEF Nesting
    <3> QED BY <3>2, <3>3
  <2> QED BY <1>2, <1>5, <2>5, <2>6, <2>7 DEF HeapInv, Sound
<1> QED BY <1>1, <1>6, <1>7, <1>8 DEF CsMutexLock

\* A waiter that is switched to finds the mutex free, as long as nobody has
\* overtaken it.
LEMMA ResumeMallocStep ==
  ASSUME Sound, ResumeMallocLock
  PROVE  Sound'
<1>1. /\ intLevel = 0 /\ cont[running] = Await("lock", Heap) /\ Acquire(Heap)
      /\ locks' = locks /\ step' = step /\ reg' = reg /\ depth' = depth /\ overtaken' = overtaken
  BY DEF ResumeMallocLock, ResumeLock, Continues, heapVars
<1>2. running \in Thread /\ Woken(running)
  BY <1>1, RunningFacts DEF Sound, MutexInv, OfferInv, Woken
<1>3. step[running] = "load" /\ depth[running] = 1
  BY <1>1, <1>2 DEF InHeap, Sound, Counted, Nesting
<1>4. owner[Heap] = NULL /\ \A w \in Thread : Woken(w) => w = running
  BY <1>2 DEF Sound, OfferedAlone
<1>5. /\ step' = [step EXCEPT ![running] = "load"]
      /\ depth' = [depth EXCEPT ![running] = 1] /\ UNCHANGED <<locks, reg>>
      /\ overtaken' \in BOOLEAN
  BY <1>1, <1>3 DEF Sound, HeapTypeOK
<1> QED BY <1>1, <1>4, <1>5, HeapAcquired

\* A thread in the allocator loads or stores the counter, or returns from the
\* lock function, and nobody else is there.
Drift == -LocksBound..LocksBound

LEMMA CountStep ==
  ASSUME Sound, UserMode, step[running] # "out", UNCHANGED <<coreVars, mutexVars>>,
         overtaken' = overtaken,
         NEW s \in StepState \ {"out"}, NEW d \in 0..MaxDepth, NEW x \in Drift,
         step' = [step EXCEPT ![running] = s], depth' = [depth EXCEPT ![running] = d],
         reg' = [reg EXCEPT ![running] = x], locks' \in Nat, locks' \in Drift,
         /\ s = "load" => d = locks' + 1
         /\ s = "store" => x = locks' /\ d = locks' + 1
         /\ s = "in" => d = locks' /\ locks' > 0
         /\ s = "unload" => x = locks' /\ d = locks' /\ locks' > 0
         /\ s = "unlock" => d = 0 /\ locks' = 0
  PROVE  Sound'
<1> DEFINE r == running
<1>1. /\ r \in Thread /\ cont[r] = User
      /\ list' = list /\ running' = running /\ intLevel' = intLevel /\ cont' = cont
      /\ owner' = owner /\ held' = held
  BY RunningFacts DEF UserMode, coreVars, mutexVars, Sound, MutexInv, OfferInv
<1>2. MutexInv'
  BY MutexStutter DEF Sound
<1>3. InHeap(r) /\ owner[Heap] = r
  BY <1>1, HeapIsMutex DEF Sound, InHeap, HolderOwns
<1>4. /\ step'[r] = s /\ depth'[r] = d /\ reg'[r] = x
      /\ \A t \in Thread \ {r} : /\ step'[t] = step[t] /\ depth'[t] = depth[t]
                                 /\ reg'[t] = reg[t] /\ ~InHeap(t)
  BY <1>1, <1>3 DEF Sound, HeapTypeOK, HolderOwns
<1>5. \A t \in Thread : InHeap(t)' <=> InHeap(t)
  BY <1>1, <1>3, <1>4, HeapIsMutex DEF InHeap
<1>6. HeapTypeOK'
  BY <1>1, <1>2 DEF Sound, HeapTypeOK, MutexInv, OfferInv, Drift
<1>7. HolderOwns' /\ HolderReady' /\ OfferedAlone'
  BY <1>1, <1>5 DEF Sound, HolderOwns, HolderReady, OfferedAlone, Woken
<1>8. Counted'
  <2> SUFFICES ASSUME NEW t \in Thread
               PROVE  Nesting(t)' /\ (cont'[t] = Await("lock", Heap) => step'[t] = "load")
    BY <1>1, <1>3, HeapIsMutex DEF Counted
  <2>1. Nesting(t) /\ (cont[t] = Await("lock", Heap) => step[t] = "load")
    BY DEF Sound, Counted
  <2>2. CASE t = r
    BY <2>2, <1>1, <1>3, <1>4, <1>5, HeapIsMutex DEF Nesting
  <2>3. CASE t # r
    <3>1. step[t] \in {"out", "load"}
      BY <2>1, <2>3, <1>4 DEF InHeap
    <3> QED BY <3>1, <2>1, <2>3, <1>1, <1>4, <1>5 DEF Nesting
  <2> QED BY <2>2, <2>3
<1> QED BY <1>2, <1>6, <1>7, <1>8 DEF Sound

\* The four halves of ++locks and --locks.
LEMMA CounterSteps ==
  ASSUME Sound, LoadCount \/ StoreCount \/ UnloadCount \/ UnstoreCount
  PROVE  Sound'
<1> DEFINE r == running
<1>1. UserMode /\ r \in Thread /\ cont[r] = User /\ step[r] # "out"
      /\ UNCHANGED <<coreVars, mutexVars>> /\ overtaken' = overtaken
  BY RunningFacts DEF LoadCount, StoreCount, UnloadCount, UnstoreCount, At, UserMode,
    Sound, MutexInv, OfferInv
<1>2. /\ Nesting(r) /\ InHeap(r) /\ depth[r] \in 0..MaxDepth /\ reg[r] \in Drift
      /\ locks \in Nat /\ locks \in Drift /\ MaxDepth \in Nat \ {0} /\ LocksBound \in Nat
      /\ step \in [Thread -> StepState]
      /\ depth = [depth EXCEPT ![r] = depth[r]] /\ reg = [reg EXCEPT ![r] = reg[r]]
  BY <1>1, HeapIsMutex, HeapAssumption DEF Sound, HeapTypeOK, Counted, InHeap, Drift
<1>3. CASE LoadCount
  <2>1. /\ reg' = [reg EXCEPT ![r] = locks] /\ step' = [step EXCEPT ![r] = "store"]
        /\ depth' = [depth EXCEPT ![r] = depth[r]] /\ locks' = locks /\ step[r] = "load"
    BY <1>3, <1>2 DEF LoadCount, At, Goto
  <2>2. depth[r] = locks' + 1 /\ locks = locks' /\ locks' \in Nat /\ locks' \in Drift
        /\ "store" \in StepState \ {"out"}
    BY <2>1, <1>2 DEF Nesting, StepState
  <2> QED BY <1>1, <1>2, <2>1, <2>2, CountStep
<1>4. CASE StoreCount
  <2>1. /\ reg' = [reg EXCEPT ![r] = reg[r]] /\ step' = [step EXCEPT ![r] = "in"]
        /\ depth' = [depth EXCEPT ![r] = depth[r]] /\ locks' = reg[r] + 1 /\ step[r] = "store"
        /\ reg[r] < LocksBound
    BY <1>4, <1>2 DEF StoreCount, At, Goto
  <2>2. depth[r] = locks' /\ locks' > 0 /\ locks' \in Nat /\ locks' \in Drift
    BY <2>1, <1>2 DEF Nesting, Drift
  <2> QED BY <1>1, <1>2, <2>1, <2>2, CountStep DEF StepState
<1>5. CASE UnloadCount
  <2>1. /\ reg' = [reg EXCEPT ![r] = locks] /\ step' = [step EXCEPT ![r] = "unload"]
        /\ depth' = [depth EXCEPT ![r] = depth[r]] /\ locks' = locks /\ step[r] = "in"
    BY <1>5, <1>2 DEF UnloadCount, At, Goto
  <2>2. depth[r] = locks' /\ locks = locks' /\ locks' > 0 /\ locks' \in Nat /\ locks' \in Drift
        /\ "unload" \in StepState \ {"out"}
    BY <2>1, <1>2 DEF Nesting, StepState
  <2> QED BY <1>1, <1>2, <2>1, <2>2, CountStep
<1>6. CASE UnstoreCount
  <2> DEFINE s == IF locks' = 0 THEN "unlock" ELSE "in"
             d == depth[r] - 1
  <2>1. /\ reg' = [reg EXCEPT ![r] = 0] /\ step[r] = "unload" /\ locks' = reg[r] - 1
        /\ depth' = [depth EXCEPT ![r] = d]
        /\ step' = [step EXCEPT ![r] = IF locks' = 0 THEN "unlock"
                                       ELSE IF depth'[r] > 0 THEN "in" ELSE "out"]
    BY <1>6 DEF UnstoreCount, At, Goto
  <2>2. reg[r] = locks /\ depth[r] = locks /\ locks > 0
    BY <2>1, <1>2 DEF Nesting
  <2>3. d = locks' /\ locks' \in Nat /\ locks' \in Drift /\ d \in 0..MaxDepth /\ 0 \in Drift
    BY <2>1, <2>2, <1>2 DEF Drift
  <2> HIDE DEF d
  <2>4. depth'[r] = d
    BY <2>1, <1>1 DEF Sound, HeapTypeOK
  <2>5. step' = [step EXCEPT ![r] = s]
    <3>1. locks' # 0 => depth'[r] > 0
      BY <2>3, <2>4
    <3> QED BY <2>1, <3>1
  <2>6. s \in StepState \ {"out"} /\ (s = "in" => locks' > 0) /\ (s = "unlock" => locks' = 0)
        /\ s \in {"in", "unlock"}
    BY <2>3 DEF StepState
  <2> HIDE DEF s
  <2>7. /\ s = "load" => d = locks' + 1
        /\ s = "store" => 0 = locks' /\ d = locks' + 1
        /\ s = "in" => d = locks' /\ locks' > 0
        /\ s = "unload" => 0 = locks' /\ d = locks' /\ locks' > 0
        /\ s = "unlock" => d = 0 /\ locks' = 0
    BY <2>3, <2>6
  <2> QED BY <1>1, <2>1, <2>3, <2>5, <2>6, <2>7, CountStep
<1> QED BY <1>3, <1>4, <1>5, <1>6

\* __malloc_unlock gives the mutex back when the thread leaves the allocator:
\* the caller is the owner, nobody is in the allocator after it, and one waiter
\* is offered the mutex.
LEMMA MallocUnlockStep ==
  ASSUME Sound, MallocUnlock
  PROVE  Sound'
<1> DEFINE r == running
<1>1. /\ UserMode /\ r \in Thread /\ cont[r] = User /\ step[r] = "unlock"
      /\ CsMutexUnlock(Heap) /\ held' = [held EXCEPT ![r] = @ \ {Heap}]
      /\ step' = [step EXCEPT ![r] = IF depth[r] > 0 THEN "in" ELSE "out"]
      /\ UNCHANGED <<locks, reg, depth, overtaken>>
  BY RunningFacts DEF MallocUnlock, At, Goto, UserMode, Sound, MutexInv, OfferInv
<1>2. MutexInv' /\ CoreInv
  BY <1>1, UnlockStep, HeapIsMutex DEF Sound, MutexInv, OfferInv, Kept
<1>3. owner[Heap] = r /\ depth[r] = 0 /\ locks = 0
  BY <1>1, HeapIsMutex DEF Sound, InHeap, HolderOwns, Counted, Nesting
<1>4. owner' = [owner EXCEPT ![Heap] = NULL] /\ cont' = cont /\ Wake(Heap)
  BY <1>1, <1>3, HeapIsMutex DEF CsMutexUnlock
<1>5. /\ owner'[Heap] = NULL /\ step'[r] = "out"
      /\ \A t \in Thread \ {r} : step'[t] = step[t] /\ ~InHeap(t)
  BY <1>1, <1>3, <1>4, HeapIsMutex
  DEF Sound, HeapTypeOK, HolderOwns, MutexInv, OfferInv, MutexTypeOK
<1>6. \A t \in Thread : ~InHeap(t)'
  BY <1>4, <1>5 DEF InHeap
<1>7. HolderOwns' /\ HolderReady'
  BY <1>5, <1>6, HeapIsMutex DEF HolderOwns, HolderReady
<1>8. OfferedAlone'
  <2>1. \A w \in Thread : ~Woken(w)
    BY <1>1, <1>3, HeapIsMutex DEF Sound, OfferedAlone
  <2>2. /\ list[Heap] = <<>> => list' = list
        /\ list[Heap] # <<>> => ToSet(list'[Ready]) = ToSet(list[Ready]) \cup {Head(list[Heap])}
    BY <1>2, <1>4, WakeFacts, HeapIsMutex DEF CoreInv, CoreTypeOK
  <2>3. \A w \in Thread : Woken(w)' => w = Head(list[Heap])
    BY <1>4, <2>1, <2>2 DEF Woken
  <2> QED BY <1>5, <2>3 DEF OfferedAlone
<1>9. HeapTypeOK'
  BY <1>1, <1>2 DEF Sound, HeapTypeOK, MutexInv, OfferInv, StepState
<1>10. Counted'
  <2> SUFFICES ASSUME NEW t \in Thread
               PROVE  Nesting(t)' /\ (cont'[t] = Await("lock", Heap) => step'[t] = "load")
    BY <1>1, <1>3 DEF Counted
  <2>1. Nesting(t) /\ (cont[t] = Await("lock", Heap) => step[t] = "load")
    BY DEF Sound, Counted
  <2>2. CASE t = r
    BY <2>2, <1>1, <1>3, <1>4, <1>5, HeapIsMutex DEF Nesting
  <2>3. CASE t # r
    BY <2>1, <2>3, <1>1, <1>3, <1>4, <1>5, <1>6 DEF Nesting
  <2> QED BY <2>2, <2>3
<1> QED BY <1>2, <1>7, <1>8, <1>9, <1>10 DEF Sound

\* Every step of the allocator's callers and the scheduler; a mutex that has
\* been overtaken stays so.
LEMMA HeapNextStep ==
  ASSUME HeapInv, [HeapNext]_hvars
  PROVE  HeapInv'
<1>1. CASE overtaken
  BY <1>1 DEF HeapInv, HeapNext, MallocLock, ResumeMallocLock, LoadCount, StoreCount,
    UnloadCount, UnstoreCount, MallocUnlock, Schedule, heapVars, hvars
<1>2. CASE Sound /\ HeapNext
  BY <1>2, MallocLockStep, ResumeMallocStep, CounterSteps, MallocUnlockStep, ScheduleStep
  DEF HeapNext, HeapInv
<1>3. CASE Sound /\ UNCHANGED hvars
  <2>1. UNCHANGED coreVars /\ UNCHANGED mutexVars /\ UNCHANGED heapVars
    BY <1>3 DEF hvars, coreVars, mutexVars, heapVars
  <2>2. MutexInv'
    BY <1>3, <2>1, MutexStutter DEF Sound
  <2>3. HeapTypeOK'
    BY <1>3, <2>1, <2>2 DEF Sound, HeapTypeOK, MutexInv, OfferInv, heapVars
  <2> QED
    BY <1>3, <2>1, <2>2, <2>3 DEF HeapInv, Sound, HolderOwns, HolderReady, OfferedAlone,
      Woken, Counted, Nesting, InHeap, coreVars, mutexVars, heapVars
<1> QED BY <1>1, <1>2, <1>3 DEF HeapInv

\* __malloc_lock keeps all threads but one out of the allocator, with a counter
\* that is loaded and stored in separate steps, and the idle thread, which frees
\* stacks, never waits there, whatever the priorities and the time slices, until
\* the mutex is locked between a waiter's wake-up and its turn.
THEOREM AllocatorSafe == HeapSpec => []HeapSafe
<1>1. HeapInv /\ [HeapNext]_hvars => HeapInv'
  BY HeapNextStep
<1>2. HeapInv => HeapSafe
  BY DEF HeapInv, Sound, HolderOwns, MutexInv, OfferInv, CoreInv, HeapSafe, HeapExclusive
<1> QED BY <1>1, <1>2, HeapInitial, PTL DEF HeapSpec

-----------------------------------------------------------------------------
(* pthread_once *)

\* Once the routine has ended, nothing is left to protect; before that, no
\* unlock has offered the mutex to a waiter, and its owner runs the routine.
OnceGuard(t) ==
  /\ cont[t] = Await("lock", Once) => place[t] = "look"
  /\ place[t] \in {"unlock", "back"} => onceDone
  /\ place[t] \in {"run", "store"} => ~onceDone
  /\ ~onceDone /\ cont[t] = Await("lock", Once) => t \notin ToSet(list[Ready])
  /\ ~onceDone =>
       (owner[Once] = t <=>
          place[t] \in {"look", "run", "store"} /\ cont[t] # Await("lock", Once))

OnceCounted ==
  routine =
    [started |-> IF onceDone \/ \E t \in Thread : place[t] \in {"run", "store"} THEN 1 ELSE 0,
     ended   |-> IF onceDone \/ \E t \in Thread : place[t] = "store" THEN 1 ELSE 0]

OnceInv ==
  /\ MutexInv
  /\ onceDone \in BOOLEAN /\ place \in [Thread -> OncePlace]
  /\ \A t \in Thread : OnceGuard(t)
  /\ OnceCounted

\* The mutex of the once_control has waiters of its own.
LEMMA OnceIsMutex ==
  /\ Once \in Mutex /\ Once \in WaitList \ {Sleeping} /\ Once \in Lists
  /\ Await("lock", Once) # User /\ NULL \notin Thread
BY OnceAssumption, MutexLists, LockIsNotUser, ListNames, CoreAssumption

\* The start: nobody has called pthread_once.
LEMMA OnceInitial == OnceInit => OnceInv
<1> SUFFICES ASSUME OnceInit PROVE OnceInv
  OBVIOUS
<1>1. MutexInv
  BY MutexInitial DEF OnceInit, MutexInv
<1>2. /\ onceDone = FALSE /\ place = [t \in Thread |-> "out"]
      /\ routine = [started |-> 0, ended |-> 0]
      /\ cont = [t \in Thread |-> User] /\ owner = [m \in Mutex |-> NULL]
  BY DEF OnceInit, MutexInit, AllReady, CoreInit
<1>3. \A t \in Thread : OnceGuard(t)
  BY <1>2, OnceIsMutex DEF OnceGuard
<1>4. OnceCounted
  BY <1>2 DEF OnceCounted
<1> QED BY <1>1, <1>2, <1>3, <1>4 DEF OnceInv, OncePlace

\* A step that concerns the mutex of the once_control neither as its owner nor
\* as one of its waiters.
OnceFrame ==
  /\ list'[Once] = list[Once] /\ owner'[Once] = owner[Once]
  /\ \A t \in Thread : cont'[t] = Await("lock", Once) <=> cont[t] = Await("lock", Once)

\* It leaves the waiters where they are.
LEMMA OnceFrameStep ==
  ASSUME OnceInv, MutexInv', OnceFrame, UNCHANGED onceVars
  PROVE  OnceInv'
<1>1. onceDone' = onceDone /\ place' = place /\ routine' = routine
  BY DEF onceVars
<1>2. \A t \in Thread : OnceGuard(t)'
  <2> SUFFICES ASSUME NEW t \in Thread PROVE OnceGuard(t)'
    OBVIOUS
  <2>1. OnceGuard(t)
    BY DEF OnceInv
  <2>2. ASSUME ~onceDone, cont[t] = Await("lock", Once) PROVE t \notin ToSet(list'[Ready])
    <3>1. t \notin ToSet(list[Ready])
      BY <2>1, <2>2 DEF OnceGuard
    <3>2. t \in ToSet(list[Once])
      BY <2>2, <3>1, OnceIsMutex DEF OnceInv, MutexInv, WaitersFound
    <3>3. t \in ToSet(list'[Once])
      BY <3>2 DEF OnceFrame
    <3> QED BY <3>3, OnceIsMutex, ListNames, LinkedOnceByList
        DEF MutexInv, OfferInv, CoreInv, OneList
  <2> QED BY <1>1, <2>1, <2>2 DEF OnceGuard, OnceFrame
<1>3. OnceCounted'
  BY <1>1 DEF OnceInv, OnceCounted
<1> QED BY <1>1, <1>2, <1>3 DEF OnceInv

\* The scheduler, and a thread that uses another mutex, take such steps.
LEMMA ElsewhereStep ==
  ASSUME OnceInv, OtherMutexes \/ OnceSchedule, UNCHANGED onceVars
  PROVE  OnceInv'
<1> USE OnceIsMutex, ListNames
<1>1. CoreInv /\ cont \in [Thread -> Continuation] /\ owner \in [Mutex -> Thread \cup {NULL}]
  BY DEF OnceInv, MutexInv, OfferInv, CoreInv, CoreTypeOK, MutexTypeOK
<1>2. MutexInv'
  BY MutexInvStep DEF OnceInv, OtherMutexes, OnceSchedule, MutexNext, MutexStep
<1>3. CASE OnceSchedule
  <2>1. CoreFrame /\ owner' = owner
    BY <1>1, <1>3, CoreStep DEF OnceSchedule, mutexVars
  <2>2. OnceFrame
    BY <2>1 DEF OnceFrame, CoreFrame
  <2> QED BY <1>2, <2>2, OnceFrameStep
<1>4. CASE OtherMutexes
  <2>1. PICK m \in Mutex \ {Once} :
          \/ pthread_mutex_lock(m) \/ pthread_mutex_trylock(m)
          \/ pthread_mutex_unlock(m) \/ ResumeLock(m)
    BY <1>4 DEF OtherMutexes
  <2>2. m \in WaitList \ {Sleeping} /\ Await("lock", m) # Await("lock", Once)
    BY MutexLists, LockIsNotUser
  <2>3. CASE ResumeLock(m) \/ pthread_mutex_trylock(m)
    <3>1. running \in Thread /\ cont[running] \in {User, Await("lock", m)} /\ Acquire(m)
      BY <1>1, <2>3, RunningFacts
      DEF ResumeLock, Continues, pthread_mutex_trylock, Caller, UserMode
    <3>2. OnceFrame
      BY <1>1, <2>2, <3>1 DEF OnceFrame, Acquire
    <3> QED BY <1>2, <3>2, OnceFrameStep
  <2>4. CASE pthread_mutex_lock(m)
    <3>1. /\ running \in Thread /\ cont[running] = User /\ running # Idle /\ intLevel = 0
          /\ CsMutexLock(m)
      BY <1>1, <2>4, RunningFacts DEF pthread_mutex_lock, Caller, UserMode
    <3>2. OnceFrame
      <4>1. CASE Acquire(m)
        BY <1>1, <2>2, <3>1, <4>1 DEF OnceFrame, Acquire
      <4>2. CASE /\ cont' = [cont EXCEPT ![running] = User]
                 /\ UNCHANGED <<list, running, waitstate, intLevel, ticked, owner, held>>
        BY <1>1, <3>1, <4>2 DEF OnceFrame
      <4>3. CASE Block(m, "mutex", "lock") /\ UNCHANGED <<owner, held>>
        <5>1. "mutex" \in WaitState /\ "lock" \in Ops
          BY DEF WaitState, Ops, CsOps
        <5>2. \A l \in Lists \ {m, Ready} : list'[l] = list[l]
          BY <1>1, <2>2, <3>1, <4>3, <5>1, BlockFacts
        <5>3. cont' = [cont EXCEPT ![running] = Await("lock", m)] /\ owner' = owner
          BY <4>3 DEF Block
        <5> QED BY <1>1, <2>2, <3>1, <5>2, <5>3 DEF OnceFrame
      <4> QED BY <3>1, <4>1, <4>2, <4>3 DEF CsMutexLock
    <3> QED BY <1>2, <3>2, OnceFrameStep
  <2>5. CASE pthread_mutex_unlock(m)
    <3>1. CsMutexUnlock(m) /\ running \in Thread
      BY <1>1, <2>5, RunningFacts DEF pthread_mutex_unlock, Caller, UserMode
    <3>2. OnceFrame
      <4>1. CASE owner' = [owner EXCEPT ![m] = NULL] /\ Wake(m) /\ cont' = cont
        <5>1. \A l \in Lists \ {m, Ready} : list'[l] = list[l]
          BY <1>1, <2>2, <4>1, WakeFacts
        <5> QED BY <1>1, <4>1, <5>1 DEF OnceFrame
      <4>2. CASE UNCHANGED <<coreVars, owner>>
        BY <4>2 DEF OnceFrame, coreVars
      <4> QED BY <3>1, <4>1, <4>2 DEF CsMutexUnlock
    <3> QED BY <1>2, <3>2, OnceFrameStep
  <2> QED BY <2>1, <2>3, <2>4, <2>5
<1> QED BY <1>3, <1>4

\* A thread goes on in pthread_once while it has the processor.
LEMMA OnceGoes ==
  ASSUME OnceInv, NEW p \in OncePlace, Go(p), UserMode,
         UNCHANGED <<coreVars, mutexVars>>,
         onceDone' \in BOOLEAN, onceDone => onceDone',
         \/ onceDone' /\ p \notin {"run", "store"}
            /\ \A t \in Thread \ {running} : place[t] \in {"run", "store"} => ~onceDone'
         \/ ~onceDone' /\ p \notin {"unlock", "back"}
            /\ (p \in {"look", "run", "store"} <=> place[running] \in {"look", "run", "store"}),
         OnceCounted'
  PROVE  OnceInv'
<1> DEFINE r == running
<1> USE OnceIsMutex
<1>1. r \in Thread /\ cont[r] = User
  BY RunningFacts DEF UserMode, OnceInv, MutexInv, OfferInv
<1>2. list' = list /\ cont' = cont /\ owner' = owner
  BY DEF coreVars, mutexVars
<1>3. /\ place' \in [Thread -> OncePlace] /\ place'[r] = p
      /\ \A t \in Thread \ {r} : place'[t] = place[t]
  BY <1>1 DEF Go, OnceInv
<1>4. MutexInv'
  BY MutexStutter DEF OnceInv
<1>5. ASSUME NEW t \in Thread PROVE OnceGuard(t)'
  <2>1. OnceGuard(t)
    BY DEF OnceInv
  <2>2. CASE t = r
    BY <2>1, <2>2, <1>1, <1>2, <1>3 DEF OnceGuard
  <2>3. CASE t # r
    BY <2>1, <2>3, <1>2, <1>3 DEF OnceGuard
  <2> QED BY <2>2, <2>3
<1> QED BY <1>3, <1>4, <1>5 DEF OnceInv

\* pthread_once takes the mutex, or waits for it; to take it a second time is
\* only possible when the routine has ended.
LEMMA OnceLockStep ==
  ASSUME OnceInv, OnceLock
  PROVE  OnceInv'
<1> DEFINE r == running
<1> USE OnceIsMutex
<1>1. /\ UserMode /\ intLevel = 0 /\ r \in Thread /\ cont[r] = User /\ r # Idle
      /\ place[r] = "lock" /\ CsMutexLock(Once) /\ Go("look")
      /\ onceDone' = onceDone /\ routine' = routine
  BY RunningFacts DEF OnceLock, In, Caller, UserMode, OnceInv, MutexInv, OfferInv
<1>2. MutexInv'
  BY <1>1, LockStep DEF OnceInv, MutexInv, Kept
<1>3. /\ place' \in [Thread -> OncePlace] /\ place'[r] = "look"
      /\ \A t \in Thread \ {r} : place'[t] = place[t]
  BY <1>1 DEF Go, OnceInv, OncePlace
<1>4. OnceCounted'
  <2>1. \A t \in Thread : /\ place'[t] \in {"run", "store"} <=> place[t] \in {"run", "store"}
                          /\ place'[t] = "store" <=> place[t] = "store"
    BY <1>1, <1>3
  <2> QED BY <1>1, <2>1 DEF OnceInv, OnceCounted
<1>5. CoreInv /\ cont \in [Thread -> Continuation] /\ owner \in [Mutex -> Thread \cup {NULL}]
  BY DEF OnceInv, MutexInv, OfferInv, CoreInv, CoreTypeOK, MutexTypeOK
<1>6. CASE owner[Once] = NULL /\ Acquire(Once)
  <2>1. /\ list' = list /\ owner' = [owner EXCEPT ![Once] = r]
        /\ cont' = [cont EXCEPT ![r] = User]
    BY <1>6 DEF Acquire
  <2>2. cont' = cont /\ owner'[Once] = r
    BY <2>1, <1>1, <1>5
  <2>3. ASSUME NEW t \in Thread PROVE OnceGuard(t)'
    <3>1. OnceGuard(t)
      BY DEF OnceInv
    <3> QED BY <3>1, <1>1, <1>3, <1>6, <2>1, <2>2 DEF OnceGuard
  <2> QED BY <1>1, <1>2, <1>3, <1>4, <2>3 DEF OnceInv
<1>7. CASE owner[Once] = r /\ UNCHANGED <<list, running, waitstate, intLevel, ticked, owner, held>>
           /\ cont' = [cont EXCEPT ![running] = User]
  <2>1. cont' = cont
    BY <1>1, <1>5, <1>7
  <2>2. onceDone
    BY <1>1, <1>7 DEF OnceInv, OnceGuard
  <2>3. ASSUME NEW t \in Thread PROVE OnceGuard(t)'
    <3>1. OnceGuard(t)
      BY DEF OnceInv
    <3> QED BY <3>1, <1>1, <1>3, <1>7, <2>1, <2>2 DEF OnceGuard
  <2> QED BY <1>1, <1>2, <1>3, <1>4, <2>3 DEF OnceInv
<1>8. CASE owner[Once] \notin {NULL, r} /\ Block(Once, "mutex", "lock") /\ UNCHANGED <<owner, held>>
  <2>1. "mutex" \in WaitState /\ "lock" \in Ops
    BY DEF WaitState, Ops, CsOps
  <2>2. ToSet(list'[Ready]) = ToSet(list[Ready]) \ {r}
    BY <1>1, <1>5, <1>8, <2>1, BlockFacts
  <2>3. cont'[r] = Await("lock", Once) /\ \A t \in Thread \ {r} : cont'[t] = cont[t]
    BY <1>1, <1>5, <1>8 DEF Block
  <2>4. ASSUME NEW t \in Thread PROVE OnceGuard(t)'
    <3>1. OnceGuard(t)
      BY DEF OnceInv
    <3> QED BY <3>1, <1>1, <1>3, <1>8, <2>2, <2>3 DEF OnceGuard
  <2> QED BY <1>1, <1>2, <1>3, <1>4, <2>4 DEF OnceInv
<1> QED BY <1>1, <1>6, <1>7, <1>8 DEF CsMutexLock

\* A waiter takes the mutex of the once_control without looking who has it:
\* none is offered it before the routine has ended.
LEMMA ResumeOnceStep ==
  ASSUME OnceInv, ResumeOnceLock
  PROVE  OnceInv'
<1> DEFINE r == running
<1> USE OnceIsMutex
<1>1. intLevel = 0 /\ cont[r] = Await("lock", Once) /\ Acquire(Once)
  BY DEF ResumeOnceLock, ResumeLock, Continues
<1>2. r \in Thread /\ r \in ToSet(list[Ready])
      /\ cont \in [Thread -> Continuation] /\ owner \in [Mutex -> Thread \cup {NULL}]
  BY <1>1, RunningFacts DEF OnceInv, MutexInv, OfferInv, CoreInv, CoreTypeOK, MutexTypeOK
<1>3. /\ list' = list /\ owner' = [owner EXCEPT ![Once] = r] /\ cont' = [cont EXCEPT ![r] = User]
      /\ onceDone' = onceDone /\ place' = place /\ routine' = routine
  BY <1>1 DEF Acquire, ResumeOnceLock, onceVars
<1>4. onceDone
  BY <1>1, <1>2 DEF OnceInv, OnceGuard
<1>5. MutexInv'
  BY <1>1, <1>2, AcquireStep DEF OnceInv, MutexInv, Kept
<1>6. cont'[r] = User /\ \A t \in Thread \ {r} : cont'[t] = cont[t]
  BY <1>2, <1>3
<1>7. ASSUME NEW t \in Thread PROVE OnceGuard(t)'
  <2>1. OnceGuard(t)
    BY DEF OnceInv
  <2> QED BY <2>1, <1>3, <1>4, <1>6 DEF OnceGuard
<1>8. OnceCounted'
  BY <1>3 DEF OnceInv, OnceCounted
<1> QED BY <1>3, <1>5, <1>7, <1>8 DEF OnceInv

\* The unlock of pthread_once, also when a waiter has become the owner.
LEMMA OnceUnlockStep ==
  ASSUME OnceInv, OnceUnlock
  PROVE  OnceInv'
<1> DEFINE r == running
<1> USE OnceIsMutex
<1>1. /\ UserMode /\ r \in Thread /\ cont[r] = User
      /\ place[r] = "unlock" /\ CsMutexUnlock(Once)
      /\ place' = [place EXCEPT ![r] = IF owner[Once] = r THEN "back" ELSE "out"]
      /\ held' = [held EXCEPT ![r] = @ \ {Once}]
      /\ onceDone' = onceDone /\ routine' = routine
  BY RunningFacts DEF OnceUnlock, In, Caller, Go, UserMode, OnceInv, MutexInv, OfferInv
<1>2. onceDone
  BY <1>1 DEF OnceInv, OnceGuard
<1>3. MutexInv'
  BY <1>1, UnlockStep DEF OnceInv, MutexInv, Kept
<1>4. cont' = cont
  BY <1>1 DEF CsMutexUnlock, coreVars
<1>5. /\ place' \in [Thread -> OncePlace] /\ place'[r] \in {"back", "out"}
      /\ \A t \in Thread \ {r} : place'[t] = place[t]
  BY <1>1 DEF OnceInv, OncePlace
<1>6. ASSUME NEW t \in Thread PROVE OnceGuard(t)'
  <2>1. OnceGuard(t)
    BY DEF OnceInv
  <2> QED BY <2>1, <1>1, <1>2, <1>4, <1>5 DEF OnceGuard
<1>7. OnceCounted'
  BY <1>1, <1>2 DEF OnceInv, OnceCounted
<1> QED BY <1>1, <1>2, <1>3, <1>5, <1>6, <1>7 DEF OnceInv

\* Looking at done, and the routine with the store of done after it.
LEMMA OnceGoesOn ==
  ASSUME OnceInv, OnceCall \/ OnceLook \/ RoutineEnds \/ OnceStore
  PROVE  OnceInv'
<1> DEFINE r == running
<1>1. /\ UserMode /\ r \in Thread /\ UNCHANGED <<coreVars, mutexVars>>
      /\ cont[r] = User /\ User # Await("lock", Once)
  BY RunningFacts, OnceIsMutex
  DEF OnceCall, OnceLook, RoutineEnds, OnceStore, In, Caller, UserMode, OnceInv, MutexInv,
    OfferInv
<1>2. /\ OnceGuard(r) /\ onceDone \in BOOLEAN /\ place \in [Thread -> OncePlace] /\ OnceCounted
      /\ \A t \in Thread : OnceGuard(t)
      /\ \A p \in {"back", "lock", "run", "unlock", "store"} : p \in OncePlace
  BY <1>1 DEF OnceInv, OncePlace
<1>3. ASSUME NEW t \in Thread \ {r}, place[t] \in {"run", "store"},
             place[r] \in {"look", "run", "store"}
      PROVE  FALSE
  <2>1. ~onceDone /\ cont[t] # Await("lock", Once)
    BY <1>2, <1>3 DEF OnceGuard
  <2>2. owner[Once] = t /\ owner[Once] = r
    BY <1>1, <1>2, <1>3, <2>1 DEF OnceGuard
  <2> QED BY <2>2
<1>4. ASSUME NEW p \in OncePlace, Go(p)
      PROVE  place'[r] = p /\ \A t \in Thread \ {r} : place'[t] = place[t]
  BY <1>1, <1>2, <1>4 DEF Go
<1>5. CASE OnceCall
  <2>1. /\ onceDone' = onceDone /\ routine' = routine /\ place[r] \in {"out", "back"}
        /\ (onceDone /\ Go("back")) \/ (~onceDone /\ Go("lock"))
    BY <1>5, <1>2 DEF OnceCall, In
  <2>2. OnceCounted'
    BY <1>1, <1>2, <1>4, <2>1 DEF OnceCounted
  <2>3. \A t \in Thread \ {r} : onceDone => place[t] \notin {"run", "store"}
    BY <1>2 DEF OnceGuard
  <2>4. CASE onceDone /\ Go("back")
    BY <1>1, <1>2, <2>1, <2>2, <2>3, <2>4, OnceGoes
  <2>5. CASE ~onceDone /\ Go("lock")
    BY <1>1, <1>2, <2>1, <2>2, <2>5, OnceGoes
  <2> QED BY <2>1, <2>4, <2>5
<1>6. CASE OnceLook
  <2>1. /\ onceDone' = onceDone /\ place[r] = "look"
        /\ \/ onceDone /\ Go("unlock") /\ routine' = routine
           \/ ~onceDone /\ Go("run") /\ routine' = [routine EXCEPT !.started = @ + 1]
    BY <1>6, <1>2 DEF OnceLook, In
  <2>2. CASE onceDone /\ Go("unlock") /\ routine' = routine
    <3>1. OnceCounted'
      BY <1>1, <1>2, <2>1, <2>2 DEF OnceCounted
    <3>2. \A t \in Thread \ {r} : onceDone => place[t] \notin {"run", "store"}
      BY <1>2 DEF OnceGuard
    <3> QED BY <1>1, <1>2, <2>1, <2>2, <3>1, <3>2, OnceGoes
  <2>3. CASE ~onceDone /\ Go("run") /\ routine' = [routine EXCEPT !.started = @ + 1]
    <3>1. \A t \in Thread : place[t] \notin {"run", "store"}
      BY <1>3, <2>1
    <3>2. routine = [started |-> 0, ended |-> 0]
      BY <1>2, <2>3, <3>1 DEF OnceCounted
    <3>3. routine' = [started |-> 1, ended |-> 0]
      BY <2>3, <3>2
    <3>4. place'[r] = "run" /\ \A t \in Thread : place'[t] # "store"
      BY <1>2, <1>4, <2>3, <3>1
    <3>5. OnceCounted'
      BY <1>1, <2>1, <2>3, <3>3, <3>4 DEF OnceCounted
    <3> QED BY <1>1, <1>2, <2>1, <2>3, <3>5, OnceGoes
  <2> QED BY <2>1, <2>2, <2>3
<1>7. CASE RoutineEnds
  <2>1. /\ onceDone' = onceDone /\ place[r] = "run" /\ Go("store")
        /\ routine' = [routine EXCEPT !.ended = @ + 1]
    BY <1>7 DEF RoutineEnds, In
  <2>2. ~onceDone /\ \A t \in Thread : place[t] # "store"
    BY <1>2, <1>3, <2>1 DEF OnceGuard
  <2>3. routine = [started |-> 1, ended |-> 0]
    BY <1>1, <1>2, <2>1, <2>2 DEF OnceCounted
  <2>4. routine' = [started |-> 1, ended |-> 1]
    BY <2>1, <2>3
  <2>5. place'[r] = "store"
    BY <1>2, <1>4, <2>1
  <2>6. OnceCounted'
    BY <1>1, <2>1, <2>2, <2>4, <2>5 DEF OnceCounted
  <2> QED BY <1>1, <1>2, <2>1, <2>2, <2>6, OnceGoes
<1>8. CASE OnceStore
  <2>1. onceDone' = TRUE /\ place[r] = "store" /\ Go("unlock") /\ routine' = routine
    BY <1>8 DEF OnceStore, In
  <2>2. ~onceDone
    BY <1>2, <2>1 DEF OnceGuard
  <2>3. routine = [started |-> 1, ended |-> 1]
    BY <1>1, <1>2, <2>1, <2>2 DEF OnceCounted
  <2>4. OnceCounted'
    BY <2>1, <2>3 DEF OnceCounted
  <2>5. \A t \in Thread \ {r} : place[t] \notin {"run", "store"}
    BY <1>3, <2>1
  <2> QED BY <1>1, <1>2, <2>1, <2>4, <2>5, OnceGoes
<1> QED BY <1>5, <1>6, <1>7, <1>8

\* Every step.
LEMMA OnceNextStep ==
  ASSUME OnceInv, [OnceNext]_ovars
  PROVE  OnceInv'
<1>1. CASE OnceStep
  BY <1>1, OnceLockStep, ResumeOnceStep, OnceUnlockStep, OnceGoesOn DEF OnceStep
<1>2. CASE (OtherMutexes \/ OnceSchedule) /\ UNCHANGED onceVars
  BY <1>2, ElsewhereStep
<1>3. CASE UNCHANGED ovars
  <2>1. UNCHANGED coreVars /\ UNCHANGED mutexVars /\ UNCHANGED onceVars
    BY <1>3 DEF ovars, coreVars, mutexVars, onceVars
  <2>2. MutexInv' /\ OnceFrame
    BY <2>1, MutexStutter DEF OnceInv, OnceFrame, coreVars, mutexVars
  <2> QED BY <2>1, <2>2, OnceFrameStep
<1> QED BY <1>1, <1>2, <1>3 DEF OnceNext

\* pthread_once starts its routine once, whichever threads look at done before
\* it is set, whatever they do with other mutexes and whoever takes the mutex
\* before the waiter it was offered to; and who returns 0 from it finds the
\* routine ended.
THEOREM RoutineRunsOnce == OnceSpec => []OnceOnly
<1>1. OnceInv /\ [OnceNext]_ovars => OnceInv'
  BY OnceNextStep
<1>2. OnceInv => OnceOnly
  <2> SUFFICES ASSUME OnceInv PROVE OnceOnly
    OBVIOUS
  <2>1. routine.started <= 1
    BY DEF OnceInv, OnceCounted
  <2>2. ASSUME NEW t \in Thread, place[t] = "back" PROVE routine.ended = 1
    BY <2>2 DEF OnceInv, OnceGuard, OnceCounted
  <2> QED BY <2>1, <2>2 DEF OnceOnly
<1> QED BY <1>1, <1>2, OnceInitial, PTL DEF OnceSpec
=============================================================================
