------------------------- MODULE BufferedUartProofs -------------------------
(***************************************************************************)
(* The semaphores of TinyThreads and the driver of the buffered UART that  *)
(* waits with them, for any number of threads, semaphores and priorities   *)
(* and FIFOs of any depth.                                                 *)
(***************************************************************************)
EXTENDS BufferedUart, TthCoreProofs

-----------------------------------------------------------------------------
(* Semaphores *)

SemInv == CoreInv /\ SemTypeOK /\ NoIdleToken /\ SemWaitersLinked

\* A semaphore has a list of waiters, which is not that of the sleepers.
LEMMA SemLists == \A s \in Sem : s \in WaitList \ {Sleeping} /\ s \in Lists /\ s # Ready
  BY SemAssumption, ListNames

\* Waiting for a semaphore is neither being outside the library nor waiting
\* for another one.
LEMMA SemIsNotUser ==
  \A r, s \in Sem : Await("sem", s) # User /\ (Await("sem", r) = Await("sem", s) => r = s)
  BY DEF Await, User

\* There are finitely many waiters.
LEMMA SuspendedFinite ==
  ASSUME NEW s \in Sem, NEW X
  PROVE  IsFiniteSet(Suspended(s) \ X) /\ Cardinality(Suspended(s) \ X) \in Nat
<1>1. Suspended(s) \ X \subseteq Thread
  BY DEF Suspended
<1> QED
  BY <1>1, CoreAssumption, FS_Subset, FS_CardinalityType

\* A post gives a token: to the first waiter, who keeps it from then on, or to
\* the count.
LEMMA PostStep ==
  ASSUME SemInv, NEW s \in Sem, Post(s)
  PROVE  SemInv' /\ Counting!Post(s)
<1> USE SemLists DEF SemInv
<1>1. CASE list[s] # <<>> /\ Wake(s) /\ UNCHANGED <<cont, value>>
  <2> DEFINE h == Head(list[s])
  <2>1. cont' \in [Thread -> Continuation] /\ cont' = cont /\ value' = value
    BY <1>1 DEF CoreInv, CoreTypeOK
  <2>2. /\ CoreInv' /\ \A l \in Lists \ {s, Ready} : list'[l] = list[l]
        /\ h \in ToSet(list[s])
        /\ ToSet(list'[Ready]) = ToSet(list[Ready]) \cup {h}
        /\ ToSet(list'[s]) = ToSet(list[s]) \ {h}
    BY <1>1, <2>1, WakeFacts
  <2>3. value[s] = 0 /\ h \in Suspended(s) /\ h \in Thread
    <3>1. h \in Thread
      BY <1>1, HeadTailProperties DEF CoreInv, CoreTypeOK
    <3> QED
      BY <1>1, <2>2, <3>1 DEF NoIdleToken, SemTypeOK, SemWaitersLinked, Suspended
  <2>4. SemInv'
    <3>1. SemTypeOK'
      BY <2>1, <2>2 DEF SemTypeOK, CoreInv
    <3>2. NoIdleToken'
      <4> SUFFICES ASSUME NEW r \in Sem, value'[r] > 0 PROVE list'[r] = <<>>
        BY DEF NoIdleToken
      <4>1. r # s
        BY <2>1, <2>3
      <4> QED BY <4>1, <2>1, <2>2 DEF NoIdleToken
    <3>3. SemWaitersLinked'
      <4> SUFFICES ASSUME NEW t \in Thread, NEW r \in Sem
                   PROVE  /\ t \in ToSet(list'[r]) => cont'[t] = Await("sem", r)
                          /\ cont'[t] = Await("sem", r) => t \in ToSet(list'[r]) \cup ToSet(list'[Ready])
        BY DEF SemWaitersLinked
      <4>1. /\ t \in ToSet(list[r]) => cont[t] = Await("sem", r)
            /\ cont[t] = Await("sem", r) => t \in ToSet(list[r]) \cup ToSet(list[Ready])
        BY DEF SemWaitersLinked
      <4> QED BY <4>1, <2>1, <2>2
    <3> QED BY <2>2, <3>1, <3>2, <3>3
  <2>5. \A r \in Sem : Suspended(r)' = Suspended(r)
    BY <2>1 DEF Suspended
  <2>6. \A r \in Sem \ {s} : Tokens(r)' = Tokens(r)
    BY <2>1, <2>2, <2>5 DEF Tokens
  <2>7. Tokens(s)' = Tokens(s) + 1
    <3> DEFINE A == Suspended(s) \ ToSet(list[s])
    <3>0. Tokens(s)' = value'[s] + Cardinality(Suspended(s)' \ ToSet(list'[s])) /\ Tokens(s) = value[s] + Cardinality(A)
      BY DEF Tokens
    <3>1. Suspended(s)' \ ToSet(list'[s]) = A \cup {h} /\ h \notin A
      BY <2>2, <2>3, <2>5
    <3>2. IsFiniteSet(A) /\ Cardinality(A) \in Nat
      BY SuspendedFinite
    <3> HIDE DEF A
    <3>3. Cardinality(A \cup {h}) = Cardinality(A) + 1
      BY <3>1, <3>2, FS_AddElement
    <3>4. value[s] \in Nat /\ value'[s] = value[s]
      BY <2>1, SemAssumption DEF SemTypeOK
    <3>5. Tokens(s)' = value[s] + (Cardinality(A) + 1)
      BY <3>0, <3>1, <3>3, <3>4
    <3> QED BY <3>0, <3>2, <3>4, <3>5
  <2> QED BY <2>4, <2>5, <2>6, <2>7 DEF Counting!Post
<1>2. CASE list[s] = <<>> /\ value[s] # SEM_VALUE_MAX /\ value' = [value EXCEPT ![s] = @ + 1] /\ UNCHANGED coreVars
  <2>1. CoreInv' /\ UNCHANGED coreVars
    BY <1>2, CoreStutter
  <2>2. SemTypeOK'
    BY <1>2, <2>1, SemAssumption DEF SemTypeOK, CoreInv
  <2>3. SemInv'
    BY <1>2, <2>1, <2>2 DEF coreVars, NoIdleToken, SemWaitersLinked, SemTypeOK
  <2>4. \A r \in Sem : Suspended(r)' = Suspended(r) /\ list'[r] = list[r]
    BY <2>1 DEF Suspended, coreVars
  <2>5. \A r \in Sem : Tokens(r)' = IF r = s THEN Tokens(r) + 1 ELSE Tokens(r)
    <3> SUFFICES ASSUME NEW r \in Sem PROVE Tokens(r)' = IF r = s THEN Tokens(r) + 1 ELSE Tokens(r)
      OBVIOUS
    <3> DEFINE n == Cardinality(Suspended(r) \ ToSet(list[r]))
    <3>1. n \in Nat
      BY SuspendedFinite
    <3>2. Tokens(r)' = value'[r] + n /\ Tokens(r) = value[r] + n
      BY <2>4 DEF Tokens
    <3>3. value[r] \in Nat /\ value'[r] = IF r = s THEN value[r] + 1 ELSE value[r]
      BY <1>2, SemAssumption DEF SemTypeOK
    <3> HIDE DEF n
    <3> QED BY <3>1, <3>2, <3>3
  <2> QED BY <2>3, <2>4, <2>5 DEF Counting!Post
<1> QED BY <1>1, <1>2 DEF Post

\* A wait takes a token, or suspends the caller; sem_trywait takes one.
LEMMA WaitStep ==
  ASSUME SemInv, NEW s \in Sem, sem_wait(s) \/ sem_trywait(s)
  PROVE  SemInv' /\ (Counting!Take(s) \/ Counting!Wait(s, running))
<1> USE SemLists DEF SemInv
<1>1. CASE value[s] > 0 /\ value' = [value EXCEPT ![s] = @ - 1] /\ UNCHANGED coreVars
  <2>1. CoreInv' /\ UNCHANGED coreVars
    BY <1>1, CoreStutter
  <2>2. SemTypeOK'
    BY <1>1, <2>1, SemAssumption DEF SemTypeOK, CoreInv
  <2>3. NoIdleToken'
    <3> SUFFICES ASSUME NEW r \in Sem, value'[r] > 0 PROVE list'[r] = <<>>
      BY DEF NoIdleToken
    <3>1. value[r] > 0
      BY <1>1, SemAssumption DEF SemTypeOK
    <3> QED BY <3>1, <2>1 DEF NoIdleToken, coreVars
  <2>4. SemInv'
    BY <2>1, <2>2, <2>3 DEF coreVars, SemWaitersLinked
  <2>5. \A r \in Sem : Suspended(r)' = Suspended(r) /\ list'[r] = list[r]
    BY <2>1 DEF Suspended, coreVars
  <2>6. Tokens(s) > 0 /\ \A r \in Sem : Tokens(r)' = IF r = s THEN Tokens(r) - 1 ELSE Tokens(r)
    <3> SUFFICES ASSUME NEW r \in Sem
                 PROVE  Tokens(s) > 0 /\ Tokens(r)' = IF r = s THEN Tokens(r) - 1 ELSE Tokens(r)
      OBVIOUS
    <3> DEFINE n(q) == Cardinality(Suspended(q) \ ToSet(list[q]))
    <3>1. n(r) \in Nat /\ n(s) \in Nat
      BY SuspendedFinite
    <3>2. Tokens(r)' = value'[r] + n(r) /\ Tokens(r) = value[r] + n(r) /\ Tokens(s) = value[s] + n(s)
      BY <2>5 DEF Tokens
    <3>3. value[r] \in Nat /\ value[s] \in Nat /\ value'[r] = IF r = s THEN value[r] - 1 ELSE value[r]
      BY <1>1, SemAssumption DEF SemTypeOK
    <3> HIDE DEF n
    <3> QED BY <3>1, <3>2, <3>3, <1>1
  <2> QED BY <2>4, <2>5, <2>6 DEF Counting!Take
<1>2. CASE sem_wait(s) /\ Block(s, "sem", "sem") /\ value[s] <= 0 /\ UNCHANGED value
  <2>1. /\ intLevel = 0 /\ running \in Thread \ {Idle} /\ cont[running] = User
        /\ running \in ToSet(list[Ready]) /\ \A l \in WaitList : running \notin ToSet(list[l])
    BY <1>2, RunningFacts DEF sem_wait, Caller, UserMode
  <2>2. /\ CoreInv' /\ \A l \in Lists \ {s, Ready} : list'[l] = list[l]
        /\ ToSet(list'[s]) = ToSet(list[s]) \cup {running}
        /\ ToSet(list'[Ready]) = ToSet(list[Ready]) \ {running}
    BY <1>2, <2>1, BlockFacts DEF WaitState, Ops, CsOps
  <2>3. cont'[running] = Await("sem", s) /\ \A t \in Thread \ {running} : cont'[t] = cont[t]
    BY <1>2, <2>1 DEF Block, CoreInv, CoreTypeOK
  <2>4. SemInv'
    <3>1. SemTypeOK'
      BY <1>2, <2>2 DEF SemTypeOK, CoreInv
    <3>2. NoIdleToken'
      <4> SUFFICES ASSUME NEW r \in Sem, value'[r] > 0 PROVE list'[r] = <<>>
        BY DEF NoIdleToken
      <4>1. r # s
        BY <1>2, SemAssumption DEF SemTypeOK
      <4> QED BY <4>1, <1>2, <2>2 DEF NoIdleToken
    <3>3. SemWaitersLinked'
      <4> SUFFICES ASSUME NEW t \in Thread, NEW r \in Sem
                   PROVE  /\ t \in ToSet(list'[r]) => cont'[t] = Await("sem", r)
                          /\ cont'[t] = Await("sem", r) => t \in ToSet(list'[r]) \cup ToSet(list'[Ready])
        BY DEF SemWaitersLinked
      <4>1. /\ t \in ToSet(list[r]) => cont[t] = Await("sem", r)
            /\ cont[t] = Await("sem", r) => t \in ToSet(list[r]) \cup ToSet(list[Ready])
        BY DEF SemWaitersLinked
      <4>2. CASE t = running
        BY <4>2, <2>1, <2>2, <2>3, SemIsNotUser
      <4>3. CASE t # running
        BY <4>1, <4>3, <2>2, <2>3
      <4> QED BY <4>2, <4>3
    <3> QED BY <2>2, <3>1, <3>2, <3>3
  <2>5. /\ Suspended(s)' = Suspended(s) \cup {running}
        /\ \A r \in Sem : running \notin Suspended(r) /\ (r # s => Suspended(r)' = Suspended(r))
    BY <2>1, <2>3, SemIsNotUser DEF Suspended
  <2>6. \A r \in Sem : Tokens(r)' = Tokens(r)
    <3> SUFFICES ASSUME NEW r \in Sem PROVE Tokens(r)' = Tokens(r)
      OBVIOUS
    <3>1. Suspended(r)' \ ToSet(list'[r]) = Suspended(r) \ ToSet(list[r])
      BY <2>1, <2>2, <2>5
    <3> QED BY <3>1, <1>2 DEF Tokens
  <2> QED BY <2>4, <2>5, <2>6 DEF Counting!Wait
<1> QED
  BY <1>1, <1>2 DEF sem_wait, sem_trywait

\* A readied waiter returns with the token that it was given.
LEMMA ResumeStep ==
  ASSUME SemInv, NEW s \in Sem, ResumeSemWait(s)
  PROVE  SemInv' /\ Counting!Return(s, running)
<1> USE SemLists DEF SemInv
<1>1. /\ running \in Thread /\ cont[running] = Await("sem", s)
      /\ \A l \in WaitList : running \notin ToSet(list[l])
  BY RunningFacts DEF ResumeSemWait, Continues
<1>2. /\ cont'[running] = User /\ \A t \in Thread \ {running} : cont'[t] = cont[t]
      /\ cont' \in [Thread -> Continuation]
      /\ UNCHANGED <<list, running, waitstate, intLevel, ticked, value>>
  BY <1>1 DEF ResumeSemWait, CoreInv, CoreTypeOK, User, Continuation, Ops
<1>3. SemInv'
  <2>1. CoreInv' /\ SemTypeOK'
    BY <1>2 DEF CoreInv, CoreTypeOK, OneList, ListsOrdered, IdleReady, RunningIsHead, SemTypeOK
  <2>2. SemWaitersLinked'
    <3> SUFFICES ASSUME NEW t \in Thread, NEW r \in Sem
                 PROVE  /\ t \in ToSet(list'[r]) => cont'[t] = Await("sem", r)
                        /\ cont'[t] = Await("sem", r) => t \in ToSet(list'[r]) \cup ToSet(list'[Ready])
      BY DEF SemWaitersLinked
    <3>1. CASE t = running
      BY <3>1, <1>1, <1>2, SemIsNotUser
    <3>2. CASE t # running
      BY <3>2, <1>2 DEF SemWaitersLinked
    <3> QED BY <3>1, <3>2
  <2> QED BY <2>1, <2>2, <1>2 DEF NoIdleToken
<1>4. /\ running \in Suspended(s) /\ Suspended(s)' = Suspended(s) \ {running}
      /\ \A r \in Sem \ {s} : Suspended(r)' = Suspended(r)
  BY <1>1, <1>2, SemIsNotUser DEF Suspended
<1>5. Tokens(s) > 0 /\ Tokens(s)' = Tokens(s) - 1
  <2> DEFINE A == Suspended(s) \ ToSet(list[s])
  <2>1. Tokens(s)' = value[s] + Cardinality(A \ {running}) /\ Tokens(s) = value[s] + Cardinality(A)
    <3>1. Suspended(s)' \ ToSet(list'[s]) = A \ {running}
      BY <1>2, <1>4
    <3> QED BY <3>1, <1>2 DEF Tokens
  <2>2. running \in A
    BY <1>1, <1>4
  <2>3. IsFiniteSet(A) /\ Cardinality(A) \in Nat /\ Cardinality(A \ {running}) \in Nat
    <3>1. Cardinality((Suspended(s) \ (ToSet(list[s]) \cup {running}))) \in Nat
      BY SuspendedFinite
    <3>2. A \ {running} = Suspended(s) \ (ToSet(list[s]) \cup {running})
      OBVIOUS
    <3> QED BY <3>1, <3>2, SuspendedFinite
  <2>4. value[s] \in Nat
    BY SemAssumption DEF SemTypeOK
  <2> HIDE DEF A
  <2>5. Cardinality(A \ {running}) = Cardinality(A) - 1
    BY <2>2, <2>3, FS_RemoveElement
  <2> QED BY <2>1, <2>3, <2>4, <2>5
<1>6. \A r \in Sem \ {s} : Tokens(r)' = Tokens(r)
  BY <1>2, <1>4 DEF Tokens
<1> QED BY <1>1, <1>3, <1>4, <1>5, <1>6 DEF Counting!Return

\* The scheduler moves no waiter and no token.
LEMMA SemSchedulerStep ==
  ASSUME SemInv, CoreNext \/ UNCHANGED coreVars, UNCHANGED value
  PROVE  SemInv' /\ UNCHANGED Counting!svars
<1> USE SemLists DEF SemInv
<1>1. CoreInv' /\ CoreFrame
  BY CoreStep, CoreStutter
<1>2. /\ cont' = cont /\ \A s \in Sem : list'[s] = list[s]
      /\ \A t \in ToSet(list[Ready]) : cont[t] # User => t \in ToSet(list'[Ready])
  BY <1>1 DEF CoreFrame
<1>3. SemTypeOK' /\ NoIdleToken'
  BY <1>1, <1>2 DEF SemTypeOK, NoIdleToken, CoreInv
<1>4. SemWaitersLinked'
  <2> SUFFICES ASSUME NEW t \in Thread, NEW r \in Sem
               PROVE  /\ t \in ToSet(list'[r]) => cont'[t] = Await("sem", r)
                      /\ cont'[t] = Await("sem", r) => t \in ToSet(list'[r]) \cup ToSet(list'[Ready])
    BY DEF SemWaitersLinked
  <2>1. /\ t \in ToSet(list[r]) => cont[t] = Await("sem", r)
        /\ cont[t] = Await("sem", r) => t \in ToSet(list[r]) \cup ToSet(list[Ready])
    BY DEF SemWaitersLinked
  <2> QED BY <1>2, <2>1, SemIsNotUser
<1>5. \A s \in Sem : Suspended(s)' = Suspended(s) /\ Tokens(s)' = Tokens(s)
  BY <1>2 DEF Suspended, Tokens
<1> QED BY <1>1, <1>3, <1>4, <1>5 DEF Counting!svars

\* Every step keeps the invariant and is one of the abstract semaphore, or none.
LEMMA SemNextStep == SemInv /\ [SemNext]_semVars => SemInv' /\ [Counting!Next]_Counting!svars
<1> SUFFICES ASSUME SemInv, [SemNext]_semVars PROVE SemInv' /\ [Counting!Next]_Counting!svars
  OBVIOUS
<1>1. ASSUME NEW s \in Sem, sem_post(s) \/ IsrPost(s) PROVE SemInv' /\ Counting!Next
  BY <1>1, PostStep DEF sem_post, IsrPost, Counting!Next
<1>2. ASSUME NEW s \in Sem, sem_wait(s) \/ sem_trywait(s) \/ ResumeSemWait(s) PROVE SemInv' /\ Counting!Next
  <2>1. running \in Thread
    BY <1>2, RunningFacts DEF SemInv, sem_wait, sem_trywait, ResumeSemWait, Caller, UserMode, Continues
  <2> QED BY <1>2, <2>1, WaitStep, ResumeStep DEF Counting!Next
<1>3. CASE (CoreNext \/ UNCHANGED coreVars) /\ UNCHANGED value
  BY <1>3, SemSchedulerStep
<1>4. UNCHANGED semVars => UNCHANGED coreVars /\ UNCHANGED value
  BY DEF semVars, coreVars
<1> QED BY <1>1, <1>2, <1>3, <1>4 DEF SemNext, SemStep

\* At the start nobody waits.
LEMMA SemInitial == SemInit => SemInv /\ Counting!Init
<1> SUFFICES ASSUME SemInit PROVE SemInv /\ Counting!Init
  OBVIOUS
<1>1. CoreInv
  BY CoreInitial DEF SemInit
<1>2. /\ value = [s \in Sem |-> InitialValue] /\ cont = [t \in Thread |-> User]
      /\ \A s \in Sem : list[s] = <<>>
  BY SemLists DEF SemInit, AllReady, CoreInit, ReadyQueues
<1>3. SemTypeOK /\ NoIdleToken
  BY <1>1, <1>2, SemAssumption DEF SemTypeOK, NoIdleToken, CoreInv
<1>4. SemWaitersLinked
  BY <1>2, SemIsNotUser DEF SemWaitersLinked, ToSet
<1>5. ASSUME NEW s \in Sem PROVE Suspended(s) = {} /\ Tokens(s) = InitialValue
  <2>1. Suspended(s) = {}
    BY <1>2, SemIsNotUser DEF Suspended
  <2>2. Suspended(s) \ ToSet(list[s]) = {}
    BY <2>1
  <2> QED BY <2>1, <2>2, <1>2, SemAssumption, FS_EmptySet DEF Tokens
<1> QED BY <1>1, <1>3, <1>4, <1>5 DEF SemInv, Counting!Init

\* Types, the sound scheduler, no token idle while a thread waits, and every
\* waiter linked, for every number of threads and semaphores.
THEOREM SemaphoresCorrect == SemSpec => []SemInv
<1>1. SemInv /\ [SemNext]_semVars => SemInv'
  BY SemNextStep
<1> QED BY <1>1, SemInitial, PTL DEF SemSpec

\* sem_post and sem_wait, with their handoff to the first waiter and the posts
\* of interrupt handlers, implement the counting semaphore.
THEOREM SemaphoresCount == SemSpec => ImplementsSemaphore
  BY SemaphoresCorrect, SemInitial, SemNextStep, PTL DEF SemSpec, ImplementsSemaphore, Counting!Spec

-----------------------------------------------------------------------------
(* The driver *)

\* The thread that may wait for the semaphore of a cause, and where it is
\* between the enabling of the cause and the wait.
WaiterOf(c) == IF c = "RXNE" THEN Reader ELSE Writer
PendOf(c) == CASE c = "RXNE" -> "readpend" [] c = "TXNF" -> "writepend" [] c = "TXE" -> "closepend"

ReadPlaces  == {"read", "readarm", "readpend"}
WritePlaces == {"write", "writepend", "close", "closearm", "closepend"}

\* Only the reader reads, and only the writer writes and closes.
CallsOwned ==
  \A t \in Thread :
    /\ call[t].at \in ReadPlaces => t = Reader
    /\ call[t].at \in WritePlaces => t = Writer

\* A transfer under way has bytes left.
BytesLeft == \A t \in Thread : call[t].at \in ReadPlaces \cup {"write", "writepend"} => call[t].left > 0

\* Each semaphore of the driver has one waiter at most, which goes on behind
\* the wait.
OneWaiter ==
  \A c \in Causes : \A t \in ToSet(list[SemOf[c]]) : t = WaiterOf(c) /\ call[t].at # PendOf(c)

\* A thread that is about to wait will find a token, or can count on the
\* handler.
PendArmed ==
  \A c \in Causes :
    call[WaiterOf(c)].at = PendOf(c) => c \in intr \cup due \/ value[SemOf[c]] > 0

UartInv ==
  /\ SemInv /\ UartTypeOK
  /\ CallsOwned /\ BytesLeft /\ OneWaiter /\ PendArmed /\ WaiterArmed

\* A list without elements is empty.
LEMMA NoElements == ASSUME NEW q \in Seq(Thread), ToSet(q) = {} PROVE q = <<>>
  BY TailElements

\* The semaphores of the causes, and who waits for them.
LEMMA CauseFacts ==
  /\ \A c \in Causes : SemOf[c] \in Sem /\ WaiterOf(c) \in Thread
  /\ \A c, d \in Causes : SemOf[c] = SemOf[d] => c = d
  /\ \A c, d \in Causes : PendOf(c) = PendOf(d) => c = d
<1>1. DOMAIN SemOf = Causes
  BY UartAssumption
<1>2. \A c, d \in Causes : SemOf[c] = SemOf[d] => c = d
  BY <1>1, UartAssumption DEF IsInjective
<1>3. \A c, d \in Causes : PendOf(c) = PendOf(d) => c = d
  BY DEF PendOf, Causes
<1> QED BY <1>2, <1>3, UartAssumption DEF WaiterOf

\* An operation on one semaphore leaves the others alone.
LEMMA SemFrame ==
  ASSUME SemInv, NEW s \in Sem, Post(s) \/ sem_wait(s) \/ sem_trywait(s)
  PROVE  \A r \in Sem \ {s} : list'[r] = list[r] /\ value'[r] = value[r]
<1> USE SemLists DEF SemInv
<1>1. CASE UNCHANGED coreVars /\ \E n : value' = [value EXCEPT ![s] = n]
  BY <1>1 DEF coreVars, SemTypeOK
<1>2. CASE Wake(s) /\ UNCHANGED <<cont, value>>
  <2>1. cont' \in [Thread -> Continuation]
    BY <1>2 DEF CoreInv, CoreTypeOK
  <2> QED BY <1>2, <2>1, WakeFacts
<1>3. CASE Block(s, "sem", "sem") /\ UNCHANGED value /\ sem_wait(s)
  <2>1. intLevel = 0 /\ running # Idle
    BY <1>3 DEF sem_wait, Caller, UserMode
  <2> QED BY <1>3, <2>1, BlockFacts DEF WaitState, Ops, CsOps
<1> QED BY <1>1, <1>2, <1>3 DEF Post, sem_wait, sem_trywait

Calls == [at : Places, left : 0..MaxLen, some : BOOLEAN, nonblock : BOOLEAN]

\* A step of a thread within the driver that does not touch the semaphores.
LEMMA LocalStep ==
  ASSUME UartInv, UNCHANGED <<semVars, due>>, intr \subseteq intr', intr' \subseteq Causes,
         rx' \in 0..Depth, tx' \in 0..Depth,
         NEW t \in Thread, \A l \in WaitList : t \notin ToSet(list[l]),
         call' \in [Thread -> Calls], \A u \in Thread \ {t} : call'[u] = call[u],
         call'[t].at \in ReadPlaces => t = Reader, call'[t].at \in WritePlaces => t = Writer,
         call'[t].at \in ReadPlaces \cup {"write", "writepend"} => call'[t].left > 0,
         \A c \in Causes : call'[t].at = PendOf(c) => c \in intr'
  PROVE  UartInv'
<1> USE DEF UartInv
<1>1. UNCHANGED coreVars /\ value' = value /\ list' = list
  BY DEF semVars, coreVars
<1>2. SemInv'
  BY <1>1, SemNextStep DEF semVars
<1>4. UartTypeOK'
  BY <1>2 DEF UartTypeOK, SemInv, Calls
<1>5. CallsOwned' /\ BytesLeft'
  BY DEF CallsOwned, BytesLeft
<1>6. OneWaiter'
  BY <1>1, CauseFacts, SemLists DEF OneWaiter
<1>7. PendArmed'
  <2> SUFFICES ASSUME NEW c \in Causes, call'[WaiterOf(c)].at = PendOf(c)
               PROVE  c \in intr' \cup due' \/ value'[SemOf[c]] > 0
    BY DEF PendArmed
  <2>1. CASE WaiterOf(c) = t
    BY <2>1
  <2>2. CASE WaiterOf(c) # t
    BY <2>2, <1>1, CauseFacts DEF PendArmed
  <2> QED BY <2>1, <2>2
<1>8. WaiterArmed'
  BY <1>1 DEF WaiterArmed
<1> QED BY <1>2, <1>4, <1>5, <1>6, <1>7, <1>8

\* A thread in the driver.
LEMMA AtFacts ==
  ASSUME UartInv, NEW p, At(p)
  PROVE  /\ running \in Thread /\ \A l \in WaitList : running \notin ToSet(list[l])
         /\ call \in [Thread -> Calls] /\ call[running].at = p
         /\ rx \in 0..Depth /\ tx \in 0..Depth /\ intr \subseteq Causes
         /\ p \in ReadPlaces => running = Reader
         /\ p \in WritePlaces => running = Writer
<1>1. running \in Thread /\ \A l \in WaitList : running \notin ToSet(list[l])
  BY RunningFacts DEF UartInv, SemInv, At, UserMode
<1>2. call[running].at = p
  BY DEF At
<1>3. call \in [Thread -> Calls] /\ rx \in 0..Depth /\ tx \in 0..Depth /\ intr \subseteq Causes
  BY DEF UartInv, UartTypeOK, Calls
<1>4. (p \in ReadPlaces => running = Reader) /\ (p \in WritePlaces => running = Writer)
  BY <1>1, <1>2 DEF UartInv, CallsOwned
<1> QED BY <1>1, <1>2, <1>3, <1>4

\* A call is entered.
LEMMA EnterStep == ASSUME UartInv, CallRead \/ CallWrite \/ CallClose PROVE UartInv'
<1>1. At("out") /\ UNCHANGED <<semVars, rx, tx, intr, due>>
  BY DEF CallRead, CallWrite, CallClose
<1>2. PICK p \in {"read", "write", "close"}, n \in 0..MaxLen, nb \in BOOLEAN :
        /\ call' = [call EXCEPT ![running] = [at |-> p, left |-> n, some |-> FALSE, nonblock |-> nb]]
        /\ p # "close" => n > 0
        /\ p = "read" => running = Reader
        /\ p # "read" => running = Writer
  <2>0. 0 \in 0..MaxLen /\ \A n \in 1..MaxLen : n \in 0..MaxLen /\ n > 0
    BY UartAssumption
  <2>1. CASE CallRead
    <3>1. PICK n \in 1..MaxLen : Start("read", n)
      BY <2>1 DEF CallRead
    <3> QED BY <3>1, <2>0, <2>1 DEF CallRead, Start
  <2>2. CASE CallWrite
    <3>1. PICK n \in 1..MaxLen : Start("write", n)
      BY <2>2 DEF CallWrite
    <3> QED BY <3>1, <2>0, <2>2 DEF CallWrite, Start
  <2>3. CASE CallClose
    BY <2>0, <2>3 DEF CallClose, Start
  <2> QED BY <2>1, <2>2, <2>3
<1>3. running \in Thread /\ call \in [Thread -> Calls]
  BY <1>1, AtFacts
<1>4. /\ call' \in [Thread -> Calls] /\ \A u \in Thread \ {running} : call'[u] = call[u]
      /\ call'[running].at = p /\ call'[running].left = n
  BY <1>2, <1>3 DEF Calls, Places
<1>5. \A c \in Causes : call'[running].at # PendOf(c)
  BY <1>4 DEF Causes, PendOf
<1> QED BY <1>1, <1>2, <1>4, <1>5, AtFacts, LocalStep DEF ReadPlaces, WritePlaces

\* A byte is read or written.
LEMMA TransferStep == ASSUME UartInv, ReadByte \/ WriteByte PROVE UartInv'
<1>1. PICK p \in {"read", "write"} : At(p) /\ Advance(p)
  BY DEF ReadByte, WriteByte
<1>2. UNCHANGED <<semVars, intr, due>> /\ rx' \in 0..Depth /\ tx' \in 0..Depth
  BY AtFacts, UartAssumption DEF ReadByte, WriteByte
<1>3. running \in Thread /\ call \in [Thread -> Calls] /\ call[running].at = p
  BY <1>1, AtFacts
<1>4. call[running].left \in 1..MaxLen
  <2>1. call[running].left > 0
    BY <1>3 DEF UartInv, BytesLeft, ReadPlaces
  <2>2. call[running].left \in 0..MaxLen
    BY <1>3 DEF Calls
  <2> QED BY <2>1, <2>2, UartAssumption
<1>5. /\ call' \in [Thread -> Calls] /\ \A u \in Thread \ {running} : call'[u] = call[u]
      /\ call'[running].at \in {p, "out"}
      /\ call'[running].at = p => call'[running].left > 0
  <2>1. CASE call[running].left = 1
    <3>1. call' = [call EXCEPT ![running] = NoCall]
      BY <2>1, <1>1 DEF Advance, Return
    <3>2. NoCall \in Calls /\ NoCall.at = "out"
      BY UartAssumption DEF NoCall, Calls, Places
    <3> QED BY <3>1, <3>2, <1>3
  <2>2. CASE call[running].left # 1
    <3>1. call' = [call EXCEPT ![running].at = p, ![running].left = @ - 1, ![running].some = TRUE]
      BY <2>2, <1>1 DEF Advance
    <3>2. \A n \in 1..MaxLen : n # 1 => n - 1 \in 0..MaxLen /\ n - 1 > 0
      BY UartAssumption
    <3> QED BY <3>1, <3>2, <2>2, <1>3, <1>4 DEF Calls, Places
  <2> QED BY <2>1, <2>2
<1>6. \A c \in Causes : call'[running].at # PendOf(c)
  BY <1>5 DEF Causes, PendOf
<1>7. /\ p = "read" => running = Reader
      /\ p = "write" => running = Writer
      /\ intr \subseteq Causes /\ \A l \in WaitList : running \notin ToSet(list[l])
  <2>1. /\ intr \subseteq Causes
        /\ \A l \in WaitList : running \notin ToSet(list[l])
        /\ p \in ReadPlaces => running = Reader
        /\ p \in WritePlaces => running = Writer
    BY <1>1, AtFacts
  <2> QED BY <2>1 DEF ReadPlaces, WritePlaces
<1> QED BY <1>2, <1>3, <1>5, <1>6, <1>7, LocalStep DEF ReadPlaces, WritePlaces

\* A thread finds the FIFO empty or full, and enables the cause it waits for.
LEMMA ArmStep ==
  ASSUME UartInv, ReadEmpty \/ ReadArm \/ CloseArm \/ WriteFull \/ CloseEmpty \/ CloseBusy
  PROVE  UartInv'
<1>1. PICK p \in {"read", "readarm", "write", "close", "closearm"}, q \in Places \ {"out", "read", "write", "close"} :
        /\ At(p) /\ UNCHANGED <<semVars, rx, tx, due>>
        /\ \/ call' = [call EXCEPT ![running] = NoCall] /\ intr' = intr
           \/ /\ call' = [call EXCEPT ![running].at = q]
              /\ \/ p = "read" /\ q = "readarm" /\ intr' = intr
                 \/ p = "readarm" /\ q = "readpend" /\ intr' = intr \cup {"RXNE"}
                 \/ p = "write" /\ q = "writepend" /\ intr' = intr \cup {"TXNF"}
                 \/ p = "close" /\ q = "closearm" /\ intr' = intr
                 \/ p = "closearm" /\ q = "closepend" /\ intr' = intr \cup {"TXE"}
  <2> USE DEF Return, Goto, Enable, Places
  <2>1. CASE ReadEmpty
    BY <2>1 DEF ReadEmpty
  <2>2. CASE ReadArm
    BY <2>2 DEF ReadArm
  <2>3. CASE CloseArm
    BY <2>3 DEF CloseArm
  <2>4. CASE WriteFull
    BY <2>4 DEF WriteFull
  <2>5. CASE CloseEmpty
    BY <2>5 DEF CloseEmpty
  <2>6. CASE CloseBusy
    BY <2>6 DEF CloseBusy
  <2> QED BY <2>1, <2>2, <2>3, <2>4, <2>5, <2>6
<1>2. /\ running \in Thread /\ \A l \in WaitList : running \notin ToSet(list[l])
      /\ call \in [Thread -> Calls] /\ call[running].at = p
      /\ rx' \in 0..Depth /\ tx' \in 0..Depth
      /\ intr \subseteq intr' /\ intr' \subseteq Causes
      /\ p \in ReadPlaces => running = Reader /\ call[running].left > 0
      /\ p \in WritePlaces => running = Writer
      /\ p = "write" => call[running].left > 0
  <2>1. /\ running \in Thread /\ call[running].at = p
        /\ p \in ReadPlaces \cup {"write"} => call[running].left > 0
    BY <1>1, AtFacts DEF UartInv, BytesLeft
  <2>2. intr \subseteq intr' /\ intr' \subseteq Causes
    BY <1>1, AtFacts DEF Causes
  <2> QED BY <1>1, <2>1, <2>2, AtFacts
<1>3. /\ call' \in [Thread -> Calls] /\ \A u \in Thread \ {running} : call'[u] = call[u]
      /\ \/ call'[running].at = "out"
         \/ /\ call'[running].at = q /\ call'[running].left = call[running].left
            /\ \/ p = "read" /\ q = "readarm"
               \/ p = "readarm" /\ q = "readpend" /\ "RXNE" \in intr'
               \/ p = "write" /\ q = "writepend" /\ "TXNF" \in intr'
               \/ p = "close" /\ q = "closearm"
               \/ p = "closearm" /\ q = "closepend" /\ "TXE" \in intr'
  <2>1. CASE call' = [call EXCEPT ![running] = NoCall]
    BY <2>1, <1>2, UartAssumption DEF NoCall, Calls, Places
  <2>2. CASE call' = [call EXCEPT ![running].at = q]
    <3>1. call' \in [Thread -> Calls] /\ call'[running] = [call[running] EXCEPT !.at = q]
      BY <2>2, <1>2 DEF Calls
    <3>2. call'[running].at = q /\ call'[running].left = call[running].left
      BY <3>1, <1>2 DEF Calls
    <3>3. call' # [call EXCEPT ![running] = NoCall]
      BY <3>2, <1>2 DEF NoCall
    <3> QED BY <3>1, <3>2, <3>3, <2>2, <1>1
  <2> QED BY <2>1, <2>2, <1>1
<1>4. \A c \in Causes : call'[running].at = PendOf(c) => c \in intr'
  BY <1>3 DEF Causes, PendOf
<1>5. /\ call'[running].at \in ReadPlaces => running = Reader
      /\ call'[running].at \in WritePlaces => running = Writer
      /\ call'[running].at \in ReadPlaces \cup {"write", "writepend"} => call'[running].left > 0
  BY <1>2, <1>3 DEF ReadPlaces, WritePlaces
<1> QED BY <1>1, <1>2, <1>3, <1>4, <1>5, LocalStep

\* A thread waits for the semaphore of its cause, or finds its token.
LEMMA PendStep ==
  ASSUME UartInv, NEW c \in Causes, NEW loop \in {"read", "write", "close"},
         Pend(PendOf(c), c, loop),
         c = "RXNE" => loop = "read", c = "TXNF" => loop = "write", c = "TXE" => loop = "close"
  PROVE  UartInv'
<1> DEFINE s == SemOf[c]
<1> USE DEF UartInv
<1>1. /\ At(PendOf(c)) /\ sem_wait(s) /\ UNCHANGED <<rx, tx, intr, due>>
      /\ call' = [call EXCEPT ![running].at = loop] /\ s \in Sem
  BY CauseFacts DEF Pend, Goto
<1>2. /\ running = WaiterOf(c) /\ running \in Thread /\ call \in [Thread -> Calls]
      /\ call[running].at = PendOf(c)
      /\ \A l \in WaitList : running \notin ToSet(list[l])
  BY <1>1, AtFacts DEF PendOf, WaiterOf, ReadPlaces, WritePlaces, Causes
<1>3. SemInv' /\ \A r \in Sem \ {s} : list'[r] = list[r] /\ value'[r] = value[r]
  BY <1>1, SemFrame, WaitStep
<1>4. ToSet(list'[s]) \subseteq ToSet(list[s]) \cup {running} /\ (value[s] > 0 => list' = list)
  <2>1. CASE value[s] > 0
    BY <2>1, <1>1, SemAssumption DEF sem_wait, coreVars, SemTypeOK, SemInv
  <2>2. CASE ~(value[s] > 0)
    <3>1. intLevel = 0 /\ running # Idle /\ Block(s, "sem", "sem")
      BY <2>2, <1>1 DEF sem_wait, Caller, UserMode
    <3> QED BY <3>1, <1>1, <2>2, BlockFacts, SemLists DEF WaitState, Ops, CsOps, SemInv
  <2> QED BY <2>1, <2>2
<1>5. /\ call' \in [Thread -> Calls] /\ \A u \in Thread \ {running} : call'[u] = call[u]
      /\ call'[running].at = loop /\ call'[running].left = call[running].left
  BY <1>1, <1>2 DEF Calls, Places
<1>6. UartTypeOK'
  BY <1>1, <1>3, <1>5 DEF UartTypeOK, SemInv, Calls
<1>7. CallsOwned' /\ BytesLeft'
  BY <1>2, <1>5 DEF CallsOwned, BytesLeft, ReadPlaces, WritePlaces, PendOf, WaiterOf, Causes
<1>8. OneWaiter'
  <2> SUFFICES ASSUME NEW d \in Causes, NEW t \in ToSet(list'[SemOf[d]])
               PROVE  t = WaiterOf(d) /\ call'[t].at # PendOf(d)
    BY DEF OneWaiter
  <2>1. CASE t = running
    <3>1. d = c
      BY <2>1, <1>2, <1>3, CauseFacts, SemLists
    <3> QED BY <3>1, <2>1, <1>2, <1>5 DEF PendOf, Causes
  <2>2. CASE t # running
    <3>1. t \in ToSet(list[SemOf[d]])
      BY <2>2, <1>3, <1>4, CauseFacts
    <3>2. t = WaiterOf(d) /\ call[t].at # PendOf(d) /\ t \in Thread
      BY <3>1, CauseFacts DEF OneWaiter
    <3> QED BY <3>2, <2>2, <1>5
  <2> QED BY <2>1, <2>2
<1>9. PendArmed'
  <2> SUFFICES ASSUME NEW d \in Causes, call'[WaiterOf(d)].at = PendOf(d)
               PROVE  d \in intr' \cup due' \/ value'[SemOf[d]] > 0
    BY DEF PendArmed
  <2>1. WaiterOf(d) # running
    BY <1>5 DEF PendOf, Causes
  <2>2. d # c /\ call[WaiterOf(d)].at = PendOf(d)
    BY <2>1, <1>2, <1>5, CauseFacts
  <2> QED BY <2>2, <1>1, <1>3, CauseFacts DEF PendArmed
<1>10. WaiterArmed'
  <2> SUFFICES ASSUME NEW d \in Causes, list'[SemOf[d]] # <<>> PROVE d \in intr' \cup due'
    BY DEF WaiterArmed
  <2>1. CASE list'[SemOf[d]] = list[SemOf[d]]
    BY <2>1, <1>1 DEF WaiterArmed
  <2>2. CASE list'[SemOf[d]] # list[SemOf[d]]
    <3>1. d = c /\ ~(value[s] > 0)
      BY <2>2, <1>3, <1>4, CauseFacts
    <3> QED BY <3>1, <1>1, <1>2 DEF PendArmed
  <2> QED BY <2>1, <2>2
<1> QED BY <1>3, <1>6, <1>7, <1>8, <1>9, <1>10

\* Whatever leaves the driver and its semaphores alone: other semaphores, the
\* scheduler, and a thread that returns from its wait.
LEMMA OutsideStep ==
  ASSUME UartInv, UNCHANGED uartVars, SemInv',
         \A c \in Causes : list'[SemOf[c]] = list[SemOf[c]] /\ value'[SemOf[c]] = value[SemOf[c]]
  PROVE  UartInv'
  BY DEF UartInv, uartVars, UartTypeOK, SemInv, CallsOwned, BytesLeft, OneWaiter, PendArmed, WaiterArmed

LEMMA SchedStep == ASSUME UartInv, Resume \/ OtherStep \/ Schedule PROVE UartInv'
<1> USE DEF UartInv
<1>1. CASE Resume
  <2>1. PICK s \in Sem : ResumeSemWait(s) /\ UNCHANGED uartVars
    BY <1>1 DEF Resume
  <2>2. SemInv' /\ list' = list /\ value' = value
    BY <2>1, ResumeStep DEF ResumeSemWait
  <2> QED BY <2>1, <2>2, OutsideStep
<1>2. CASE OtherStep
  <2>1. PICK s \in Others : (Post(s) \/ sem_wait(s) \/ sem_trywait(s)) /\ UNCHANGED uartVars
    BY <1>2 DEF OtherStep, sem_post, IsrPost
  <2>2. s \in Sem /\ \A c \in Causes : SemOf[c] \in Sem \ {s}
    BY CauseFacts DEF Others
  <2>3. SemInv' /\ \A r \in Sem \ {s} : list'[r] = list[r] /\ value'[r] = value[r]
    BY <2>1, <2>2, PostStep, WaitStep, SemFrame
  <2> QED BY <2>1, <2>2, <2>3, OutsideStep
<1>3. CASE Schedule
  <2>1. CoreNext /\ UNCHANGED <<value, uartVars>>
    BY <1>3 DEF Schedule, CoreNext
  <2>2. SemInv' /\ \A s \in Sem : list'[s] = list[s]
    BY <2>1, SemSchedulerStep, CoreStep, SemLists DEF SemInv, CoreFrame
  <2> QED BY <2>1, <2>2, CauseFacts, OutsideStep
<1> QED BY <1>1, <1>2, <1>3

\* The handler moves the causes it disables to those it is going to post.
LEMMA IsrStep == ASSUME UartInv, UartIsr PROVE UartInv'
<1> USE DEF UartInv
<1>1. /\ due = {} /\ due' = Irq /\ intr' = intr \ Irq /\ UNCHANGED <<semVars, rx, tx, call>>
      /\ Irq \subseteq intr /\ intr \subseteq Causes
  BY DEF UartIsr, Irq, UartTypeOK
<1>2. SemInv' /\ UNCHANGED semVars
  BY <1>1, SemNextStep
<1>3. /\ intr' \cup due' = intr \cup due /\ intr' \subseteq Causes /\ due' \subseteq Causes
      /\ list' = list /\ value' = value
  BY <1>1 DEF semVars
<1> QED
  BY <1>1, <1>2, <1>3
  DEF UartTypeOK, SemInv, CallsOwned, BytesLeft, OneWaiter, PendArmed, WaiterArmed

\* The handler posts: the one waiter is ready, or whoever is about to wait has
\* a token.
LEMMA UartPostStep == ASSUME UartInv, NEW c \in Causes, UartPost(c) PROVE UartInv'
<1> DEFINE s == SemOf[c]
<1> USE DEF UartInv
<1>1. /\ s \in Sem /\ Post(s) /\ due' = due \ {c} /\ UNCHANGED <<rx, tx, intr, call>>
  BY CauseFacts DEF UartPost, IsrPost
<1>2. SemInv' /\ \A r \in Sem \ {s} : list'[r] = list[r] /\ value'[r] = value[r]
  BY <1>1, PostStep, SemFrame
<1>3. \/ list'[s] = <<>> /\ call[WaiterOf(c)].at # PendOf(c)
      \/ list'[s] = <<>> /\ value'[s] > 0
  <2>1. CASE list[s] # <<>> /\ Wake(s) /\ UNCHANGED <<cont, value>>
    <3>1. cont' \in [Thread -> Continuation]
      BY <2>1 DEF SemInv, CoreInv, CoreTypeOK
    <3>2. /\ CoreInv' /\ Head(list[s]) \in ToSet(list[s])
          /\ ToSet(list'[s]) = ToSet(list[s]) \ {Head(list[s])}
      BY <1>1, <2>1, <3>1, WakeFacts, SemLists DEF SemInv
    <3>3. call[WaiterOf(c)].at # PendOf(c) /\ ToSet(list'[s]) = {}
      BY <3>2 DEF OneWaiter
    <3>4. list'[s] \in Seq(Thread)
      BY <1>1, <3>2, SemLists DEF CoreInv, CoreTypeOK
    <3> QED BY <3>3, <3>4, NoElements
  <2>2. CASE list[s] = <<>> /\ value' = [value EXCEPT ![s] = @ + 1] /\ UNCHANGED coreVars
    <3>1. value[s] \in Nat
      BY <1>1, SemAssumption DEF SemInv, SemTypeOK
    <3> QED BY <2>2, <3>1, <1>1 DEF coreVars, SemInv, SemTypeOK
  <2> QED BY <1>1, <2>1, <2>2 DEF Post
<1>4. UartTypeOK'
  BY <1>1, <1>2 DEF UartTypeOK, SemInv
<1>5. \A d \in Causes \ {c} : list'[SemOf[d]] = list[SemOf[d]] /\ value'[SemOf[d]] = value[SemOf[d]]
  BY <1>2, CauseFacts
<1>6. OneWaiter'
  <2>1. ToSet(list'[s]) = {}
    BY <1>3 DEF ToSet
  <2>2. \A d \in Causes \ {c} : ToSet(list'[SemOf[d]]) = ToSet(list[SemOf[d]])
    BY <1>5
  <2> QED BY <1>1, <2>1, <2>2 DEF OneWaiter
<1>7. PendArmed'
  BY <1>1, <1>3, <1>5 DEF PendArmed
<1>8. WaiterArmed'
  BY <1>1, <1>3, <1>5 DEF WaiterArmed
<1> QED BY <1>1, <1>2, <1>4, <1>6, <1>7, <1>8 DEF CallsOwned, BytesLeft

\* A byte comes in or goes out.
LEMMA DeviceStep == ASSUME UartInv, Receive \/ Transmit PROVE UartInv'
<1> USE DEF UartInv
<1>1. UNCHANGED <<semVars, intr, due, call>>
  BY DEF Receive, Transmit
<1>2. rx' \in 0..Depth /\ tx' \in 0..Depth
  BY UartAssumption DEF Receive, Transmit, UartTypeOK
<1>3. SemInv' /\ list' = list /\ value' = value
  BY <1>1, SemNextStep DEF semVars
<1> QED
  BY <1>1, <1>2, <1>3 DEF UartTypeOK, SemInv, CallsOwned, BytesLeft, OneWaiter, PendArmed, WaiterArmed

\* Every step of the driver.
LEMMA UartStep == UartInv /\ [UartNext]_bvars => UartInv'
<1> SUFFICES ASSUME UartInv, [UartNext]_bvars PROVE UartInv'
  OBVIOUS
<1>1. ASSUME NEW p, NEW c, NEW loop, Pend(p, c, loop),
             <<p, c, loop>> \in {<<"readpend", "RXNE", "read">>, <<"writepend", "TXNF", "write">>,
                                <<"closepend", "TXE", "close">>}
      PROVE  UartInv'
  BY <1>1, PendStep DEF PendOf, Causes
<1>2. CASE UNCHANGED bvars
  <2>1. SemInv' /\ UNCHANGED <<list, value, uartVars>>
    BY <1>2, SemNextStep DEF bvars, semVars, uartVars, UartInv
  <2> QED BY <2>1, OutsideStep
<1> QED
  BY <1>1, <1>2, EnterStep, TransferStep, ArmStep, SchedStep, IsrStep, UartPostStep, DeviceStep DEF UartNext

\* At the start no cause is enabled and nobody waits.
LEMMA UartInitial == UartInit => UartInv
<1> SUFFICES ASSUME UartInit PROVE UartInv
  OBVIOUS
<1>1. SemInv /\ \A s \in Sem : list[s] = <<>>
  BY SemInitial, SemLists DEF UartInit, SemInit, AllReady, CoreInit, ReadyQueues
<1>2. /\ call = [t \in Thread |-> NoCall] /\ NoCall.at = "out" /\ NoCall \in Calls
      /\ rx = 0 /\ tx = 0 /\ intr = {} /\ due = {}
  BY UartAssumption DEF UartInit, NoCall, Calls, Places
<1>3. UartTypeOK
  BY <1>1, <1>2, UartAssumption DEF UartTypeOK, SemInv, Calls
<1>4. CallsOwned /\ BytesLeft
  BY <1>2 DEF CallsOwned, BytesLeft, ReadPlaces, WritePlaces
<1>5. PendArmed
  BY <1>2, CauseFacts DEF PendArmed, PendOf, Causes
<1>6. OneWaiter /\ WaiterArmed
  BY <1>1, CauseFacts DEF OneWaiter, WaiterArmed, ToSet
<1> QED BY <1>1, <1>3, <1>4, <1>5, <1>6 DEF UartInv

\* The invariant of the driver.
LEMMA UartInvariant == UartSpec => []UartInv
  BY UartInitial, UartStep, PTL DEF UartSpec

\* Types, and the FIFOs within their depths.
THEOREM UartTypeCorrect == UartSpec => []UartTypeOK
<1>1. UartInv => UartTypeOK
  BY DEF UartInv
<1> QED BY <1>1, UartInvariant, PTL

\* A reader, a writer or a closer that waits can count on the handler: its
\* cause is enabled or about to be posted, for FIFOs of any depth.
THEOREM UartWaiterArmed == UartSpec => []WaiterArmed
<1>1. UartInv => WaiterArmed
  BY DEF UartInv
<1> QED BY <1>1, UartInvariant, PTL

\* Under the driver, too, the semaphores are counting semaphores.
THEOREM UartSemaphores == UartSpec => ImplementsSemaphore
<1>1. UartInit => Counting!Init
  BY SemInitial DEF UartInit
<1>2. UartNext \/ UNCHANGED bvars => [SemNext]_semVars
  <2>1. CASE UNCHANGED bvars
    BY <2>1 DEF bvars, semVars
  <2>2. ASSUME NEW p, NEW c \in Causes, NEW loop, Pend(p, c, loop) PROVE SemNext
    BY <2>2, CauseFacts DEF Pend, SemNext, SemStep
  <2>3. CASE Schedule
    BY <2>3 DEF Schedule, SemNext, CoreNext
  <2>4. CASE Resume \/ OtherStep
    BY <2>4 DEF Resume, OtherStep, Others, SemNext, SemStep
  <2>5. ASSUME NEW c \in Causes, UartPost(c) PROVE SemNext
    BY <2>5, CauseFacts DEF UartPost, SemNext, SemStep
  <2>6. CASE UNCHANGED semVars
    BY <2>6
  <2>7. \/ UNCHANGED semVars \/ Schedule \/ Resume \/ OtherStep \/ UNCHANGED bvars
        \/ \E c \in Causes : UartPost(c)
        \/ \E p, loop : \E c \in Causes : Pend(p, c, loop)
        \/ ~(UartNext \/ UNCHANGED bvars)
    BY DEF UartNext, CallRead, ReadByte, ReadEmpty, ReadArm, CallWrite, WriteByte, WriteFull, CallClose,
       CloseEmpty, CloseBusy, CloseArm, Receive, Transmit, UartIsr, Causes
  <2> QED BY <2>1, <2>2, <2>3, <2>4, <2>5, <2>6, <2>7
<1>3. UartInv => SemInv
  BY DEF UartInv
<1> QED
  BY <1>1, <1>2, <1>3, UartInvariant, SemNextStep, PTL DEF UartSpec, ImplementsSemaphore, Counting!Spec
=============================================================================
