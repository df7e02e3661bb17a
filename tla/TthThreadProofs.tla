-------------------------- MODULE TthThreadProofs ---------------------------
(***************************************************************************)
(* The life of a thread, for any number of threads.  A control block lies  *)
(* in the stack that is freed, so that the proof has to know of every      *)
(* thread where it is linked and who is going to free it: a joinable one   *)
(* is freed by the one thread that claimed it, a detached one by the idle  *)
(* thread, and no thread can become both.                                  *)
(***************************************************************************)
EXTENDS TthThread, TthCoreProofs

\* Thread u is in pthread_join for t, or in the free of its stack.
Serves(u, t) == cont[u] \in {Await("join", t), Await("free", t)}

\* Before pthread_create nothing knows the thread.
Unborn(t) ==
  stack[t] = "none" /\ t \in Dynamic =>
    Absent(list, t) /\ waitstate[t] = "none" /\ cont[t] = User /\ t \notin claimed

\* After its end a thread is linked nowhere but in tth_detach, and who
\* terminated detached is on its way to be freed.
Ended(t) ==
  /\ Terminated(t) =>
       /\ t \in Dynamic /\ stack[t] # "none" /\ cont[t] = User /\ list[t] = <<>>
       /\ \A l \in Lists \ {Detached} : t \notin ToSet(list[l])
  /\ waitstate[t] = "join" => t \notin ToSet(list[Detached])
  /\ waitstate[t] = "dead" =>
       /\ detachstate[t] = "detached"
       /\ stack[t] = "freed" \/ t \in ToSet(list[Detached]) \/ cont[Idle] = Await("free", t)
  /\ t \in ToSet(list[Detached]) =>
       waitstate[t] = "dead" /\ stack[t] = "used" /\ cont[Idle] # Await("free", t)

\* What has been freed was freed once, after its end, and nobody refers to it.
Gone(t) ==
  /\ stack[t] # "freed twice"
  /\ stack[t] = "freed" =>
       /\ Terminated(t) /\ t \notin ToSet(list[Detached])
       /\ \A u \in Thread : ~Serves(u, t)

\* A thread is claimed by the one that joins it; only the idle thread frees
\* without a claim.
Claims(t) ==
  /\ t \in claimed => detachstate[t] = "joinable" /\ stack[t] # "none"
  /\ \A u \in Thread :
       /\ Serves(u, t) => /\ t \in Dynamic /\ stack[t] = "used" /\ u # t
                          /\ IF u = Idle THEN waitstate[t] = "dead" ELSE t \in claimed
       /\ cont[u] = Await("free", t) => Terminated(t) /\ u \in ToSet(list[Ready])
       /\ cont[u] = Await("join", t) =>
            /\ u # Idle
            /\ u \in IF Terminated(t) THEN ToSet(list[Ready]) ELSE ToSet(list[t])
       /\ u \in ToSet(list[t]) => cont[u] = Await("join", t)
       /\ \A v \in Thread : Serves(u, t) /\ Serves(v, t) => u = v

ThreadInv ==
  /\ CoreInv /\ ThreadTypeOK /\ RunningReady
  /\ \A t \in Thread : Unborn(t) /\ Ended(t) /\ Gone(t) /\ Claims(t)

-----------------------------------------------------------------------------

\* The continuations of join and free are different from each other and from
\* being outside the library.
LEMMA ServesFacts ==
  ASSUME NEW s \in Thread, NEW t \in Thread
  PROVE  /\ Await("join", t) # User /\ Await("free", t) # User
         /\ Await("join", s) # Await("free", t)
         /\ (Await("join", s) = Await("join", t) => s = t)
         /\ (Await("free", s) = Await("free", t) => s = t)
BY DEF Await, User

\* The list of the threads that join a thread, and that of the idle thread,
\* are among the lists.
LEMMA LifeLists ==
  /\ Detached \in WaitList /\ Detached # Sleeping /\ Detached \notin Thread /\ Detached # Ready
  /\ \A t \in Thread : t \in WaitList /\ t # Ready /\ t \in Lists
  /\ \A t \in Dynamic : t \in Thread /\ t # Idle
  /\ Detached \in Lists /\ Ready \in Lists /\ Sleeping \in Lists /\ Sleeping # Ready
BY ThreadAssumption, ListNames DEF Dynamic, Static

\* A thread that is linked, but not in tth_detach, exists and has not ended.
LEMMA LinkedLives ==
  ASSUME ThreadInv, NEW l \in Lists \ {Detached}, NEW t \in Thread, t \in ToSet(list[l])
  PROVE  /\ ~Terminated(t) /\ (t \in Dynamic => stack[t] = "used")
<1>1. ~Terminated(t)
  BY DEF ThreadInv, Ended
<1>2. t \in Dynamic => stack[t] # "none"
  BY DEF ThreadInv, Unborn, Absent
<1>3. stack[t] \notin {"freed", "freed twice"}
  BY <1>1 DEF ThreadInv, Gone
<1> QED BY <1>1, <1>2, <1>3 DEF ThreadInv, ThreadTypeOK, StackState

\* A caller is the head of tth_ready and has not ended.
LEMMA CallerFacts ==
  ASSUME ThreadInv, intLevel = 0
  PROVE  /\ running \in Thread /\ running = Head(list[Ready])
         /\ running \in ToSet(list[Ready]) /\ list[Ready] # <<>>
         /\ \A l \in WaitList : running \notin ToSet(list[l])
         /\ ~Terminated(running) /\ (running \in Dynamic => stack[running] = "used")
<1>1. /\ running \in Thread /\ running = Head(list[Ready]) /\ list[Ready] # <<>>
      /\ running \in ToSet(list[Ready])
      /\ \A l \in WaitList : running \notin ToSet(list[l])
  BY RunningFacts DEF ThreadInv
<1> QED BY <1>1, LinkedLives, LifeLists

\* The types and lists, as the lemmas about lists need them.
LEMMA LifeTypes ==
  ASSUME ThreadInv
  PROVE  /\ CoreInv /\ ListsOK(list) /\ LinkedOnce(list) /\ SortedLists(list)
         /\ waitstate \in [Thread -> WaitState] /\ cont \in [Thread -> Continuation]
         /\ detachstate \in [Thread -> {"joinable", "detached"}]
         /\ stack \in [Thread -> StackState] /\ claimed \subseteq Dynamic
         /\ \A t \in Thread : Unborn(t) /\ Ended(t) /\ Gone(t) /\ Claims(t)
BY DEF ThreadInv, CoreInv, CoreTypeOK, ThreadTypeOK, ListsOK, OneList, ListsOrdered, SortedLists

\* The start: only the static threads exist.
LEMMA ThreadInitial == ThreadInit => ThreadInv
<1> SUFFICES ASSUME ThreadInit PROVE ThreadInv
  OBVIOUS
<1> DEFINE L == [l \in Lists |-> IF l = Ready THEN <<Main, Idle>> ELSE <<>>]
<1>1. /\ list = L /\ running = HeadOf(L[Ready]) /\ intLevel = 0 /\ ticked = FALSE
      /\ waitstate = [t \in Thread |-> IF t \in ToSet(L[Ready]) \ {Idle, Main} THEN "ready" ELSE "none"]
      /\ cont = [t \in Thread |-> User] /\ claimed = {}
      /\ detachstate = [t \in Thread |-> IF t = Idle THEN "detached" ELSE "joinable"]
      /\ stack = [t \in Thread |-> "none"]
  BY DEF ThreadInit, CoreInit
<1>2. /\ list[Ready] = <<Main, Idle>> /\ \A l \in Lists \ {Ready} : list[l] = <<>>
      /\ list \in [Lists -> Seq(Thread)]
  BY <1>1, CoreAssumption, LifeLists
<1>3. ToSet(list[Ready]) = {Main, Idle} /\ \A l \in Lists \ {Ready} : ToSet(list[l]) = {}
  <2>1. ToSet(<<Main, Idle>>) = {Main, Idle}
    <3> DEFINE q == <<Main, Idle>>
    <3>1. DOMAIN q = {1, 2} /\ q[1] = Main /\ q[2] = Idle
      OBVIOUS
    <3> QED BY <3>1 DEF ToSet
  <2>2. ToSet(<<>>) = {}
    BY DEF ToSet
  <2> QED BY <1>2, <2>1, <2>2
<1>4. running = Main /\ \A t \in Thread : waitstate[t] = "none"
  <2>1. L[Ready] = list[Ready]
    BY <1>1
  <2>2. HeadOf(<<Main, Idle>>) = Main
    BY DEF HeadOf
  <2> HIDE DEF L
  <2>3. ToSet(L[Ready]) \ {Idle, Main} = {}
    BY <1>3, <2>1
  <2> QED BY <1>1, <1>2, <2>1, <2>2, <2>3
<1>5. CoreInv
  <2>1. LinkedOnce(list)
    <3>1. \A l \in Lists : IsInjective(list[l])
      BY <1>2, CoreAssumption DEF IsInjective
    <3> QED BY <1>3, <3>1, LinkedOnceByList
  <2>2. \A l \in Lists \ {Sleeping} : Ordered(list[l])
    BY <1>2, CoreAssumption DEF Ordered
  <2>3. CoreTypeOK
    BY <1>1, <1>2, <1>4, CoreAssumption
    DEF CoreTypeOK, WaitState, Continuation, User, Ops
  <2>4. IdleReady /\ RunningIsHead
    <3>1. IdleReady
      BY <1>3 DEF IdleReady
    <3> QED BY <1>2, <1>3, <1>4, <3>1 DEF RunningIsHead, HeadOf
  <2> QED BY <2>1, <2>2, <2>3, <2>4 DEF CoreInv, OneList, ListsOrdered
<1>6. ThreadTypeOK /\ RunningReady
  BY <1>1, <1>3, <1>4, <1>5 DEF ThreadTypeOK, StackState, CoreInv, RunningReady
<1>7. ASSUME NEW t \in Thread PROVE Unborn(t) /\ Ended(t) /\ Gone(t) /\ Claims(t)
  <2>1. \A u \in Thread : ~Serves(u, t)
    BY <1>1, ServesFacts DEF Serves
  <2>2. ~Terminated(t) /\ stack[t] = "none" /\ t \notin claimed /\ cont[t] = User
    BY <1>1, <1>4 DEF Terminated
  <2>3. t \in Dynamic => Absent(list, t)
    BY <1>3 DEF Absent, Dynamic, Static
  <2> QED BY <1>3, <1>4, <2>1, <2>2, <2>3, LifeLists DEF Unborn, Ended, Gone, Claims, Serves, Terminated
<1> QED BY <1>5, <1>6, <1>7 DEF ThreadInv

\* A step that relinks no thread that has ended and leaves the joins and
\* frees alone.
LEMMA ThreadFrame ==
  ASSUME ThreadInv, CoreInv', RunningReady', UNCHANGED lifeVars, cont' = cont,
         \A l \in WaitList \ {Sleeping} : list'[l] = list[l],
         \A t \in ToSet(list[Ready]) : cont[t] # User => t \in ToSet(list'[Ready]),
         \A t \in Thread :
           /\ waitstate'[t] # waitstate[t] =>
                /\ waitstate'[t] \notin {"join", "dead"}
                /\ t \in ToSet(list[Ready]) \cup ToSet(list[Sleeping])
           /\ t \in ToSet(list'[Ready]) \cup ToSet(list'[Sleeping]) =>
                t \in ToSet(list[Ready]) \cup ToSet(list[Sleeping])
  PROVE  ThreadInv'
<1>1. detachstate' = detachstate /\ stack' = stack /\ claimed' = claimed
  BY DEF lifeVars
<1>2. ThreadTypeOK'
  BY <1>1 DEF ThreadInv, ThreadTypeOK, CoreInv
<1>3. ASSUME NEW t \in Thread PROVE Terminated(t)' <=> Terminated(t)
  <2>1. t \in ToSet(list[Ready]) \cup ToSet(list[Sleeping]) => ~Terminated(t)
    BY LinkedLives, LifeLists
  <2> QED BY <2>1 DEF Terminated
<1>4. ASSUME NEW t \in Thread, Terminated(t) PROVE waitstate'[t] = waitstate[t]
  BY <1>4, LinkedLives, LifeLists
<1>5. ASSUME NEW t \in Thread PROVE (Unborn(t) /\ Ended(t) /\ Gone(t) /\ Claims(t))'
  <2>1. Unborn(t) /\ Ended(t) /\ Gone(t) /\ Claims(t)
    BY LifeTypes
  <2>2. \A u \in Thread : Serves(u, t)' <=> Serves(u, t)
    BY DEF Serves
  <2>3. list'[t] = list[t] /\ list'[Detached] = list[Detached]
    BY LifeLists, ThreadAssumption
  <2>4. \A l \in Lists \ {Ready, Sleeping} : list'[l] = list[l]
    BY DEF Lists
  <2>5. Unborn(t)'
    <3> SUFFICES ASSUME stack[t] = "none", t \in Dynamic
                 PROVE  Absent(list', t) /\ waitstate'[t] = "none" /\ cont[t] = User /\ t \notin claimed
      BY <1>1 DEF Unborn
    <3>1. Absent(list, t) /\ waitstate[t] = "none" /\ cont[t] = User /\ t \notin claimed
      BY <2>1 DEF Unborn
    <3>2. t \notin ToSet(list[Ready]) \cup ToSet(list[Sleeping])
      BY <3>1, LifeLists DEF Absent
    <3>3. waitstate'[t] = "none"
      BY <3>1, <3>2
    <3>4. Absent(list', t)
      BY <3>1, <3>2, <2>4 DEF Absent
    <3> QED BY <3>1, <3>3, <3>4
  <2>6. Ended(t)'
    <3>1. CASE Terminated(t)
      <4>1. \A l \in Lists \ {Detached} : t \notin ToSet(list[l])
        BY <2>1, <3>1 DEF Ended
      <4>2. \A l \in Lists \ {Detached} : t \notin ToSet(list'[l])
        BY <4>1, <2>4, LifeLists
      <4> QED BY <1>1, <1>3, <1>4, <2>1, <2>3, <3>1, <4>2 DEF Ended
    <3>2. CASE ~Terminated(t)
      <4>1. t \notin ToSet(list'[Detached])
        BY <2>1, <2>3, <3>2 DEF Ended, Terminated
      <4>2. ~Terminated(t)' /\ waitstate'[t] \notin {"join", "dead"}
        BY <1>3, <3>2 DEF Terminated
      <4> QED BY <4>1, <4>2 DEF Ended
    <3> QED BY <3>1, <3>2
  <2>7. Gone(t)'
    BY <1>1, <1>3, <2>1, <2>2, <2>3 DEF Gone
  <2>8. Claims(t)'
    <3>1. \A u \in Thread : Serves(u, t) => cont[u] # User
      BY ServesFacts DEF Serves
    <3>2. ASSUME NEW u \in Thread, Serves(u, t), u \in ToSet(list[Ready])
          PROVE  u \in ToSet(list'[Ready])
      BY <3>1, <3>2
    <3>3. waitstate[t] = "dead" => waitstate'[t] = "dead"
      BY <1>4 DEF Terminated
    <3> QED BY <1>1, <1>3, <2>1, <2>2, <2>3, <3>2, <3>3 DEF Claims, Serves
  <2> QED BY <2>5, <2>6, <2>7, <2>8
<1> QED BY <1>2, <1>5 DEF ThreadInv

-----------------------------------------------------------------------------
(* The steps of a thread's life *)

\* A new thread is linked in tth_ready; nobody has heard of it yet.
LEMMA CreateStep ==
  ASSUME ThreadInv, NEW t \in Dynamic, NEW d \in {"joinable", "detached"}, pthread_create(t, d)
  PROVE  ThreadInv'
<1> USE LifeLists
<1>1. /\ intLevel = 0 /\ t \in Thread /\ stack[t] = "none"
      /\ stack' = [stack EXCEPT ![t] = "used"]
      /\ detachstate' = [detachstate EXCEPT ![t] = d]
      /\ list' = [list EXCEPT ![Ready] = Insert(@, t)]
      /\ waitstate' = [waitstate EXCEPT ![t] = "ready"]
      /\ Switch /\ intLevel' = intLevel /\ ticked' = ticked /\ cont' = cont /\ claimed' = claimed
  BY DEF pthread_create, Caller, UserMode
<1>2. Absent(list, t) /\ t \notin claimed
  BY <1>1, LifeTypes DEF Unborn
<1>3. /\ ListsOK(list') /\ LinkedOnce(list')
      /\ ToSet(list'[Ready]) = ToSet(list[Ready]) \cup {t}
      /\ \A l \in Lists \ {Ready} : list'[l] = list[l]
      /\ SortedLists(list')
  <2> DEFINE p == InsertPos(list[Ready], t)
             M == [list EXCEPT ![Ready] = InsertAt(@, p, t)]
  <2>1. list[Ready] \in Seq(Thread) /\ Ordered(list[Ready])
    BY LifeTypes DEF ListsOK, SortedLists
  <2>2. p \in 1..Len(list[Ready])+1 /\ Ordered(Insert(list[Ready], t))
    BY <1>1, <2>1, InsertPosFacts, InsertOrdered
  <2>3. list' = M
    BY <1>1 DEF Insert
  <2> HIDE DEF p
  <2>4. /\ ListsOK(M) /\ LinkedOnce(M) /\ ToSet(M[Ready]) = ToSet(list[Ready]) \cup {t}
    <3>1. /\ ListsOK(list) /\ LinkedOnce(list) /\ Ready \in Lists /\ t \in Thread
          /\ Absent(list, t) /\ p \in 1..Len(list[Ready])+1
      BY <1>1, <1>2, <2>2, LifeTypes DEF p
    <3> HIDE LifeLists
    <3> QED BY <3>1, PushFacts
  <2>5. list'[Ready] = Insert(list[Ready], t) /\ \A l \in Lists \ {Ready} : list'[l] = list[l]
    BY <1>1, LifeTypes DEF ListsOK
  <2> QED BY <2>2, <2>3, <2>4, <2>5, LifeTypes DEF SortedLists
<1>4. /\ waitstate'[t] = "ready" /\ stack'[t] = "used" /\ detachstate'[t] = d
      /\ \A s \in Thread \ {t} : /\ waitstate'[s] = waitstate[s] /\ stack'[s] = stack[s]
                                 /\ detachstate'[s] = detachstate[s]
      /\ waitstate' \in [Thread -> WaitState] /\ cont' \in [Thread -> Continuation]
  BY <1>1, LifeTypes DEF WaitState
<1>5. CoreInv'
  <2>1. Idle \in ToSet(list'[Ready])
    BY <1>3 DEF ThreadInv, CoreInv, IdleReady
  <2> QED BY <1>1, <1>3, <1>4, <2>1, LifeTypes, RelinkFacts
<1>6. ThreadTypeOK'
  BY <1>1, <1>5, LifeTypes DEF ThreadTypeOK, StackState, CoreInv
<1>7. RunningReady'
  BY <1>1, <1>5, RunningStaysReady DEF ThreadInv
<1>8. \A u \in Thread : ~Serves(u, t) /\ u \notin ToSet(list[t])
  BY <1>1, LifeTypes DEF Claims, Serves
<1>9. ASSUME NEW s \in Thread PROVE (Unborn(s) /\ Ended(s) /\ Gone(s) /\ Claims(s))'
  <2>1. Unborn(s) /\ Ended(s) /\ Gone(s) /\ Claims(s)
    BY LifeTypes
  <2>2. \A u \in Thread : Serves(u, s)' <=> Serves(u, s)
    BY <1>1 DEF Serves
  <2>3. list'[s] = list[s] /\ list'[Detached] = list[Detached]
    BY <1>3
  <2>4. CASE s = t
    <3>1. ~Terminated(s)' /\ s \notin ToSet(list'[Detached])
      BY <1>2, <1>4, <2>3, <2>4 DEF Terminated, Absent
    <3>2. \A u \in Thread : cont'[u] \notin {Await("join", s), Await("free", s)}
      BY <1>1, <1>8, <2>4 DEF Serves
    <3> QED BY <1>1, <1>2, <1>4, <1>8, <2>2, <2>3, <2>4, <3>1, <3>2
        DEF Unborn, Ended, Gone, Claims, Serves, Terminated
  <2>5. CASE s # t
    <3>1. waitstate'[s] = waitstate[s] /\ stack'[s] = stack[s] /\ detachstate'[s] = detachstate[s]
      BY <1>4, <2>5
    <3>2. Terminated(s)' <=> Terminated(s)
      BY <3>1 DEF Terminated
    <3>3. \A l \in Lists : s \in ToSet(list'[l]) <=> s \in ToSet(list[l])
      BY <1>3, <2>5
    <3>4. Unborn(s)'
      BY <1>1, <2>1, <3>1, <3>3 DEF Unborn, Absent
    <3>5. Ended(s)'
      BY <1>1, <2>1, <2>3, <3>1, <3>2, <3>3 DEF Ended
    <3>6. Gone(s)'
      BY <1>1, <2>1, <2>2, <2>3, <3>1, <3>2 DEF Gone
    <3>7. Claims(s)'
      BY <1>1, <1>3, <2>1, <2>2, <2>3, <3>1, <3>2 DEF Claims
    <3> QED BY <3>4, <3>5, <3>6, <3>7
  <2> QED BY <2>4, <2>5
<1> QED BY <1>5, <1>6, <1>7, <1>9 DEF ThreadInv

\* The end of a joinable thread: who joins it is readied.
LEMMA ExitJoinableStep ==
  ASSUME ThreadInv, pthread_exit, ExitJoinable
  PROVE  ThreadInv'
<1> USE LifeLists
<1> DEFINE r == running
           left == Unlink(list, Ready)
<1>1. /\ intLevel = 0 /\ r \in Dynamic /\ r # Idle /\ cont[r] = User
      /\ Switch /\ UNCHANGED <<intLevel, ticked, cont, lifeVars>>
      /\ detachstate[r] = "joinable"
      /\ list' = Move(left, r, Ready)
      /\ waitstate' = Mark(Mark(waitstate, list, Ready, "join"), left, r, "ready")
  BY DEF pthread_exit, ExitJoinable, Caller, UserMode
<1>2. /\ r \in Thread /\ r = Head(list[Ready]) /\ list[Ready] # <<>> /\ r \in ToSet(list[Ready])
      /\ \A l \in WaitList : r \notin ToSet(list[l])
      /\ ~Terminated(r) /\ stack[r] = "used"
  BY <1>1, CallerFacts
<1>3. /\ left = [list EXCEPT ![Ready] = Tail(@)]
      /\ \A l \in Lists \ {Ready} : left[l] = list[l]
      /\ left[Ready] = Tail(list[Ready])
  BY <1>2, LifeTypes DEF Unlink, ListsOK
<1>4. /\ ListsOK(left) /\ LinkedOnce(left) /\ SortedLists(left)
      /\ ToSet(left[Ready]) = ToSet(list[Ready]) \ {r}
  <2> DEFINE M == [list EXCEPT ![Ready] = Tail(@)]
  <2>1. /\ ListsOK(M) /\ LinkedOnce(M) /\ Absent(M, Head(list[Ready]))
        /\ ToSet(list[Ready]) = ToSet(M[Ready]) \cup {Head(list[Ready])}
    BY <1>2, LifeTypes, PopFacts
  <2> HIDE DEF M
  <2>2. left = M
    BY <1>3 DEF M
  <2>3. SortedLists(left)
    BY <1>2, <1>3, LifeTypes, TailOrdered DEF SortedLists, ListsOK
  <2> QED BY <1>2, <2>1, <2>2, <2>3 DEF Absent
<1> HIDE DEF left
<1>5. Moved(left, list', r, Ready)
  BY <1>1, <1>2, <1>4, MoveFacts
<1>6. \A u \in ToSet(list[r]) : u \in Thread /\ cont[u] = Await("join", r) /\ u # r
  <2>1. list[r] \in Seq(Thread)
    BY <1>2, LifeTypes DEF ListsOK
  <2>2. \A u \in ToSet(list[r]) : u \in Thread
    BY <2>1, ElementOfSeq, LenProperties DEF ToSet
  <2> QED BY <1>2, <2>2, LifeTypes DEF Claims, Serves
<1> DEFINE J == ToSet(list[r])
<1>7. /\ \A u, v \in J : u = v
      /\ \A u \in Thread : Serves(u, r) => u \in J
  <2>1. \A u \in Thread : Serves(u, r) => cont[u] = Await("join", r) /\ u \in J
    BY <1>2, LifeTypes DEF Claims, Serves
  <2>2. \A u, v \in J : u = v
    BY <1>2, <1>6, LifeTypes DEF Claims, Serves
  <2> QED BY <2>1, <2>2
<1>8. /\ ListsOK(list') /\ LinkedOnce(list') /\ SortedLists(list')
      /\ \A l \in Lists \ {r, Ready} : list'[l] = list[l]
      /\ ToSet(list'[Ready]) = (ToSet(list[Ready]) \ {r}) \cup J
      /\ ToSet(list'[r]) = {} /\ list'[r] = <<>>
      /\ waitstate' = [u \in Thread |-> IF u \in J THEN "ready"
                                        ELSE IF u = r THEN "join" ELSE waitstate[u]]
  <2>1. ListsOK(list') /\ LinkedOnce(list') /\ SortedLists(list')
        /\ \A l \in Lists \ {r, Ready} : list'[l] = list[l]
    BY <1>3, <1>4, <1>5 DEF Moved
  <2>2. left[r] = list[r] /\ list[r] \in Seq(Thread)
    BY <1>2, <1>3, LifeTypes DEF ListsOK
  <2>3. Mark(waitstate, list, Ready, "join") = [waitstate EXCEPT ![r] = "join"]
    BY <1>2 DEF Mark
  <2>4. CASE list[r] = <<>>
    <3>1. J = {}
      BY <2>4 DEF ToSet
    <3>2. list' = left /\ waitstate' = [waitstate EXCEPT ![r] = "join"]
      BY <1>1, <1>5, <2>2, <2>3, <2>4 DEF Moved, Mark
    <3> QED BY <1>2, <1>4, <2>1, <2>2, <2>4, <3>1, <3>2, LifeTypes
  <2>5. CASE list[r] # <<>>
    <3> DEFINE h == Head(list[r])
    <3>1. h \in J
      BY <2>2, <2>5, TailElements
    <3>2. J = {h}
      BY <1>7, <3>1
    <3>3. /\ ToSet(list'[Ready]) = ToSet(left[Ready]) \cup {h}
          /\ ToSet(list'[r]) = ToSet(left[r]) \ {h}
      BY <1>2, <1>5, <2>2, <2>5 DEF Moved
    <3>4. ToSet(list'[r]) = {}
      BY <2>2, <3>2, <3>3
    <3>5. list'[r] = <<>>
      <4>1. list'[r] \in Seq(Thread)
        BY <1>2, <2>1 DEF ListsOK
      <4> HIDE DEF r
      <4> QED BY <3>4, <4>1, TailElements
    <3>6. waitstate' = [[waitstate EXCEPT ![r] = "join"] EXCEPT ![h] = "ready"]
      BY <1>1, <2>2, <2>3, <2>5 DEF Mark
    <3>7. h \in Thread /\ h # r
      BY <1>6, <3>1
    <3> HIDE DEF J, h
    <3>8. waitstate' = [u \in Thread |-> IF u = h THEN "ready"
                                         ELSE IF u = r THEN "join" ELSE waitstate[u]]
      BY <1>2, <3>6, <3>7, LifeTypes
    <3> QED BY <1>4, <2>1, <3>2, <3>3, <3>4, <3>5, <3>8
  <2> QED BY <2>4, <2>5
<1>9. /\ waitstate' \in [Thread -> WaitState] /\ cont' \in [Thread -> Continuation] /\ cont' = cont
      /\ detachstate' = detachstate /\ stack' = stack /\ claimed' = claimed
      /\ \A u \in Thread : waitstate'[u] = IF u \in J THEN "ready"
                                           ELSE IF u = r THEN "join" ELSE waitstate[u]
  BY <1>1, <1>8, LifeTypes DEF WaitState, lifeVars
<1>10. CoreInv'
  <2>1. Idle \in ToSet(list'[Ready])
    BY <1>1, <1>8 DEF ThreadInv, CoreInv, IdleReady
  <2> QED BY <1>1, <1>8, <1>9, <2>1, LifeTypes, RelinkFacts
<1>11. ThreadTypeOK' /\ RunningReady'
  BY <1>1, <1>9, <1>10, LifeTypes, RunningStaysReady DEF ThreadInv, ThreadTypeOK, CoreInv
<1>12. r \notin J /\ \A u \in J : ~Terminated(u) /\ u \notin ToSet(list[Detached])
  <2>1. \A u \in J : ~Terminated(u)
    BY <1>2, <1>6, LinkedLives
  <2> QED BY <1>2, <1>6, <2>1, LifeTypes DEF Ended, Terminated
<1>13. ASSUME NEW s \in Thread PROVE (Unborn(s) /\ Ended(s) /\ Gone(s) /\ Claims(s))'
  <2> HIDE DEF J
  <2>1. Unborn(s) /\ Ended(s) /\ Gone(s) /\ Claims(s)
    BY LifeTypes
  <2>2. \A u \in Thread : Serves(u, s)' <=> Serves(u, s)
    BY <1>9 DEF Serves
  <2>3. list'[Detached] = list[Detached]
    BY <1>2, <1>8
  <2>4. Terminated(s)' <=> Terminated(s) \/ s = r
    BY <1>9, <1>12 DEF Terminated
  <2>5. s \notin J /\ s # r => waitstate'[s] = waitstate[s]
    BY <1>9
  <2>6. ASSUME NEW l \in Lists, s \in ToSet(list'[l]), s \notin J, s # r PROVE s \in ToSet(list[l])
    BY <1>8, <2>6
  <2>7. Unborn(s)'
    <3> SUFFICES ASSUME stack[s] = "none", s \in Dynamic
                 PROVE  Absent(list', s) /\ waitstate'[s] = "none" /\ cont[s] = User /\ s \notin claimed
      BY <1>9 DEF Unborn
    <3>1. Absent(list, s) /\ waitstate[s] = "none" /\ cont[s] = User /\ s \notin claimed /\ s # r
      BY <1>2, <2>1 DEF Unborn
    <3>2. s \notin J
      BY <1>2, <3>1 DEF Absent, J
    <3> QED BY <2>5, <2>6, <3>1, <3>2 DEF Absent
  <2>8. Ended(s)'
    <3>1. CASE s = r
      <4>1. waitstate'[s] = "join" /\ list'[s] = <<>> /\ cont'[s] = User
        BY <1>1, <1>8, <1>9, <1>12, <3>1
      <4>2. \A l \in Lists : s \notin ToSet(list'[l])
        <5>1. s \notin ToSet(list'[Ready])
          BY <1>8, <1>12, <3>1
        <5>2. \A l \in Lists \ {Ready, r} : s \notin ToSet(list'[l])
          BY <1>2, <1>8, <3>1 DEF Lists
        <5> QED BY <1>8, <3>1, <5>1, <5>2
      <4> QED BY <1>1, <1>2, <1>9, <3>1, <4>1, <4>2 DEF Ended
    <3>2. CASE s \in J
      BY <1>9, <1>12, <2>3, <2>4, <3>2 DEF Ended, Terminated
    <3>3. CASE s # r /\ s \notin J
      <4>1. list[s] = <<>> => list'[s] = <<>>
        BY <1>8, <3>3
      <4>2. waitstate'[s] = waitstate[s] /\ (Terminated(s)' <=> Terminated(s))
        BY <2>4, <2>5, <3>3
      <4>3. \A l \in Lists \ {Detached} : s \notin ToSet(list[l]) => s \notin ToSet(list'[l])
        BY <2>6, <3>3
      <4> QED BY <1>9, <2>1, <2>3, <4>1, <4>2, <4>3 DEF Ended
    <3> QED BY <3>1, <3>2, <3>3
  <2>9. Gone(s)'
    BY <1>9, <2>1, <2>2, <2>3, <2>4 DEF Gone
  <2>10. Claims(s)'
    <3>1. CASE s = r
      <4>1. \A u \in Thread : Serves(u, s) => /\ cont[u] = Await("join", s) /\ u \in J
                                             /\ u \in ToSet(list'[Ready])
        BY <1>6, <1>7, <1>8, <3>1 DEF J
      <4>2. \A u \in Thread : cont[u] # Await("free", s)
        BY <4>1, ServesFacts DEF Serves
      <4>3. \A u \in Thread : Serves(u, s) => u # Idle
        BY <2>1, <4>1 DEF Claims
      <4> QED BY <1>8, <1>9, <2>1, <2>2, <2>4, <3>1, <4>1, <4>2, <4>3 DEF Claims, Serves
    <3>2. CASE s # r
      <4>1. list'[s] = list[s] /\ (Terminated(s)' <=> Terminated(s))
        BY <1>8, <2>4, <3>2
      <4>2. \A u \in Thread : Serves(u, s) /\ u \in ToSet(list[Ready]) => u \in ToSet(list'[Ready])
        BY <1>1, <1>8, ServesFacts DEF Serves
      <4>3. waitstate[s] = "dead" => waitstate'[s] = "dead"
        BY <1>12, <2>5, <3>2 DEF Terminated
      <4> QED BY <1>9, <2>1, <2>2, <4>1, <4>2, <4>3 DEF Claims, Serves
    <3> QED BY <3>1, <3>2
  <2> QED BY <2>7, <2>8, <2>9, <2>10
<1> QED BY <1>10, <1>11, <1>13 DEF ThreadInv

\* The end of a detached thread: nobody joins it, and it goes to tth_detach.
LEMMA ExitDetachedStep ==
  ASSUME ThreadInv, pthread_exit, ExitDetached
  PROVE  ThreadInv'
<1> USE LifeLists
<1> DEFINE r == running
<1>1. /\ intLevel = 0 /\ r \in Dynamic /\ r # Idle /\ cont[r] = User
      /\ Switch /\ UNCHANGED <<intLevel, ticked, cont, lifeVars>>
      /\ detachstate[r] = "detached"
      /\ list' = Move(list, Ready, Detached)
      /\ waitstate' = Mark(waitstate, list, Ready, "dead")
  BY DEF pthread_exit, ExitDetached, MoveHead, Caller, UserMode
<1>2. /\ r \in Thread /\ r = Head(list[Ready]) /\ list[Ready] # <<>> /\ r \in ToSet(list[Ready])
      /\ \A l \in WaitList : r \notin ToSet(list[l])
      /\ ~Terminated(r) /\ stack[r] = "used"
  BY <1>1, CallerFacts
<1>3. \A u \in Thread : ~Serves(u, r)
  <2>1. r \notin claimed /\ waitstate[r] # "dead"
    BY <1>1, <1>2, LifeTypes DEF Claims, Terminated
  <2> QED BY <1>2, <2>1, LifeTypes DEF Claims
<1>4. list[r] = <<>>
  <2>1. list[r] \in Seq(Thread)
    BY <1>2, LifeTypes DEF ListsOK
  <2>2. ToSet(list[r]) \cap Thread = {}
    BY <1>2, <1>3, LifeTypes DEF Claims, Serves
  <2>3. list[r] # <<>> => Head(list[r]) \in ToSet(list[r]) /\ Head(list[r]) \in Thread
    <3> DEFINE q == list[r]
    <3> HIDE DEF q
    <3>1. q \in Seq(Thread) /\ q # <<>> => Head(q) \in ToSet(q) /\ Head(q) \in Thread
      BY TailElements, HeadTailProperties
    <3> QED BY <2>1, <3>1 DEF q
  <2> QED BY <2>2, <2>3
<1>5. Moved(list, list', Ready, Detached)
  BY <1>1, LifeTypes, MoveFacts
<1>6. /\ ListsOK(list') /\ LinkedOnce(list') /\ SortedLists(list')
      /\ \A l \in Lists \ {Ready, Detached} : list'[l] = list[l]
      /\ ToSet(list'[Ready]) = ToSet(list[Ready]) \ {r}
      /\ ToSet(list'[Detached]) = ToSet(list[Detached]) \cup {r}
  BY <1>2, <1>5, LifeTypes DEF Moved
<1>7. waitstate' = [waitstate EXCEPT ![r] = "dead"]
  BY <1>1, <1>2 DEF Mark
<1> HIDE DEF r
<1>8. /\ waitstate' \in [Thread -> WaitState] /\ cont' \in [Thread -> Continuation] /\ cont' = cont
      /\ detachstate' = detachstate /\ stack' = stack /\ claimed' = claimed
      /\ waitstate'[r] = "dead" /\ \A s \in Thread \ {r} : waitstate'[s] = waitstate[s]
  BY <1>1, <1>2, <1>7, LifeTypes DEF WaitState, lifeVars
<1>9. CoreInv'
  <2>1. Idle \in ToSet(list'[Ready])
    BY <1>1, <1>6 DEF ThreadInv, CoreInv, IdleReady
  <2> QED BY <1>1, <1>6, <1>8, <2>1, LifeTypes, RelinkFacts
<1>10. ThreadTypeOK' /\ RunningReady'
  BY <1>1, <1>8, <1>9, LifeTypes, RunningStaysReady DEF ThreadInv, ThreadTypeOK, CoreInv
<1>11. ASSUME NEW s \in Thread PROVE (Unborn(s) /\ Ended(s) /\ Gone(s) /\ Claims(s))'
  <2>1. Unborn(s) /\ Ended(s) /\ Gone(s) /\ Claims(s)
    BY LifeTypes
  <2>2. \A u \in Thread : Serves(u, s)' <=> Serves(u, s)
    BY <1>8 DEF Serves
  <2>3. list'[s] = list[s]
    BY <1>6
  <2>4. CASE s = r
    <3>1. \A l \in Lists \ {Detached} : s \notin ToSet(list'[l])
      BY <1>2, <1>6, <2>4 DEF Lists
    <3>2. Idle \in Thread /\ cont[Idle] # Await("free", s)
      BY <1>3, <2>4, CoreAssumption DEF Serves
    <3>3. Ended(s)'
      BY <1>1, <1>2, <1>4, <1>6, <1>8, <2>3, <2>4, <3>1, <3>2 DEF Ended
    <3>4. ToSet(list'[s]) \cap Thread = {}
      BY <1>4, <2>3, <2>4 DEF ToSet
    <3> QED BY <1>2, <1>3, <1>8, <2>1, <2>2, <2>4, <3>3, <3>4
        DEF Unborn, Gone, Claims, Serves
  <2>5. CASE s # r
    <3>1. waitstate'[s] = waitstate[s] /\ (Terminated(s)' <=> Terminated(s))
      BY <1>8, <2>5 DEF Terminated
    <3>2. \A l \in Lists : s \in ToSet(list'[l]) <=> s \in ToSet(list[l])
      BY <1>6, <2>5
    <3>3. Unborn(s)'
      BY <1>8, <2>1, <3>1, <3>2 DEF Unborn, Absent
    <3>4. Ended(s)'
      BY <1>8, <2>1, <2>3, <3>1, <3>2 DEF Ended
    <3>5. Gone(s)'
      BY <1>8, <2>1, <2>2, <3>1, <3>2 DEF Gone
    <3>6. Claims(s)'
      <4>1. \A u \in Thread : Serves(u, s) /\ u \in ToSet(list[Ready]) => u \in ToSet(list'[Ready])
        BY <1>1, <1>6, ServesFacts DEF Serves
      <4> QED BY <1>8, <2>1, <2>2, <2>3, <3>1, <4>1 DEF Claims, Serves
    <3> QED BY <3>3, <3>4, <3>5, <3>6
  <2> QED BY <2>4, <2>5
<1> QED BY <1>9, <1>10, <1>11 DEF ThreadInv

\* A step that leaves the scheduler alone but for a continuation.
LEMMA QuietStep ==
  ASSUME CoreInv, RunningReady, UNCHANGED <<list, running, waitstate, intLevel, ticked>>,
         cont' \in [Thread -> Continuation]
  PROVE  CoreInv' /\ RunningReady'
BY DEF CoreInv, CoreTypeOK, OneList, LinkedOnce, ListsOrdered, IdleReady, RunningIsHead, RunningReady

\* A thread that may be joined: it has not been claimed, so nobody serves it.
LEMMA JoinableFacts ==
  ASSUME ThreadInv, NEW t \in Dynamic, t \notin claimed, detachstate[t] = "joinable"
  PROVE  /\ t \in Thread /\ waitstate[t] # "dead"
         /\ (Terminated(t) <=> waitstate[t] = "join")
         /\ \A u \in Thread : ~Serves(u, t)
<1>1. t \in Thread
  BY LifeLists
<1>2. waitstate[t] # "dead"
  BY <1>1, LifeTypes DEF Ended
<1> QED BY <1>1, <1>2, LifeTypes DEF Claims, Terminated

\* Waiting for the end of a thread.
LEMMA JoinBlockStep ==
  ASSUME ThreadInv, NEW t \in Dynamic, pthread_join(t), Block(t, "thread", "join")
  PROVE  ThreadInv'
<1> USE LifeLists
<1> DEFINE r == running
<1>1. /\ intLevel = 0 /\ r # Idle /\ cont[r] = User
      /\ stack[t] = "used" /\ t \notin claimed /\ detachstate[t] = "joinable"
      /\ list[t] = <<>> /\ t # r /\ claimed' = claimed \cup {t}
      /\ detachstate' = detachstate /\ stack' = stack
      /\ intLevel' = intLevel
      /\ waitstate' = Mark(waitstate, list, Ready, "thread")
      /\ cont' = [cont EXCEPT ![r] = Await("join", t)]
  BY DEF pthread_join, Caller, UserMode, Known, Block, MoveHead
<1>2. /\ r \in Thread /\ r = Head(list[Ready]) /\ list[Ready] # <<>> /\ r \in ToSet(list[Ready])
      /\ \A l \in WaitList : r \notin ToSet(list[l])
      /\ ~Terminated(r) /\ (r \in Dynamic => stack[r] = "used")
  BY <1>1, CallerFacts
<1>3. /\ t \in Thread /\ waitstate[t] # "dead" /\ \A u \in Thread : ~Serves(u, t)
  BY <1>1, JoinableFacts
<1>4. ~Terminated(t)
  <2>1. waitstate[t] # "join"
    <3>1. waitstate[t] = "join" => cont' = [cont EXCEPT ![running] = Await("free", t)]
      BY DEF pthread_join
    <3> QED BY <1>1, <1>2, <3>1, LifeTypes, ServesFacts
  <2> QED BY <1>3, <2>1 DEF Terminated
<1>5. /\ CoreInv'
      /\ \A l \in Lists \ {t, Ready} : list'[l] = list[l]
      /\ ToSet(list'[t]) = ToSet(list[t]) \cup {r}
      /\ ToSet(list'[Ready]) = ToSet(list[Ready]) \ {r}
  <2>1. /\ CoreInv /\ intLevel = 0 /\ running # Idle /\ t \in WaitList \ {Sleeping}
        /\ "thread" \in WaitState /\ "join" \in Ops /\ Block(t, "thread", "join")
    BY <1>1, <1>3, LifeTypes, ThreadAssumption DEF WaitState, Ops, CsOps
  <2> QED BY <2>1, BlockFacts
<1>6. waitstate' = [waitstate EXCEPT ![r] = "thread"]
  BY <1>1, <1>2 DEF Mark
<1> HIDE DEF r
<1>7. /\ waitstate'[r] = "thread" /\ \A s \in Thread \ {r} : waitstate'[s] = waitstate[s]
      /\ cont'[r] = Await("join", t) /\ \A s \in Thread \ {r} : cont'[s] = cont[s]
  BY <1>1, <1>2, <1>6, LifeTypes
<1>8. ThreadTypeOK' /\ RunningReady'
  BY <1>1, <1>5, LifeTypes, RunningStaysReady DEF ThreadInv, ThreadTypeOK, CoreInv
<1>9. ASSUME NEW s \in Thread PROVE Terminated(s)' <=> Terminated(s)
  BY <1>2, <1>7 DEF Terminated
<1>10. ToSet(list[t]) = {}
  BY <1>1 DEF ToSet
<1>11. ASSUME NEW s \in Thread PROVE (Unborn(s) /\ Ended(s) /\ Gone(s) /\ Claims(s))'
  <2>1. Unborn(s) /\ Ended(s) /\ Gone(s) /\ Claims(s)
    BY LifeTypes
  <2>2. \A u \in Thread : Serves(u, s)' <=> Serves(u, s) \/ (s = t /\ u = r)
    BY <1>1, <1>7, ServesFacts DEF Serves
  <2>3. list'[Detached] = list[Detached] /\ (s # t => list'[s] = list[s])
    BY <1>3, <1>5
  <2>4. s # r => \A l \in Lists : s \in ToSet(list'[l]) <=> s \in ToSet(list[l])
    BY <1>5
  <2>5. Unborn(s)'
    <3>1. s = r => ~(stack'[s] = "none" /\ s \in Dynamic)
      BY <1>1, <1>2
    <3>2. s = t => stack'[s] # "none"
      BY <1>1
    <3> QED BY <1>1, <1>7, <2>1, <2>4, <3>1, <3>2 DEF Unborn, Absent
  <2>6. Ended(s)'
    <3>1. CASE s = r
      <4>1. s \notin ToSet(list'[Detached]) /\ waitstate'[s] \notin {"join", "dead"} /\ ~Terminated(s)'
        BY <1>2, <1>7, <1>9, <2>3, <3>1
      <4> QED BY <4>1 DEF Ended
    <3>2. CASE s # r
      <4>1. waitstate'[s] = waitstate[s] /\ cont'[s] = cont[s] /\ cont'[Idle] = cont[Idle]
        BY <1>1, <1>7, <3>2, CoreAssumption
      <4>2. Terminated(s) => s # t
        BY <1>4
      <4> QED BY <1>1, <1>9, <2>1, <2>3, <2>4, <3>2, <4>1, <4>2 DEF Ended
    <3> QED BY <3>1, <3>2
  <2>7. Gone(s)'
    BY <1>1, <1>9, <2>1, <2>2, <2>3 DEF Gone
  <2>8. Claims(s)'
    <3>1. CASE s = t
      <4>1. \A u \in Thread : Serves(u, s)' <=> u = r
        BY <1>3, <2>2, <3>1
      <4>2. /\ cont'[r] = Await("join", s) /\ ~Terminated(s)' /\ ToSet(list'[s]) = {r}
            /\ s \in claimed' /\ detachstate'[s] = "joinable" /\ stack'[s] = "used"
        BY <1>1, <1>4, <1>5, <1>7, <1>9, <1>10, <3>1
      <4>3. \A u \in Thread : cont'[u] # Await("free", s)
        BY <4>1, <4>2, ServesFacts DEF Serves
      <4> QED BY <1>1, <1>2, <3>1, <4>1, <4>2, <4>3 DEF Claims, Serves
    <3>2. CASE s # t
      <4>1. \A u \in Thread : Serves(u, s) => u # r /\ cont'[u] = cont[u]
        BY <1>1, <1>7, ServesFacts DEF Serves
      <4>2. \A u \in Thread : Serves(u, s) /\ u \in ToSet(list[Ready]) => u \in ToSet(list'[Ready])
        BY <1>5, <4>1
      <4>3. waitstate[s] = "dead" => waitstate'[s] = "dead"
        BY <1>2, <1>7 DEF Terminated
      <4>4. \A u \in ToSet(list'[s]) : u \in Thread => cont'[u] = Await("join", s)
        BY <1>7, <2>1, <2>3, <3>2, <1>2 DEF Claims
      <4>5. \A u \in Thread : /\ cont'[u] = Await("join", s) => Serves(u, s) /\ cont[u] = Await("join", s)
                              /\ cont'[u] = Await("free", s) => Serves(u, s) /\ cont[u] = Await("free", s)
        BY <1>7, <3>2, ServesFacts DEF Serves
      <4> QED BY <1>1, <1>9, <2>1, <2>2, <2>3, <3>2, <4>1, <4>2, <4>3, <4>4, <4>5 DEF Claims
    <3> QED BY <3>1, <3>2
  <2> QED BY <2>5, <2>6, <2>7, <2>8
<1> QED BY <1>5, <1>8, <1>11 DEF ThreadInv

\* A thread that has ended before it is joined is freed at once.
LEMMA JoinEndedStep ==
  ASSUME ThreadInv, NEW t \in Dynamic, pthread_join(t), waitstate[t] = "join"
  PROVE  ThreadInv'
<1> USE LifeLists
<1> DEFINE r == running
<1>1. /\ intLevel = 0 /\ r # Idle /\ cont[r] = User
      /\ stack[t] = "used" /\ t \notin claimed /\ detachstate[t] = "joinable"
      /\ t # r /\ claimed' = claimed \cup {t}
      /\ detachstate' = detachstate /\ stack' = stack
      /\ UNCHANGED <<list, running, waitstate, intLevel, ticked>>
      /\ cont' = [cont EXCEPT ![r] = Await("free", t)]
  BY DEF pthread_join, Caller, UserMode, Known
<1>2. r \in Thread /\ r \in ToSet(list[Ready]) /\ ~Terminated(r)
  BY <1>1, CallerFacts
<1>3. t \in Thread /\ Terminated(t) /\ \A u \in Thread : ~Serves(u, t)
  BY <1>1, JoinableFacts
<1> HIDE DEF r
<1>4. /\ cont'[r] = Await("free", t) /\ \A s \in Thread \ {r} : cont'[s] = cont[s]
      /\ cont' \in [Thread -> Continuation]
  <2>1. Await("free", t) \in Continuation
    BY <1>3 DEF Await, Continuation, Ops
  <2> QED BY <1>1, <1>2, <2>1, LifeTypes
<1>5. CoreInv' /\ RunningReady' /\ ThreadTypeOK'
  BY <1>1, <1>4, LifeTypes, QuietStep DEF ThreadInv, ThreadTypeOK, CoreInv
<1>6. ASSUME NEW s \in Thread PROVE (Unborn(s) /\ Ended(s) /\ Gone(s) /\ Claims(s))'
  <2>1. Unborn(s) /\ Ended(s) /\ Gone(s) /\ Claims(s)
    BY LifeTypes
  <2>2. \A u \in Thread : Serves(u, s)' <=> Serves(u, s) \/ (s = t /\ u = r)
    BY <1>1, <1>4, ServesFacts DEF Serves
  <2>3. Terminated(s)' <=> Terminated(s)
    BY <1>1 DEF Terminated
  <2>4. cont'[Idle] = cont[Idle]
    BY <1>1, <1>4, CoreAssumption
  <2>5. Unborn(s)'
    <3>1. s = r => ~(stack'[s] = "none" /\ s \in Dynamic)
      BY <1>1, CallerFacts DEF r
    <3> QED BY <1>1, <1>4, <2>1, <3>1 DEF Unborn, Absent
  <2>6. Ended(s)'
    <3>1. Terminated(s) => cont'[s] = cont[s]
      BY <1>2, <1>4
    <3> QED BY <1>1, <2>1, <2>3, <2>4, <3>1 DEF Ended
  <2>7. Gone(s)'
    BY <1>1, <2>1, <2>2, <2>3 DEF Gone
  <2>8. Claims(s)'
    <3>1. CASE s = t
      <4>1. \A u \in Thread : Serves(u, s)' <=> u = r
        BY <1>3, <2>2, <3>1
      <4>2. \A u \in Thread : cont'[u] # Await("join", s)
        BY <1>4, <4>1, <3>1, ServesFacts DEF Serves
      <4>3. \A u \in Thread : u \notin ToSet(list'[s])
        BY <1>1, <1>3, <2>1, <3>1 DEF Claims, Serves
      <4> QED BY <1>1, <1>2, <1>3, <2>3, <3>1, <4>1, <4>2, <4>3 DEF Claims, Serves
    <3>2. CASE s # t
      <4>1. \A u \in Thread : /\ cont'[u] = Await("join", s) <=> cont[u] = Await("join", s)
                              /\ cont'[u] = Await("free", s) <=> cont[u] = Await("free", s)
        BY <1>1, <1>4, <3>2, ServesFacts
      <4> QED BY <1>1, <2>1, <2>2, <2>3, <3>2, <4>1 DEF Claims
    <3> QED BY <3>1, <3>2
  <2> QED BY <2>5, <2>6, <2>7, <2>8
<1> QED BY <1>5, <1>6 DEF ThreadInv

\* The thread that joins goes on to the free, once the other has ended.
LEMMA ResumeJoinStep ==
  ASSUME ThreadInv, NEW t \in Dynamic, ResumeJoin(t)
  PROVE  ThreadInv'
<1> USE LifeLists
<1> DEFINE r == running
<1>1. /\ intLevel = 0 /\ cont[r] = Await("join", t) /\ t \in Thread
      /\ cont' = [cont EXCEPT ![r] = Await("free", t)]
      /\ UNCHANGED <<list, running, waitstate, intLevel, ticked>>
      /\ detachstate' = detachstate /\ stack' = stack /\ claimed' = claimed
  BY DEF ResumeJoin, Continues, lifeVars
<1>2. /\ r \in Thread /\ r \in ToSet(list[Ready]) /\ ~Terminated(r)
      /\ (r \in Dynamic => stack[r] = "used") /\ \A s \in Thread : r \notin ToSet(list[s])
  BY <1>1, CallerFacts
<1>3. Terminated(t) /\ r # Idle
  BY <1>1, <1>2, LifeTypes DEF Claims
<1> HIDE DEF r
<1>4. /\ cont'[r] = Await("free", t) /\ \A s \in Thread \ {r} : cont'[s] = cont[s]
      /\ cont' \in [Thread -> Continuation]
  <2>1. Await("free", t) \in Continuation
    BY <1>1 DEF Await, Continuation, Ops
  <2> QED BY <1>1, <1>2, <2>1, LifeTypes
<1>5. CoreInv' /\ RunningReady' /\ ThreadTypeOK'
  BY <1>1, <1>4, LifeTypes, QuietStep DEF ThreadInv, ThreadTypeOK, CoreInv
<1>6. ASSUME NEW s \in Thread PROVE (Unborn(s) /\ Ended(s) /\ Gone(s) /\ Claims(s))'
  <2>1. Unborn(s) /\ Ended(s) /\ Gone(s) /\ Claims(s)
    BY LifeTypes
  <2>2. \A u \in Thread : Serves(u, s)' <=> Serves(u, s)
    BY <1>1, <1>4, ServesFacts DEF Serves
  <2>3. Terminated(s)' <=> Terminated(s)
    BY <1>1 DEF Terminated
  <2>4. cont'[Idle] = cont[Idle]
    BY <1>3, <1>4, CoreAssumption
  <2>5. Unborn(s)'
    <3>1. s = r => ~(stack'[s] = "none" /\ s \in Dynamic)
      BY <1>1, <1>2
    <3> QED BY <1>1, <1>4, <2>1, <3>1 DEF Unborn, Absent
  <2>6. Ended(s)'
    <3>1. Terminated(s) => cont'[s] = cont[s]
      BY <1>2, <1>4
    <3> QED BY <1>1, <2>1, <2>3, <2>4, <3>1 DEF Ended
  <2>7. Gone(s)'
    BY <1>1, <2>1, <2>2, <2>3 DEF Gone
  <2>8. Claims(s)'
    <3>1. \A u \in Thread : /\ cont'[u] = Await("join", s) => cont[u] = Await("join", s)
                            /\ cont'[u] = Await("free", s) => cont[u] = Await("free", s) \/ (u = r /\ s = t)
      BY <1>1, <1>4, ServesFacts
    <3>2. \A u \in Thread : u \in ToSet(list[s]) => u # r
      BY <1>2
    <3> QED BY <1>1, <1>2, <1>3, <1>4, <2>1, <2>2, <2>3, <3>1, <3>2 DEF Claims
  <2> QED BY <2>5, <2>6, <2>7, <2>8
<1> QED BY <1>5, <1>6 DEF ThreadInv

\* The free of a stack: nobody else is going to free it.
LEMMA FreeStep ==
  ASSUME ThreadInv, NEW t \in Dynamic, Free(t)
  PROVE  ThreadInv'
<1> USE LifeLists
<1> DEFINE r == running
<1>1. /\ intLevel = 0 /\ cont[r] = Await("free", t) /\ t \in Thread
      /\ cont' = [cont EXCEPT ![r] = User]
      /\ stack' = [stack EXCEPT ![t] = IF @ = "used" THEN "freed" ELSE "freed twice"]
      /\ UNCHANGED <<list, running, waitstate, intLevel, ticked>>
      /\ detachstate' = detachstate /\ claimed' = claimed
  BY DEF Free, Continues
<1>2. r \in Thread /\ (r \in Dynamic => stack[r] = "used")
  BY <1>1, CallerFacts
<1>3. /\ stack[t] = "used" /\ Terminated(t) /\ r # t
      /\ \A u \in Thread : Serves(u, t) => u = r
      /\ IF r = Idle THEN waitstate[t] = "dead" ELSE t \in claimed
  <2>1. Serves(r, t)
    BY <1>1 DEF Serves
  <2> QED BY <1>1, <1>2, <2>1, LifeTypes DEF Claims
<1>4. t \notin ToSet(list[Detached])
  <2>1. CASE r = Idle
    BY <1>1, <2>1, LifeTypes DEF Ended
  <2>2. CASE r # Idle
    <3>1. waitstate[t] # "dead"
      BY <1>1, <1>3, <2>2, LifeTypes DEF Claims, Ended
    <3> QED BY <1>1, <3>1, LifeTypes DEF Ended
  <2> QED BY <2>1, <2>2
<1> HIDE DEF r
<1>5. /\ cont'[r] = User /\ \A s \in Thread \ {r} : cont'[s] = cont[s]
      /\ cont' \in [Thread -> Continuation]
      /\ stack'[t] = "freed" /\ \A s \in Thread \ {t} : stack'[s] = stack[s]
      /\ stack' \in [Thread -> StackState]
  <2>1. User \in Continuation
    BY DEF User, Continuation, Ops
  <2> QED BY <1>1, <1>2, <1>3, <2>1, LifeTypes DEF StackState
<1>6. CoreInv' /\ RunningReady' /\ ThreadTypeOK'
  BY <1>1, <1>5, LifeTypes, QuietStep DEF ThreadInv, ThreadTypeOK, CoreInv
<1>7. ASSUME NEW s \in Thread PROVE (Unborn(s) /\ Ended(s) /\ Gone(s) /\ Claims(s))'
  <2>1. Unborn(s) /\ Ended(s) /\ Gone(s) /\ Claims(s)
    BY LifeTypes
  <2>2. /\ \A u \in Thread : /\ cont'[u] = Await("join", s) => cont[u] = Await("join", s) /\ u # r
                             /\ cont'[u] = Await("free", s) => cont[u] = Await("free", s) /\ u # r
                             /\ cont[u] = Await("join", s) => cont'[u] = Await("join", s)
                             /\ u # r => cont'[u] = cont[u]
    BY <1>1, <1>5, ServesFacts
  <2>3. \A u \in Thread : Serves(u, s)' => Serves(u, s) /\ u # r
    BY <2>2 DEF Serves
  <2>4. Terminated(s)' <=> Terminated(s)
    BY <1>1 DEF Terminated
  <2>5. s # t => (cont[Idle] = Await("free", s) <=> cont'[Idle] = Await("free", s))
    BY <1>1, <1>5, ServesFacts, CoreAssumption
  <2>6. Unborn(s)'
    <3>1. s = r => ~(stack'[s] = "none" /\ s \in Dynamic)
      BY <1>2, <1>5
    <3>2. s # r => cont'[s] = cont[s]
      BY <1>5
    <3>3. stack'[s] = "none" => stack[s] = "none"
      BY <1>5
    <3> QED BY <1>1, <2>1, <3>1, <3>2, <3>3 DEF Unborn, Absent
  <2>7. Ended(s)'
    <3>1. Terminated(s) => cont'[s] = User
      BY <1>5, <2>1 DEF Ended
    <3>2. CASE s = t
      BY <1>1, <1>4, <1>5, <2>1, <2>4, <3>1, <3>2 DEF Ended
    <3>3. CASE s # t
      <4>1. stack'[s] = stack[s]
        BY <1>5, <3>3
      <4> QED BY <1>1, <2>1, <2>4, <2>5, <3>1, <3>3, <4>1 DEF Ended
    <3> QED BY <3>2, <3>3
  <2>8. Gone(s)'
    <3>1. CASE s = t
      <4>1. \A u \in Thread : ~Serves(u, s)'
        BY <1>3, <2>3, <3>1
      <4> QED BY <1>1, <1>3, <1>4, <1>5, <2>4, <3>1, <4>1 DEF Gone
    <3>2. CASE s # t
      BY <1>1, <1>5, <2>1, <2>3, <2>4, <3>2 DEF Gone
    <3> QED BY <3>1, <3>2
  <2>9. Claims(s)'
    <3>1. s \in claimed => detachstate[s] = "joinable" /\ stack'[s] # "none"
      BY <1>5, <2>1 DEF Claims
    <3>2. ASSUME NEW u \in Thread, Serves(u, s)'
          PROVE  s \in Dynamic /\ stack'[s] = "used" /\ u # s
                 /\ (IF u = Idle THEN waitstate[s] = "dead" ELSE s \in claimed)
      <4>1. Serves(u, s) /\ u # r
        BY <2>3, <3>2
      <4>2. s # t
        BY <1>3, <4>1
      <4> QED BY <1>5, <2>1, <4>1, <4>2 DEF Claims
    <3>3. ASSUME NEW u \in Thread, NEW v \in Thread, Serves(u, s)', Serves(v, s)' PROVE u = v
      BY <2>1, <2>3, <3>3 DEF Claims
    <3>4. \A u \in Thread :
       /\ cont'[u] = Await("free", s) => Terminated(s)' /\ u \in ToSet(list'[Ready])
       /\ cont'[u] = Await("join", s) =>
            u # Idle /\ u \in IF Terminated(s)' THEN ToSet(list'[Ready]) ELSE ToSet(list'[s])
       /\ u \in ToSet(list'[s]) => cont'[u] = Await("join", s)
      BY <1>1, <2>1, <2>2, <2>4 DEF Claims
    <3> QED BY <1>1, <3>1, <3>2, <3>3, <3>4 DEF Claims
  <2> QED BY <2>6, <2>7, <2>8, <2>9
<1> QED BY <1>6, <1>7 DEF ThreadInv

\* A detached thread has not been claimed and never will be.
LEMMA DetachStep ==
  ASSUME ThreadInv, NEW t \in Dynamic, pthread_detach(t)
  PROVE  ThreadInv'
<1> USE LifeLists
<1>1. /\ t \in Thread /\ t \notin claimed /\ detachstate[t] = "joinable"
      /\ detachstate' = [detachstate EXCEPT ![t] = "detached"]
      /\ UNCHANGED <<list, running, waitstate, intLevel, ticked>>
      /\ cont' = cont /\ stack' = stack /\ claimed' = claimed
  BY DEF pthread_detach, coreVars
<1>2. /\ detachstate'[t] = "detached" /\ \A s \in Thread \ {t} : detachstate'[s] = detachstate[s]
      /\ detachstate' \in [Thread -> {"joinable", "detached"}]
  BY <1>1, LifeTypes
<1>3. CoreInv' /\ RunningReady' /\ ThreadTypeOK'
  BY <1>1, <1>2, LifeTypes, QuietStep DEF ThreadInv, ThreadTypeOK, CoreInv
<1>4. ASSUME NEW s \in Thread PROVE (Unborn(s) /\ Ended(s) /\ Gone(s) /\ Claims(s))'
  <2>1. Unborn(s) /\ Ended(s) /\ Gone(s) /\ Claims(s)
    BY LifeTypes
  <2>2. /\ Terminated(s)' <=> Terminated(s)
        /\ \A u \in Thread : Serves(u, s)' <=> Serves(u, s)
    BY <1>1 DEF Terminated, Serves
  <2>3. s \in claimed => detachstate'[s] = detachstate[s]
    BY <1>1, <1>2
  <2>4. detachstate[s] = "detached" => detachstate'[s] = "detached"
    BY <1>1, <1>2
  <2>5. Unborn(s)'
    BY <1>1, <2>1 DEF Unborn, Absent
  <2>6. Ended(s)'
    BY <1>1, <2>1, <2>2, <2>4 DEF Ended
  <2>7. Gone(s)'
    BY <1>1, <2>1, <2>2 DEF Gone
  <2>8. Claims(s)'
    BY <1>1, <2>1, <2>2, <2>3 DEF Claims
  <2> QED BY <2>5, <2>6, <2>7, <2>8
<1> QED BY <1>3, <1>4 DEF ThreadInv

\* The idle thread unlinks a detached thread before it frees it.
LEMMA IdleStep ==
  ASSUME ThreadInv, tth_idle
  PROVE  ThreadInv'
<1> USE LifeLists
<1> DEFINE h == Head(list[Detached])
<1>1. /\ intLevel = 0 /\ running = Idle /\ cont[Idle] = User /\ list[Detached] # <<>>
      /\ list' = Unlink(list, Detached)
      /\ cont' = [cont EXCEPT ![Idle] = Await("free", h)]
      /\ UNCHANGED <<running, waitstate, intLevel, ticked>>
      /\ detachstate' = detachstate /\ stack' = stack /\ claimed' = claimed
  BY DEF tth_idle, UserMode, lifeVars
<1>2. /\ list' = [list EXCEPT ![Detached] = Tail(@)]
      /\ list'[Detached] = Tail(list[Detached])
      /\ \A l \in Lists \ {Detached} : list'[l] = list[l]
  BY <1>1, LifeTypes DEF Unlink, ListsOK
<1>3. /\ ListsOK(list') /\ LinkedOnce(list') /\ h \in Thread
      /\ h \notin ToSet(list'[Detached])
      /\ ToSet(list[Detached]) = ToSet(list'[Detached]) \cup {h}
  <2> DEFINE M == [list EXCEPT ![Detached] = Tail(@)]
  <2>1. /\ ListsOK(M) /\ LinkedOnce(M) /\ Head(list[Detached]) \in Thread
        /\ Absent(M, Head(list[Detached]))
        /\ ToSet(list[Detached]) = ToSet(M[Detached]) \cup {Head(list[Detached])}
    BY <1>1, LifeTypes, PopFacts
  <2> HIDE DEF M
  <2>2. list' = M
    BY <1>2 DEF M
  <2> QED BY <2>1, <2>2 DEF Absent
<1>4. SortedLists(list')
  <2>1. Ordered(Tail(list[Detached]))
    BY <1>1, LifeTypes, TailOrdered DEF SortedLists, ListsOK
  <2> QED BY <1>2, <2>1, LifeTypes DEF SortedLists
<1> HIDE DEF h
<1>5. /\ waitstate[h] = "dead" /\ stack[h] = "used" /\ h \in Dynamic /\ h # Idle
      /\ detachstate[h] = "detached" /\ h \notin claimed
      /\ \A u \in Thread : ~Serves(u, h)
  <2>1. /\ waitstate[h] = "dead" /\ stack[h] = "used" /\ detachstate[h] = "detached"
        /\ h \in Dynamic
    BY <1>3, LifeTypes DEF Ended, Terminated
  <2>2. h \notin claimed
    BY <1>3, <2>1, LifeTypes DEF Claims
  <2>3. ~Serves(Idle, h)
    BY <1>1, ServesFacts, <1>3 DEF Serves
  <2> QED BY <1>3, <2>1, <2>2, <2>3, LifeTypes DEF Claims
<1>6. /\ cont'[Idle] = Await("free", h) /\ \A s \in Thread \ {Idle} : cont'[s] = cont[s]
      /\ cont' \in [Thread -> Continuation]
  <2>1. Await("free", h) \in Continuation
    BY <1>3 DEF Await, Continuation, Ops
  <2> QED BY <1>1, <2>1, LifeTypes, CoreAssumption
<1>7. CoreInv'
  <2>1. Idle \in ToSet(list'[Ready]) /\ list'[Ready] = list[Ready]
    BY <1>2 DEF ThreadInv, CoreInv, IdleReady
  <2>2. Switch
    BY <1>1, <2>1 DEF Switch, ThreadInv, CoreInv, RunningIsHead
  <2>3. waitstate' \in [Thread -> WaitState]
    BY <1>1, LifeTypes
  <2> QED BY <1>1, <1>3, <1>4, <1>6, <2>1, <2>2, <2>3, LifeTypes, RelinkFacts
<1>8. ThreadTypeOK' /\ RunningReady'
  BY <1>1, <1>2, <1>7, LifeTypes DEF ThreadInv, ThreadTypeOK, CoreInv, RunningReady
<1>9. ASSUME NEW s \in Thread PROVE (Unborn(s) /\ Ended(s) /\ Gone(s) /\ Claims(s))'
  <2>1. Unborn(s) /\ Ended(s) /\ Gone(s) /\ Claims(s)
    BY LifeTypes
  <2>2. Terminated(s)' <=> Terminated(s)
    BY <1>1 DEF Terminated
  <2>3. \A u \in Thread : /\ cont'[u] = Await("join", s) <=> cont[u] = Await("join", s)
                          /\ cont'[u] = Await("free", s) <=>
                               cont[u] = Await("free", s) \/ (u = Idle /\ s = h)
    BY <1>1, <1>3, <1>6, ServesFacts
  <2>4. \A u \in Thread : Serves(u, s)' <=> Serves(u, s) \/ (u = Idle /\ s = h)
    BY <2>3 DEF Serves
  <2>5. /\ list'[s] = list[s] /\ list'[Ready] = list[Ready]
        /\ \A l \in Lists : s \in ToSet(list'[l]) => s \in ToSet(list[l])
    BY <1>2, <1>3
  <2>6. Unborn(s)'
    BY <1>1, <1>6, <2>1, <2>5 DEF Unborn, Absent
  <2>7. Ended(s)'
    <3>1. Idle \in Thread /\ ~Terminated(Idle)
      BY <1>1, CallerFacts
    <3>2. Terminated(s) => cont'[s] = cont[s]
      BY <1>6, <3>1
    <3>3. s # h => (s \in ToSet(list'[Detached]) <=> s \in ToSet(list[Detached]))
      BY <1>3
    <3>4. \A l \in Lists \ {Detached} : list'[l] = list[l]
      BY <1>2
    <3>5. cont'[Idle] = Await("free", s) <=> s = h
      <4>1. cont[Idle] # Await("free", s)
        BY <1>1, ServesFacts
      <4> QED BY <2>3, <3>1, <4>1
    <3>6. CASE s = h
      BY <1>1, <1>3, <1>5, <2>1, <2>2, <2>5, <3>2, <3>4, <3>5, <3>6 DEF Ended
    <3>7. CASE s # h
      <4>1. cont[Idle] # Await("free", s)
        BY <1>1, ServesFacts
      <4> QED BY <1>1, <2>1, <2>2, <2>5, <3>2, <3>3, <3>4, <3>5, <3>7, <4>1 DEF Ended
    <3> QED BY <3>6, <3>7
  <2>8. Gone(s)'
    BY <1>1, <1>5, <2>1, <2>2, <2>4, <2>5 DEF Gone
  <2>9. Claims(s)'
    <3>1. Idle \in Thread /\ Idle \in ToSet(list[Ready])
      BY CoreAssumption DEF ThreadInv, CoreInv, IdleReady
    <3>2. CASE s = h
      <4>1. \A u \in Thread : /\ Serves(u, s)' <=> u = Idle
                              /\ cont'[u] # Await("join", s) /\ u \notin ToSet(list'[s])
        BY <1>5, <2>1, <2>3, <2>4, <2>5, <3>2 DEF Claims, Serves
      <4>2. Terminated(s)' /\ waitstate'[s] = "dead" /\ stack'[s] = "used" /\ s \notin claimed'
        BY <1>1, <1>5, <2>2, <3>2 DEF Terminated
      <4> QED BY <1>5, <2>3, <2>5, <3>1, <3>2, <4>1, <4>2 DEF Claims, Serves
    <3>3. CASE s # h
      BY <1>1, <2>1, <2>2, <2>3, <2>4, <2>5, <3>3 DEF Claims
    <3> QED BY <3>2, <3>3
  <2> QED BY <2>6, <2>7, <2>8, <2>9
<1> QED BY <1>7, <1>8, <1>9 DEF ThreadInv

-----------------------------------------------------------------------------
(* Every state *)

\* The scheduler moves threads that are ready or asleep, and those live.
LEMMA ThreadSchedulerStep ==
  ASSUME ThreadInv, CoreNext, UNCHANGED lifeVars
  PROVE  ThreadInv'
<1>1. CoreInv /\ RunningReady
  BY DEF ThreadInv
<1>2. CoreInv' /\ CoreFrame /\ RunningReady'
  BY <1>1, CoreStep, SchedulerKeepsReady
<1>3. \A t \in Thread :
           /\ waitstate'[t] # waitstate[t] =>
                /\ waitstate'[t] \in {"ready", "sleep"}
                /\ t \in ToSet(list[Ready]) \cup ToSet(list[Sleeping])
           /\ t \in ToSet(list'[Ready]) \cup ToSet(list'[Sleeping]) =>
                t \in ToSet(list[Ready]) \cup ToSet(list[Sleeping])
  BY <1>1, SchedulerMarks
<1> QED BY <1>2, <1>3, ThreadFrame DEF CoreFrame

\* A step of a thread's life.
LEMMA LifeStep ==
  ASSUME ThreadInv, ThreadStep
  PROVE  ThreadInv'
<1>1. ASSUME NEW t \in Dynamic, NEW d \in {"joinable", "detached"}, pthread_create(t, d)
      PROVE  ThreadInv'
  BY <1>1, CreateStep
<1>2. ASSUME NEW t \in Dynamic, pthread_join(t) PROVE ThreadInv'
  <2>1. Block(t, "thread", "join") \/ waitstate[t] = "join"
    BY <1>2 DEF pthread_join
  <2> QED BY <1>2, <2>1, JoinBlockStep, JoinEndedStep
<1>3. ASSUME NEW t \in Dynamic, ResumeJoin(t) PROVE ThreadInv'
  BY <1>3, ResumeJoinStep
<1>4. ASSUME NEW t \in Dynamic, Free(t) PROVE ThreadInv'
  BY <1>4, FreeStep
<1>5. ASSUME NEW t \in Dynamic, pthread_detach(t) PROVE ThreadInv'
  BY <1>5, DetachStep
<1>6. CASE pthread_exit
  <2>1. ExitJoinable \/ ExitDetached
    BY <1>6 DEF pthread_exit
  <2> QED BY <1>6, <2>1, ExitJoinableStep, ExitDetachedStep
<1>7. CASE tth_idle
  BY <1>7, IdleStep
<1> QED BY <1>1, <1>2, <1>3, <1>4, <1>5, <1>6, <1>7 DEF ThreadStep

\* A stuttering step.
LEMMA ThreadStutter == ThreadInv /\ UNCHANGED threadVars => ThreadInv'
<1> SUFFICES ASSUME ThreadInv, UNCHANGED threadVars PROVE ThreadInv'
  OBVIOUS
<1>1. /\ UNCHANGED <<list, running, waitstate, intLevel, ticked>> /\ cont' = cont
      /\ UNCHANGED lifeVars
  BY DEF threadVars, lifeVars
<1>2. CoreInv' /\ RunningReady'
  <2>1. cont' \in [Thread -> Continuation]
    BY <1>1, LifeTypes
  <2> QED BY <1>1, <2>1, QuietStep DEF ThreadInv
<1> QED BY <1>1, <1>2, ThreadFrame

\* The invariant, step by step.
LEMMA ThreadInductive == ThreadInv /\ [ThreadNext]_threadVars => ThreadInv'
BY LifeStep, ThreadSchedulerStep, ThreadStutter DEF ThreadNext

\* It holds in every state.
LEMMA ThreadInvariant == ThreadSpec => []ThreadInv
<1> QED BY ThreadInitial, ThreadInductive, PTL DEF ThreadSpec

\* Control blocks, stacks and claims hold what they may, and the scheduler
\* below is sound, whatever threads are created, end and are freed.
THEOREM ThreadTypeCorrect == ThreadSpec => [](ThreadTypeOK /\ SchedulerSound)
<1>1. ThreadInv => ThreadTypeOK /\ SchedulerSound
  BY DEF ThreadInv, CoreInv, SchedulerSound
<1> QED BY <1>1, ThreadInvariant, PTL

\* However joins, detaches and ends of threads come together, no stack is
\* freed twice (tth_thread.c:284, :15).
THEOREM StacksFreedOnce == ThreadSpec => []FreedOnce
<1>1. ThreadInv => FreedOnce
  BY DEF ThreadInv, Gone, FreedOnce
<1> QED BY <1>1, ThreadInvariant, PTL

\* A control block in a freed stack is out of reach: of the lists, of the
\* scheduler and of every call in progress.
THEOREM FreedUnreachable == ThreadSpec => []NoUseAfterFree
<1>1. ASSUME ThreadInv PROVE NoUseAfterFree
  <2> SUFFICES ASSUME NEW t \in Dynamic, stack[t] = "freed"
               PROVE  /\ running # t /\ list[t] = <<>>
                      /\ \A l \in Lists : t \notin ToSet(list[l])
                      /\ \A u \in Thread : cont[u] \notin {Await("free", t), Await("join", t)}
    BY DEF NoUseAfterFree
  <2>1. t \in Thread
    BY LifeLists
  <2>2. Terminated(t) /\ t \notin ToSet(list[Detached]) /\ \A u \in Thread : ~Serves(u, t)
    BY <1>1, <2>1 DEF ThreadInv, Gone
  <2>3. list[t] = <<>> /\ \A l \in Lists : t \notin ToSet(list[l])
    BY <1>1, <2>1, <2>2 DEF ThreadInv, Ended
  <2>4. running # t
    BY <1>1, <2>3, LifeLists DEF ThreadInv, RunningReady
  <2> QED BY <2>2, <2>3, <2>4 DEF Serves
<1> QED BY <1>1, ThreadInvariant, PTL

\* A pthread_join returns after the end of the thread it names.
THEOREM JoinWaits == ThreadSpec => []JoinedAfterExit
<1>1. ASSUME ThreadInv PROVE JoinedAfterExit
  <2> SUFFICES ASSUME NEW t \in Dynamic, NEW u \in Thread,
                      \/ cont[u] = Await("free", t)
                      \/ cont[u] = Await("join", t) /\ u \in ToSet(list[Ready])
               PROVE  Terminated(t)
    BY DEF JoinedAfterExit
  <2>1. t \in Thread /\ t \in Lists /\ t # Ready /\ Ready \in Lists
    BY LifeLists
  <2>2. u \in ToSet(list[Ready]) => u \notin ToSet(list[t])
    BY <1>1, <2>1, LinkedOnceByList DEF ThreadInv, CoreInv, OneList
  <2> QED BY <1>1, <2>1, <2>2 DEF ThreadInv, Claims
<1> QED BY <1>1, ThreadInvariant, PTL

\* Who terminated detached is freed, or on its way: no such stack is lost.
THEOREM DeadAreReclaimed == ThreadSpec => []DeadReclaimed
<1>1. ASSUME ThreadInv PROVE DeadReclaimed
  BY <1>1, LifeLists DEF ThreadInv, Ended, DeadReclaimed
<1> QED BY <1>1, ThreadInvariant, PTL
=============================================================================
