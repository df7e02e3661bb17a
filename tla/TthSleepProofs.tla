--------------------------- MODULE TthSleepProofs ---------------------------
(***************************************************************************)
(* usleep and the tick for any number of threads, any range of the clock   *)
(* that is more than twice the longest sleep and a tick, and every value   *)
(* of the clock at the start.  The argument: while the processor is        *)
(* outside an interrupt every sleeper has more than nothing and at most    *)
(* the longest sleep left, so that the differences of times that wrap      *)
(* around are true differences; the walk of usleep keeps the sleepers in   *)
(* the order of what they have left, and the loop of the tick, which looks *)
(* at the head alone, leaves nobody behind.                                *)
(***************************************************************************)
EXTENDS TthSleep, TthCoreProofs

\* What a sleeper has left by the clock of the library, which stands still
\* between the ticks.
Due(t) == SignedDiff(timeout[t], time)

\* By that clock a sleeper is woken in time, and real time is ahead of it by no
\* more than what has passed since the tick.
SleepersTimed ==
  \A t \in ToSet(list[Sleeping]) :
    /\ Due(t) \in 1-TickUs..MaxDuration
    /\ intLevel = 0 \/ ticked => Due(t) > 0
    /\ left[t] >= Due(t) - phase

\* The sleepers are in the order of what they have left.
DueOrder ==
  \A i, j \in DOMAIN list[Sleeping] : i <= j =>
    Due(list[Sleeping][i]) <= Due(list[Sleeping][j])

SleepInv ==
  /\ CoreInv
  /\ SleepTypeOK
  /\ SleepersTimed
  /\ DueOrder
  /\ intLevel # 0 => phase = 0

-----------------------------------------------------------------------------
(* Times that wrap around *)

Time == 0..TimeMod-1

\* The constants, as the lemmas use them.
LEMMA TimeFacts ==
  /\ TimeMod \in Nat \ {0} /\ TickUs \in Nat \ {0} /\ MaxDuration \in Nat
  /\ 2 * (MaxDuration + TickUs) < TimeMod
  /\ \A us \in Durations : us \in 1..MaxDuration
BY SleepAssumption

\* Unsigned sums and differences of times.
LEMMA Unsigned ==
  ASSUME NEW x \in -TimeMod..2*TimeMod-1
  PROVE  x % TimeMod = IF x < 0 THEN x + TimeMod ELSE IF x < TimeMod THEN x ELSE x - TimeMod
<1> DEFINE C == TimeMod
<1>1. C \in Nat \ {0}
  BY TimeFacts
<1> HIDE DEF C
<1>2. \A y \in -C..2*C-1 : y % C = IF y < 0 THEN y + C ELSE IF y < C THEN y ELSE y - C
  BY <1>1
<1> QED BY <1>2 DEF C

\* The signed difference, as the processor computes it.
LEMMA Signed ==
  ASSUME NEW a \in Time, NEW b \in Time
  PROVE  SignedDiff(a, b) =
           LET d == IF a < b THEN a - b + TimeMod ELSE a - b
           IN  IF d >= TimeMod \div 2 THEN d - TimeMod ELSE d
<1>1. a - b \in -TimeMod..2*TimeMod-1 /\ (a - b < 0 <=> a < b) /\ a - b < TimeMod
  BY TimeFacts DEF Time
<1>2. (a - b) % TimeMod = IF a < b THEN a - b + TimeMod ELSE a - b
  BY <1>1, Unsigned
<1> QED BY <1>2 DEF SignedDiff

\* The half of the range that positive differences have.
LEMMA HalfRange ==
  TimeMod \div 2 \in Nat /\ MaxDuration + TickUs <= TimeMod \div 2 /\ 2 * (TimeMod \div 2) <= TimeMod
<1> DEFINE C == TimeMod
           M == MaxDuration + TickUs
<1>1. C \in Nat /\ M \in Nat /\ 2 * M < C
  BY TimeFacts
<1> HIDE DEF C, M
<1>2. C \div 2 \in Nat /\ M <= C \div 2 /\ 2 * (C \div 2) <= C
  BY <1>1
<1> QED BY <1>2 DEF C, M

\* A timeout, us from now.
LEMMA TimeoutSet ==
  ASSUME NEW b \in Time, NEW us \in 1..MaxDuration
  PROVE  (b + us) % TimeMod \in Time /\ SignedDiff((b + us) % TimeMod, b) = us
<1> DEFINE a == (b + us) % TimeMod
<1>1. a = IF b + us < TimeMod THEN b + us ELSE b + us - TimeMod
  <2>1. b \in 0..TimeMod-1 /\ us \in 0..TimeMod-1 /\ TimeMod \in Nat
    BY TimeFacts DEF Time
  <2>2. b + us \in -TimeMod..2*TimeMod-1 /\ b + us >= 0
    BY <2>1
  <2> QED BY <2>1, <2>2, Unsigned
<1> HIDE DEF a
<1>2. a \in Time
  BY <1>1, TimeFacts DEF Time
<1>3. SignedDiff(a, b) = LET d == IF a < b THEN a - b + TimeMod ELSE a - b
                         IN  IF d >= TimeMod \div 2 THEN d - TimeMod ELSE d
  BY <1>2, Signed
<1>4. us < TimeMod \div 2 /\ TimeMod \in Nat /\ us \in Nat /\ b \in Nat /\ b < TimeMod /\ us > 0
  BY HalfRange, TimeFacts DEF Time
<1>5. (IF a < b THEN a - b + TimeMod ELSE a - b) = us
  BY <1>1, <1>4, TimeFacts, HalfRange
<1> QED BY <1>2, <1>3, <1>4, <1>5 DEF a

\* The tick takes its length from what is left, also over the wrap-around.
LEMMA TimePasses ==
  ASSUME NEW a \in Time, NEW b \in Time, SignedDiff(a, b) \in 1..MaxDuration
  PROVE  /\ (b + TickUs) % TimeMod \in Time
         /\ SignedDiff(a, (b + TickUs) % TimeMod) = SignedDiff(a, b) - TickUs
<1> DEFINE c == (b + TickUs) % TimeMod
           H == TimeMod \div 2
           x == SignedDiff(a, b)
<1>1. c = IF b + TickUs < TimeMod THEN b + TickUs ELSE b + TickUs - TimeMod
  <2>1. b \in 0..TimeMod-1 /\ TickUs \in 0..TimeMod-1 /\ TimeMod \in Nat
    BY TimeFacts DEF Time
  <2>2. b + TickUs \in -TimeMod..2*TimeMod-1 /\ b + TickUs >= 0
    BY <2>1
  <2> QED BY <2>1, <2>2, Unsigned
<1> HIDE DEF c
<1>2. c \in Time
  BY <1>1, TimeFacts DEF Time
<1>3. /\ SignedDiff(a, c) = LET d == IF a < c THEN a - c + TimeMod ELSE a - c
                            IN  IF d >= H THEN d - TimeMod ELSE d
      /\ x = LET d == IF a < b THEN a - b + TimeMod ELSE a - b
             IN  IF d >= H THEN d - TimeMod ELSE d
  BY <1>2, Signed
<1>4. H \in Nat /\ MaxDuration + TickUs <= H /\ 2 * H <= TimeMod
  BY HalfRange
<1>5. x \in 1..MaxDuration
  OBVIOUS
<1> HIDE DEF H, x
<1>6. x = IF a < b THEN a - b + TimeMod ELSE a - b
  BY <1>3, <1>4, <1>5, TimeFacts DEF Time
<1>7. SignedDiff(a, c) = x - TickUs
  BY <1>1, <1>3, <1>4, <1>5, <1>6, TimeFacts DEF Time
<1> QED BY <1>2, <1>7 DEF c, x

\* The unsigned difference that usleep compares is the signed one that the tick
\* does, as long as nobody is due.
LEMMA RemainingIsDue ==
  ASSUME NEW t \in Thread, timeout[t] \in Time, time \in Time, Due(t) \in 1..MaxDuration
  PROVE  Remaining(t) = Due(t)
<1> DEFINE a == timeout[t]
           d == (a - time) % TimeMod
           H == TimeMod \div 2
<1>1. a - time \in -TimeMod..2*TimeMod-1
  BY TimeFacts DEF Time
<1>2. d = IF a - time < 0 THEN a - time + TimeMod ELSE a - time
  BY <1>1, Unsigned, TimeFacts DEF Time
<1>3. d \in Time
  BY <1>2, TimeFacts DEF Time
<1>4. Due(t) = IF d >= H THEN d - TimeMod ELSE d
  BY DEF Due, SignedDiff
<1>5. d = Remaining(t)
  BY DEF Remaining
<1> HIDE DEF d, H
<1>6. d - TimeMod < 0
  BY <1>3, TimeFacts DEF Time
<1> QED BY <1>3, <1>4, <1>5, <1>6, TimeFacts DEF Time

\* Timeouts that are in order by what is left are in order among themselves.
LEMMA DueOrdersTimeouts ==
  ASSUME NEW a \in Time, NEW b \in Time, NEW n \in Time,
         SignedDiff(a, n) \in 1-TickUs..MaxDuration, SignedDiff(b, n) \in 1-TickUs..MaxDuration,
         SignedDiff(a, n) <= SignedDiff(b, n)
  PROVE  SignedDiff(a, b) <= 0
<1> DEFINE H == TimeMod \div 2
           x == SignedDiff(a, n)
           y == SignedDiff(b, n)
<1>1. /\ SignedDiff(a, b) = LET d == IF a < b THEN a - b + TimeMod ELSE a - b
                            IN  IF d >= H THEN d - TimeMod ELSE d
      /\ x = LET d == IF a < n THEN a - n + TimeMod ELSE a - n
             IN  IF d >= H THEN d - TimeMod ELSE d
      /\ y = LET d == IF b < n THEN b - n + TimeMod ELSE b - n
             IN  IF d >= H THEN d - TimeMod ELSE d
  BY Signed
<1>2. H \in Nat /\ MaxDuration + TickUs <= H /\ 2 * H <= TimeMod
  BY HalfRange
<1>3. x \in 1-TickUs..MaxDuration /\ y \in 1-TickUs..MaxDuration /\ x <= y
  OBVIOUS
<1> HIDE DEF H, x, y
<1>4. x \in {a - n, a - n + TimeMod, a - n - TimeMod} /\ y \in {b - n, b - n + TimeMod, b - n - TimeMod}
  BY <1>1, TimeFacts DEF Time
<1>5. y - x \in 0..H-1
  BY <1>2, <1>3, TimeFacts
<1>6. b - a \in {y - x, y - x - TimeMod}
  BY <1>2, <1>4, <1>5, TimeFacts DEF Time
<1> QED BY <1>1, <1>2, <1>5, <1>6, TimeFacts DEF Time

-----------------------------------------------------------------------------
(* The list of the sleepers *)

\* The types, as the proofs of the steps need them.
LEMMA SleepTypes ==
  ASSUME SleepInv
  PROVE  /\ list[Sleeping] \in Seq(Thread) /\ Len(list[Sleeping]) \in Nat
         /\ DOMAIN list[Sleeping] = 1..Len(list[Sleeping])
         /\ \A i \in 1..Len(list[Sleeping]) :
              list[Sleeping][i] \in Thread /\ list[Sleeping][i] \in ToSet(list[Sleeping])
         /\ \A t \in ToSet(list[Sleeping]) : t \in Thread
         /\ time \in Time /\ timeout \in [Thread -> Time] /\ phase \in 0..TickUs
         /\ left \in [Thread -> -TickUs..MaxDuration] /\ slice \in 0..Interval-1
         /\ list \in [Lists -> Seq(Thread)] /\ ListsOK(list) /\ LinkedOnce(list)
<1>1. list[Sleeping] \in Seq(Thread) /\ list \in [Lists -> Seq(Thread)]
  BY ListNames DEF SleepInv, CoreInv, CoreTypeOK
<1>2. ListsOK(list) /\ LinkedOnce(list)
  BY <1>1 DEF SleepInv, CoreInv, OneList, ListsOK
<1>3. /\ time \in Time /\ timeout \in [Thread -> Time] /\ phase \in 0..TickUs
      /\ left \in [Thread -> -TickUs..MaxDuration] /\ slice \in 0..Interval-1
  BY DEF SleepInv, SleepTypeOK, Time
<1>4. /\ Len(list[Sleeping]) \in Nat /\ DOMAIN list[Sleeping] = 1..Len(list[Sleeping])
      /\ \A i \in 1..Len(list[Sleeping]) : list[Sleeping][i] \in Thread
  BY <1>1, LenProperties, ElementOfSeq
<1>5. /\ \A i \in 1..Len(list[Sleeping]) : list[Sleeping][i] \in ToSet(list[Sleeping])
      /\ \A t \in ToSet(list[Sleeping]) : t \in Thread
  BY <1>4 DEF ToSet
<1> QED BY <1>1, <1>2, <1>3, <1>4, <1>5

\* The walk of usleep ends at a place of the list.
LEMMA SleepPosFacts ==
  ASSUME SleepInv, NEW us \in 1..MaxDuration
  PROVE  LET q == list[Sleeping]
             p == SleepPos(us)
         IN  /\ p \in 1..Len(q)+1
             /\ \A i \in 1..p-1 : Remaining(q[i]) < us
             /\ p <= Len(q) => Remaining(q[p]) >= us
<1> DEFINE q == list[Sleeping]
           P == {p \in 1..Len(q)+1 : p <= Len(q) => Remaining(q[p]) >= us}
<1>1. /\ Len(q) \in Nat /\ \A i \in 1..Len(q) : Remaining(q[i]) \in Int
  <2>1. ASSUME NEW t \in Thread PROVE Remaining(t) \in Int
    <3> DEFINE d == timeout[t] - time
               C == TimeMod
    <3>1. d \in Int /\ C \in Nat \ {0}
      BY SleepTypes, TimeFacts DEF Time
    <3> HIDE DEF d, C
    <3>2. d % C \in Int
      BY <3>1
    <3> QED BY <3>2 DEF d, C, Remaining
  <2> QED BY <2>1, SleepTypes
<1> HIDE DEF q
<1>2. P \subseteq Nat /\ P # {}
  <2>1. Len(q)+1 \in P
    BY <1>1
  <2> QED BY <1>1, <2>1
<1>3. PICK p \in P : \A y \in P : ~(y < p)
  <2>1. PICK p \in P : \A y \in P : ~(<<y, p>> \in OpToRel(<, Nat))
    BY <1>2, WFMin, NatLessThanWellFounded
  <2> QED BY <2>1, <1>2 DEF OpToRel
<1>4. \A i \in 1..p-1 : Remaining(q[i]) < us
  BY <1>1, <1>3
<1> QED BY <1>3, <1>4 DEF SleepPos, q

\* Every step is one that the scheduler allows a call or an interrupt, or none
\* of its state changes.
LEMMA SleepStepsOfCore ==
  ASSUME SleepInv, SleepNext
  PROVE  CoreNext \/ UNCHANGED coreVars
<1>1. ASSUME NEW us \in Durations, SleepFor(us) PROVE usleep
  <2>1. SleepPos(us) \in 1..Len(list[Sleeping])+1
    BY <1>1, TimeFacts, SleepPosFacts
  <2> QED BY <1>1, <2>1 DEF SleepFor, usleep
<1>2. CASE Elapse
  BY <1>2 DEF Elapse
<1>3. TimerInterrupt => tth_int_enter
  BY DEF TimerInterrupt
<1>4. WakeDue => tth_sleep_tick
  BY DEF WakeDue
<1>5. EndTick => tth_int_tick
  BY DEF EndTick, tth_int_tick
<1>6. EndInterrupt => tth_int_exit
  BY DEF EndInterrupt
<1>7. Yield => sched_yield
  BY DEF Yield
<1> QED BY <1>1, <1>2, <1>3, <1>4, <1>5, <1>6, <1>7 DEF SleepNext, CoreNext

\* What the steps of the scheduler make of the list of the sleepers.
LEMMA SleepersAfter ==
  ASSUME SleepInv
  PROVE  /\ MoveHead(Ready, Ready, "ready") => list'[Sleeping] = list[Sleeping]
         /\ tth_sleep_tick => list'[Sleeping] = Tail(list[Sleeping])
<1> USE ListNames
<1>1. ASSUME MoveHead(Ready, Ready, "ready") PROVE list'[Sleeping] = list[Sleeping]
  <2>1. list' = Move(list, Ready, Ready) /\ list[Ready] # <<>>
    BY <1>1, RunningFacts DEF MoveHead, SleepInv
  <2>2. Moved(list, list', Ready, Ready)
    BY <2>1, SleepTypes, MoveFacts
  <2> QED BY <2>2 DEF Moved
<1>2. ASSUME tth_sleep_tick PROVE list'[Sleeping] = Tail(list[Sleeping])
  <2>1. list' = Move(list, Sleeping, Ready) /\ list[Sleeping] # <<>>
    BY <1>2 DEF tth_sleep_tick, Wake, MoveHead
  <2> QED BY <2>1, SleepTypes DEF Move
<1> QED BY <1>1, <1>2

-----------------------------------------------------------------------------
(* Every step *)

\* What the scheduler keeps.
LEMMA SleepCore ==
  ASSUME SleepInv, SleepNext
  PROVE  CoreInv' /\ CoreTypeOK'
<1>1. CoreInv'
  <2>1. CoreNext \/ UNCHANGED coreVars
    BY SleepStepsOfCore
  <2>2. CASE CoreNext
    BY <2>2, CoreStep DEF SleepInv
  <2>3. CASE UNCHANGED coreVars
    BY <2>3 DEF SleepInv, CoreInv, CoreTypeOK, OneList, ListsOrdered, IdleReady, RunningIsHead, coreVars
  <2> QED BY <2>1, <2>2, <2>3
<1> QED BY <1>1 DEF CoreInv

\* Real time passes.
LEMMA ElapseStep ==
  ASSUME SleepInv, Elapse
  PROVE  SleepInv'
<1>1. /\ intLevel = 0 /\ phase < TickUs /\ phase' = phase + 1
      /\ left' = [t \in Thread |-> IF t \in ToSet(list[Sleeping]) /\ left[t] > -TickUs
                                   THEN left[t] - 1 ELSE left[t]]
      /\ list' = list /\ intLevel' = intLevel /\ ticked' = ticked
      /\ time' = time /\ timeout' = timeout /\ slice' = slice
  BY DEF Elapse, coreVars
<1>2. CoreInv' /\ CoreTypeOK'
  BY SleepCore DEF SleepNext
<1>3. phase' \in 0..TickUs /\ left' \in [Thread -> -TickUs..MaxDuration]
  <2>1. \A t \in Thread : left[t] \in -TickUs..MaxDuration
    BY SleepTypes
  <2>2. \A t \in Thread : (IF t \in ToSet(list[Sleeping]) /\ left[t] > -TickUs
                           THEN left[t] - 1 ELSE left[t]) \in -TickUs..MaxDuration
    BY <2>1, TimeFacts
  <2>3. phase \in 0..TickUs
    BY SleepTypes
  <2> QED BY <1>1, <2>2, <2>3, TimeFacts
<1>4. SleepersTimed'
  <2> SUFFICES ASSUME NEW t \in ToSet(list[Sleeping])
               PROVE  /\ Due(t) \in 1-TickUs..MaxDuration /\ Due(t) > 0
                      /\ left'[t] >= Due(t) - phase'
    BY <1>1 DEF SleepersTimed, Due
  <2>1. Due(t) \in 1-TickUs..MaxDuration /\ Due(t) > 0 /\ left[t] >= Due(t) - phase
    BY <1>1 DEF SleepInv, SleepersTimed
  <2>2. t \in Thread /\ left[t] \in -TickUs..MaxDuration /\ phase \in 0..TickUs
    BY SleepTypes
  <2>3. left[t] > -TickUs
    BY <1>1, <2>1, <2>2, TimeFacts
  <2>4. left'[t] = left[t] - 1
    BY <1>1, <2>2, <2>3
  <2> QED BY <1>1, <2>1, <2>2, <2>4, TimeFacts
<1>5. DueOrder'
  BY <1>1 DEF SleepInv, DueOrder, Due
<1> QED BY <1>1, <1>2, <1>3, <1>4, <1>5 DEF SleepInv, SleepTypeOK

\* The clock takes a tick from everybody, and nobody was due before.
LEMMA TimerStep ==
  ASSUME SleepInv, TimerInterrupt
  PROVE  SleepInv'
<1>1. /\ intLevel = 0 /\ intLevel' = 1 /\ ticked' = FALSE /\ list' = list
      /\ phase = TickUs /\ phase' = 0 /\ time' = (time + TickUs) % TimeMod
      /\ timeout' = timeout /\ slice' = slice /\ left' = left
  BY DEF TimerInterrupt, tth_int_enter, InterruptsOn
<1>2. CoreInv' /\ CoreTypeOK'
  BY SleepCore DEF SleepNext
<1>3. ASSUME NEW t \in ToSet(list[Sleeping])
      PROVE  /\ Due(t) \in 1..MaxDuration /\ Due(t)' = Due(t) - TickUs /\ left[t] >= Due(t) - TickUs
             /\ time' \in Time
  <2>1. Due(t) \in 1-TickUs..MaxDuration /\ Due(t) > 0 /\ left[t] >= Due(t) - TickUs
    BY <1>1 DEF SleepInv, SleepersTimed
  <2>2. Due(t) \in 1..MaxDuration
    BY <2>1, TimeFacts
  <2>3. timeout[t] \in Time /\ time \in Time
    BY SleepTypes
  <2>4. /\ (time + TickUs) % TimeMod \in Time
        /\ SignedDiff(timeout[t], (time + TickUs) % TimeMod) = SignedDiff(timeout[t], time) - TickUs
    BY <2>2, <2>3, TimePasses DEF Due
  <2> QED BY <1>1, <2>1, <2>2, <2>4 DEF Due
<1>4. time' \in Time
  <2>1. time \in 0..TimeMod-1 /\ TickUs \in 0..TimeMod-1 /\ TimeMod \in Nat
    BY SleepTypes, TimeFacts DEF Time
  <2>2. time + TickUs \in -TimeMod..2*TimeMod-1 /\ time + TickUs >= 0
    BY <2>1
  <2> QED BY <1>1, <2>1, <2>2, Unsigned DEF Time
<1>5. SleepersTimed'
  <2> SUFFICES ASSUME NEW t \in ToSet(list[Sleeping])
               PROVE  Due(t)' \in 1-TickUs..MaxDuration /\ left[t] >= Due(t)' - phase'
    BY <1>1 DEF SleepersTimed
  <2> QED BY <1>1, <1>3, TimeFacts
<1>6. DueOrder'
  <2> SUFFICES ASSUME NEW i \in DOMAIN list[Sleeping], NEW j \in DOMAIN list[Sleeping], i <= j
               PROVE  Due(list[Sleeping][i])' <= Due(list[Sleeping][j])'
    BY <1>1 DEF DueOrder, Due
  <2>1. Due(list[Sleeping][i]) <= Due(list[Sleeping][j])
    BY DEF SleepInv, DueOrder
  <2>2. list[Sleeping][i] \in ToSet(list[Sleeping]) /\ list[Sleeping][j] \in ToSet(list[Sleeping])
    BY SleepTypes
  <2>3. /\ Due(list[Sleeping][i])' = Due(list[Sleeping][i]) - TickUs
        /\ Due(list[Sleeping][j])' = Due(list[Sleeping][j]) - TickUs
    BY <1>1, <1>3, <2>2 DEF Due
  <2>4. Due(list[Sleeping][i]) \in Int /\ Due(list[Sleeping][j]) \in Int
    BY <1>3, <2>2
  <2> QED BY <2>1, <2>3, <2>4, TimeFacts
<1> QED BY <1>1, <1>2, <1>4, <1>5, <1>6, SleepTypes, TimeFacts DEF SleepInv, SleepTypeOK, Time

\* The tick wakes the head of the list.
LEMMA WakeDueStep ==
  ASSUME SleepInv, WakeDue
  PROVE  SleepInv'
<1> DEFINE q == list[Sleeping]
           h == Head(q)
<1>1. /\ q # <<>> /\ intLevel > 0 /\ intLevel' = intLevel /\ ticked' = ticked
      /\ left' = [left EXCEPT ![h] = 0]
      /\ time' = time /\ timeout' = timeout /\ slice' = slice /\ phase' = phase
  BY DEF WakeDue, tth_sleep_tick, Wake
<1>2. CoreInv' /\ CoreTypeOK'
  BY SleepCore DEF SleepNext
<1>3. list'[Sleeping] = Tail(q)
  BY SleepersAfter DEF WakeDue
<1>4. /\ q \in Seq(Thread) /\ IsInjective(q)
  BY SleepTypes, LinkedOnceByList, ListNames
<1>5. /\ ToSet(q) = ToSet(Tail(q)) \cup {h}
      /\ DOMAIN Tail(q) = 1..Len(q)-1 /\ DOMAIN q = 1..Len(q) /\ Len(q) \in Nat \ {0}
      /\ \A i \in 1..Len(q)-1 : Tail(q)[i] = q[i+1]
      /\ h \notin ToSet(Tail(q)) /\ h \in Thread
  BY <1>1, <1>4, TailElements, TailInjective, HeadTailProperties
<1>6. left' \in [Thread -> -TickUs..MaxDuration] /\ \A t \in ToSet(Tail(q)) : left'[t] = left[t]
  <2>1. 0 \in -TickUs..MaxDuration
    BY TimeFacts
  <2>2. left \in [Thread -> -TickUs..MaxDuration] /\ \A t \in ToSet(Tail(q)) : t \in Thread
    BY <1>5, SleepTypes
  <2> QED BY <1>1, <1>5, <2>1, <2>2
<1>7. SleepersTimed'
  BY <1>1, <1>3, <1>5, <1>6 DEF SleepInv, SleepersTimed, Due
<1>8. DueOrder'
  <2> SUFFICES ASSUME NEW i \in DOMAIN Tail(q), NEW j \in DOMAIN Tail(q), i <= j
               PROVE  Due(Tail(q)[i]) <= Due(Tail(q)[j])
    BY <1>1, <1>3 DEF DueOrder, Due
  <2>1. i+1 \in DOMAIN q /\ j+1 \in DOMAIN q /\ i+1 <= j+1
    BY <1>5
  <2>2. Due(q[i+1]) <= Due(q[j+1])
    BY <2>1 DEF SleepInv, DueOrder
  <2> QED BY <1>5, <2>2
<1> QED BY <1>1, <1>2, <1>6, <1>7, <1>8 DEF SleepInv, SleepTypeOK

\* When the head is not due, nobody is.
LEMMA NobodyDue ==
  ASSUME SleepInv, list[Sleeping] # <<>> => ~IsDue(Head(list[Sleeping]))
  PROVE  \A t \in ToSet(list[Sleeping]) : Due(t) > 0
<1> DEFINE q == list[Sleeping]
<1> SUFFICES ASSUME NEW i \in DOMAIN q PROVE Due(q[i]) > 0
  BY DEF ToSet
<1>1. /\ Len(q) \in Nat /\ i \in 1..Len(q) /\ 1 \in 1..Len(q) /\ 1 <= i /\ Head(q) = q[1] /\ q # <<>>
  BY SleepTypes, HeadTailProperties
<1>2. Due(q[1]) <= Due(q[i])
  BY <1>1, SleepTypes DEF SleepInv, DueOrder
<1>3. Due(q[1]) \in Int /\ Due(q[i]) \in Int
  <2>1. q[1] \in ToSet(q) /\ q[i] \in ToSet(q)
    BY <1>1, SleepTypes
  <2> QED BY <2>1, TimeFacts DEF SleepInv, SleepersTimed
<1>4. ~(Due(q[1]) <= 0)
  BY <1>1 DEF IsDue, Due
<1> QED BY <1>2, <1>3, <1>4

\* The steps in which neither the clock nor the list of the sleepers changes.
LEMMA OtherSleepSteps ==
  ASSUME SleepInv, EndTick \/ EndInterrupt \/ Yield
  PROVE  SleepInv'
<1>1. CoreInv' /\ CoreTypeOK'
  BY SleepCore DEF SleepNext
<1>2. time' = time /\ timeout' = timeout /\ left' = left /\ phase' = phase
  BY DEF EndTick, EndInterrupt, Yield, clockVars
<1>3. list'[Sleeping] = list[Sleeping]
  BY SleepersAfter DEF EndTick, EndSlice, KeepSlice, EndInterrupt, tth_int_exit, Yield, sched_yield
<1>4. slice' \in 0..Interval-1
  <2>1. slice \in 0..Interval-1 /\ Interval \in Nat \ {0}
    BY SleepTypes, SleepAssumption
  <2>2. slice' = slice \/ slice' = 0 \/ (slice + 1 < Interval /\ slice' = slice + 1)
    BY DEF EndTick, EndInterrupt, Yield, clockVars
  <2> QED BY <2>1, <2>2
<1>5. intLevel' # 0 => intLevel # 0
  BY DEF EndTick, EndSlice, KeepSlice, EndInterrupt, tth_int_exit, Yield, sched_yield
<1>6. \A t \in ToSet(list[Sleeping]) : intLevel' = 0 \/ ticked' => Due(t) > 0
  <2>1. CASE EndTick
    BY <2>1, NobodyDue DEF EndTick
  <2>2. CASE EndInterrupt \/ Yield
    <3>1. ticked \/ intLevel = 0
      BY <2>2 DEF EndInterrupt, Yield, sched_yield, UserMode
    <3> QED BY <3>1 DEF SleepInv, SleepersTimed
  <2> QED BY <2>1, <2>2
<1>7. SleepersTimed' /\ DueOrder'
  BY <1>2, <1>3, <1>6 DEF SleepInv, SleepersTimed, DueOrder, Due
<1> QED BY <1>1, <1>2, <1>4, <1>5, <1>7 DEF SleepInv, SleepTypeOK

\* The walk of usleep keeps the order.
LEMMA SleepForStep ==
  ASSUME SleepInv, NEW us \in Durations, SleepFor(us)
  PROVE  SleepInv'
<1> DEFINE q == list[Sleeping]
           p == SleepPos(us)
           t == running
           r == InsertAt(q, p, t)
           D(s) == SignedDiff(timeout'[s], time')
<1>1. /\ intLevel = 0 /\ t \in Sleeper /\ intLevel' = intLevel /\ ticked' = ticked
      /\ timeout' = [timeout EXCEPT ![t] = (time + us) % TimeMod]
      /\ left' = [left EXCEPT ![t] = us]
      /\ list' = [list EXCEPT ![Ready] = Tail(@), ![Sleeping] = InsertAt(@, p, t)]
      /\ time' = time /\ slice' = slice /\ phase' = phase
  BY DEF SleepFor, Caller, UserMode
<1>2. CoreInv' /\ CoreTypeOK'
  BY SleepCore DEF SleepNext
<1>3. us \in 1..MaxDuration /\ time \in Time /\ q \in Seq(Thread) /\ t \in Thread
  BY <1>1, TimeFacts, SleepTypes, SleepAssumption
<1>4. list'[Sleeping] = r
  BY <1>1, ListNames, SleepTypes
<1>5. t \notin ToSet(q)
  <2>1. \A l \in WaitList : running \notin ToSet(list[l])
    BY <1>1, RunningFacts DEF SleepInv
  <2> QED BY <2>1, CoreAssumption
<1>6. /\ p \in 1..Len(q)+1
      /\ \A i \in 1..p-1 : Remaining(q[i]) < us
      /\ p <= Len(q) => Remaining(q[p]) >= us
      /\ Len(q) \in Nat /\ p \in Nat
  BY <1>3, SleepPosFacts, SleepTypes
<1> HIDE DEF p
<1>7. /\ r \in Seq(Thread) /\ Len(r) = Len(q) + 1 /\ DOMAIN r = 1..Len(q)+1
      /\ \A i \in 1..Len(q)+1 : r[i] = IF i < p THEN q[i] ELSE IF i = p THEN t ELSE q[i-1]
      /\ ToSet(r) = ToSet(q) \cup {t}
  <2> HIDE DEF q, t
  <2>0. q \in Seq(Thread) /\ p \in 1..Len(q)+1 /\ t \in Thread
    BY <1>3, <1>6
  <2>1. /\ r \in Seq(Thread) /\ Len(r) = Len(q) + 1
        /\ \A i \in 1..Len(q)+1 : r[i] = IF i < p THEN q[i] ELSE IF i = p THEN t ELSE q[i-1]
    BY <2>0, InsertAtFacts
  <2>2. ToSet(r) = ToSet(q) \cup {t}
    BY <2>0, InsertAtElements
  <2> HIDE DEF r
  <2>3. DOMAIN r = 1..Len(q)+1
    BY <2>1, LenProperties
  <2> QED BY <2>1, <2>2, <2>3
<1> HIDE DEF r
<1>8. /\ D(t) = us /\ timeout' \in [Thread -> Time] /\ left' \in [Thread -> -TickUs..MaxDuration]
      /\ left'[t] = us /\ \A s \in ToSet(q) : left'[s] = left[s] /\ D(s) = Due(s)
  <2>1. (time + us) % TimeMod \in Time /\ SignedDiff((time + us) % TimeMod, time) = us
    BY <1>3, TimeoutSet
  <2>2. timeout \in [Thread -> Time] /\ left \in [Thread -> -TickUs..MaxDuration]
        /\ us \in -TickUs..MaxDuration
    BY <1>3, SleepTypes, TimeFacts
  <2>3. \A s \in ToSet(q) : s \in Thread /\ s # t
    <3>1. \A s \in ToSet(q) : s \in Thread
      BY SleepTypes
    <3> HIDE DEF q
    <3> QED BY <1>5, <3>1
  <2> QED BY <1>1, <1>3, <2>1, <2>2, <2>3 DEF Due
<1>9. \A s \in ToSet(q) : Due(s) \in 1..MaxDuration /\ left[s] >= Due(s) - phase /\ Remaining(s) = Due(s)
  <2> SUFFICES ASSUME NEW s \in ToSet(q)
               PROVE  Due(s) \in 1..MaxDuration /\ left[s] >= Due(s) - phase /\ Remaining(s) = Due(s)
    OBVIOUS
  <2>1. Due(s) \in 1-TickUs..MaxDuration /\ Due(s) > 0 /\ left[s] >= Due(s) - phase
    BY <1>1 DEF SleepInv, SleepersTimed
  <2>2. Due(s) \in 1..MaxDuration
    BY <2>1, TimeFacts
  <2>3. s \in Thread /\ timeout[s] \in Time
    BY SleepTypes
  <2> QED BY <1>3, <2>1, <2>2, <2>3, RemainingIsDue
<1>10. SleepersTimed'
  <2> SUFFICES ASSUME NEW s \in ToSet(r)
               PROVE  /\ D(s) \in 1-TickUs..MaxDuration /\ D(s) > 0
                      /\ left'[s] >= D(s) - phase
    BY <1>1, <1>4 DEF SleepersTimed, Due
  <2>1. phase \in 0..TickUs
    BY SleepTypes
  <2>2. CASE s \in ToSet(q)
    <3>1. D(s) = Due(s) /\ left'[s] = left[s]
      BY <1>8, <2>2
    <3>2. Due(s) \in 1..MaxDuration /\ left[s] >= Due(s) - phase
      BY <1>9, <2>2
    <3> QED BY <3>1, <3>2, TimeFacts
  <2>3. CASE s = t
    <3>1. D(t) = us /\ left'[t] = us
      BY <1>8
    <3>2. D(s) = D(t)
      BY <2>3
    <3>3. us \in 1-TickUs..MaxDuration /\ us > 0 /\ us >= us - phase
      BY <1>3, <2>1, TimeFacts
    <3> QED BY <2>3, <3>1, <3>2, <3>3
  <2> QED BY <1>7, <2>2, <2>3
<1>11. DueOrder'
  <2>1. /\ \A i \in 1..Len(q) : q[i] \in ToSet(q)
        /\ \A i, j \in 1..Len(q) : i <= j => Due(q[i]) <= Due(q[j])
    BY SleepTypes DEF SleepInv, DueOrder
  <2>2. /\ \A i \in 1..Len(q) : D(q[i]) = Due(q[i]) /\ Due(q[i]) \in Int /\ Remaining(q[i]) = Due(q[i])
        /\ D(t) = us
    <3>1. \A s \in ToSet(q) : D(s) = Due(s)
      BY <1>8
    <3>2. D(t) = us
      BY <1>8
    <3> HIDE DEF D
    <3>3. \A s \in ToSet(q) : Due(s) \in Int /\ Remaining(s) = Due(s)
      BY <1>9
    <3> QED BY <2>1, <3>1, <3>2, <3>3
  <2>3. \A i \in 1..p-1 : D(q[i]) <= us
    BY <1>3, <1>6, <2>2
  <2>4. \A i \in p..Len(q) : D(q[i]) >= us
    <3> SUFFICES ASSUME NEW i \in p..Len(q) PROVE D(q[i]) >= us
      OBVIOUS
    <3>1. p \in 1..Len(q) /\ i \in 1..Len(q) /\ p <= i
      BY <1>6
    <3>2. Due(q[p]) >= us /\ Due(q[p]) <= Due(q[i])
      BY <1>6, <2>1, <2>2, <3>1
    <3> QED BY <1>3, <2>2, <3>1, <3>2
  <2>5. \A i, j \in 1..Len(q) : i <= j => D(q[i]) <= D(q[j])
    BY <2>1, <2>2
  <2> HIDE DEF D
  <2>6. ASSUME NEW i \in 1..Len(q)+1, NEW j \in 1..Len(q)+1, i <= j
        PROVE  D(r[i]) <= D(r[j])
    <3>1. CASE j < p
      <4>1. r[i] = q[i] /\ r[j] = q[j] /\ i \in 1..Len(q) /\ j \in 1..Len(q)
        BY <1>6, <1>7, <2>6, <3>1
      <4> QED BY <2>5, <2>6, <4>1
    <3>2. CASE i < p /\ j = p
      BY <1>6, <1>7, <2>2, <2>3, <3>2
    <3>3. CASE i < p /\ j > p
      <4>1. r[i] = q[i] /\ r[j] = q[j-1] /\ i \in 1..Len(q) /\ j-1 \in 1..Len(q) /\ i <= j-1
        BY <1>6, <1>7, <3>3
      <4> QED BY <2>5, <4>1
    <3>4. CASE i = p /\ j = p
      BY <1>3, <1>7, <2>2, <3>4
    <3>5. CASE i = p /\ j > p
      <4>1. r[i] = t /\ r[j] = q[j-1] /\ j-1 \in p..Len(q)
        BY <1>6, <1>7, <3>5
      <4> QED BY <1>3, <2>2, <2>4, <4>1
    <3>6. CASE i > p
      <4>1. /\ r[i] = q[i-1] /\ r[j] = q[j-1]
            /\ i-1 \in 1..Len(q) /\ j-1 \in 1..Len(q) /\ i-1 <= j-1
        BY <1>6, <1>7, <2>6, <3>6
      <4> QED BY <2>5, <4>1
    <3> QED BY <1>6, <2>6, <3>1, <3>2, <3>3, <3>4, <3>5, <3>6
  <2>7. \A i, j \in DOMAIN r : i <= j => D(r[i]) <= D(r[j])
    BY <1>7, <2>6
  <2> QED BY <1>4, <2>7 DEF DueOrder, Due, D
<1> QED BY <1>1, <1>2, <1>8, <1>10, <1>11, SleepTypes DEF SleepInv, SleepTypeOK, Time

\* All threads are ready at the start, and nobody sleeps.
LEMMA SleepInitial == SleepInit => SleepInv
<1> SUFFICES ASSUME SleepInit PROVE SleepInv
  OBVIOUS
<1>1. CoreInv
  BY CoreInitial DEF SleepInit
<1>2. list[Sleeping] = <<>> /\ intLevel = 0
  BY ListNames DEF SleepInit, AllReady, CoreInit, ReadyQueues
<1>3. SleepTypeOK
  BY <1>1, TimeFacts, SleepAssumption DEF SleepInit, SleepTypeOK, CoreInv
<1> QED BY <1>1, <1>2, <1>3 DEF SleepInv, SleepersTimed, DueOrder, ToSet

\* Every step keeps the invariant.
LEMMA SleepStep == SleepInv /\ [SleepNext]_sleepVars => SleepInv'
<1> SUFFICES ASSUME SleepInv, [SleepNext]_sleepVars PROVE SleepInv'
  OBVIOUS
<1>1. CASE UNCHANGED sleepVars
  BY <1>1 DEF sleepVars, SleepInv, CoreInv, CoreTypeOK, OneList, ListsOrdered, IdleReady, RunningIsHead,
     SleepTypeOK, SleepersTimed, DueOrder, Due
<1>2. ASSUME NEW us \in Durations, SleepFor(us) PROVE SleepInv'
  BY <1>2, SleepForStep
<1> QED BY <1>1, <1>2, ElapseStep, TimerStep, WakeDueStep, OtherSleepSteps DEF SleepNext

\* The invariant of usleep and the tick.
LEMMA SleepInvariant == SleepSpec => []SleepInv
  BY SleepInitial, SleepStep, PTL DEF SleepSpec

\* In a state of the invariant timeouts are ordered among themselves.
LEMMA SleepersInOrder == SleepInv => SleepersOrdered
<1> SUFFICES ASSUME SleepInv, NEW i \in DOMAIN list[Sleeping], NEW j \in DOMAIN list[Sleeping], i <= j
             PROVE  SignedDiff(timeout[list[Sleeping][i]], timeout[list[Sleeping][j]]) <= 0
  BY DEF SleepersOrdered
<1> DEFINE s == list[Sleeping][i]
           t == list[Sleeping][j]
<1>1. s \in ToSet(list[Sleeping]) /\ t \in ToSet(list[Sleeping])
  BY SleepTypes
<1>2. /\ Due(s) \in 1-TickUs..MaxDuration /\ Due(t) \in 1-TickUs..MaxDuration
      /\ timeout[s] \in Time /\ timeout[t] \in Time /\ time \in Time
  BY <1>1, SleepTypes DEF SleepInv, SleepersTimed
<1>3. Due(s) <= Due(t)
  BY DEF SleepInv, DueOrder
<1> QED BY <1>2, <1>3, DueOrdersTimeouts DEF Due

-----------------------------------------------------------------------------
(* The theorems *)

\* Types, and the scheduler sound with the clock it runs by.
THEOREM SleepCorrect == SleepSpec => [](SleepTypeOK /\ SchedulerSound)
<1>1. SleepInv => SleepTypeOK /\ SchedulerSound
  BY DEF SleepInv, CoreInv, SchedulerSound
<1> QED BY <1>1, SleepInvariant, PTL

\* The sleepers are in the order of their timeouts whenever the clock wraps
\* around, for any range of the clock (tth_sleep.c).
THEOREM SleepersStayOrdered == SleepSpec => []SleepersOrdered
  BY SleepersInOrder, SleepInvariant, PTL

\* The loop of tth_sleep_tick, which looks at the head alone, leaves no sleeper
\* behind that is due.
THEOREM NobodyLeftBehind == SleepSpec => []NoOversleep
<1>1. ASSUME SleepInv PROVE NoOversleep
  <2> SUFFICES ASSUME NEW t \in ToSet(list[Sleeping]), ticked PROVE ~IsDue(t)
    BY DEF NoOversleep
  <2>1. Due(t) \in 1-TickUs..MaxDuration /\ Due(t) > 0
    BY <1>1 DEF SleepInv, SleepersTimed
  <2> QED BY <2>1, TimeFacts DEF IsDue, Due
<1> QED BY <1>1, SleepInvariant, PTL

\* No sleep lasts a tick longer than asked, for any length of the tick.
THEOREM SleepsEndInTime == SleepSpec => []AtMostOneTickLate
<1>1. ASSUME SleepInv PROVE AtMostOneTickLate
  <2> SUFFICES ASSUME NEW t \in ToSet(list[Sleeping]) PROVE left[t] > -TickUs
    BY DEF AtMostOneTickLate
  <2>1. /\ Due(t) \in 1-TickUs..MaxDuration /\ left[t] >= Due(t) - phase
        /\ intLevel = 0 => Due(t) > 0
        /\ intLevel # 0 => phase = 0
    BY <1>1 DEF SleepInv, SleepersTimed
  <2>2. left[t] \in Int /\ phase \in 0..TickUs
    BY <1>1, SleepTypes
  <2> QED BY <2>1, <2>2, TimeFacts
<1> QED BY <1>1, SleepInvariant, PTL
=============================================================================
