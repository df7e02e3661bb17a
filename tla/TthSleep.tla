------------------------------ MODULE TthSleep ------------------------------
(***************************************************************************)
(* usleep and the system tick of TinyThreads: tth_time counts modulo 2^32  *)
(* (TimeMod here), the sleepers are kept in the order they are due, and    *)
(* the tick wakes those that are, then ends the time slice when it         *)
(* completes the preemption interval.                                      *)
(*                                                                         *)
(* One unit of time is a fraction of the tick: real time passes between    *)
(* the ticks, while tth_time stands still.                                 *)
(***************************************************************************)
EXTENDS TthCore

CONSTANTS
  TimeMod,    \* one more than the largest unsigned int
  TickUs,     \* 1000000 / TTHREAD_TICKS_PER_SEC
  Interval,   \* TTHREAD_PREEMPTION_INTERVAL, in ticks
  Sleeper,    \* the threads that call usleep
  Durations,  \* what they pass to it
  MaxDuration \* usleep refuses more than this

\* A second is far from half the range of tth_time.
ASSUME SleepAssumption ==
  /\ TimeMod \in Nat /\ TickUs \in Nat \ {0} /\ Interval \in Nat \ {0}
  /\ Sleeper \subseteq Thread \ {Idle}
  /\ MaxDuration \in Nat /\ Durations \subseteq 1..MaxDuration
  /\ 2 * (MaxDuration + TickUs) < TimeMod

VARIABLES
  time,     \* tth_time
  timeout,  \* shared.timeout of each thread
  slice,    \* preemption_us, in ticks
  phase,    \* real time since the last tick
  left      \* real time until the requested sleep of each sleeper is over

clockVars == <<time, timeout, slice, phase, left>>
sleepVars == <<list, running, waitstate, intLevel, ticked, cont,
               time, timeout, slice, phase, left>>

-----------------------------------------------------------------------------

\* Unsigned and signed 32-bit differences of two times.
Remaining(t) == (timeout[t] - time) % TimeMod
SignedDiff(a, b) == LET d == (a - b) % TimeMod
                    IN  IF d >= TimeMod \div 2 THEN d - TimeMod ELSE d

\* A faulty variant: a sleeper is linked last.
SleepPosLast(us) == Len(list[Sleeping]) + 1

\* Behind the sleepers that have less than us left.
SleepPos(us) ==
  CHOOSE p \in 1..Len(list[Sleeping])+1 :
    /\ \A i \in 1..p-1 : Remaining(list[Sleeping][i]) < us
    /\ p <= Len(list[Sleeping]) => Remaining(list[Sleeping][p]) >= us

SleepFor(us) ==
  /\ Caller /\ running \in Sleeper
  /\ timeout' = [timeout EXCEPT ![running] = (time + us) % TimeMod]
  /\ left' = [left EXCEPT ![running] = us]
  /\ waitstate' = [waitstate EXCEPT ![running] = "sleep"]
  /\ list' = [list EXCEPT ![Ready] = Tail(@),
                          ![Sleeping] = InsertAt(@, SleepPos(us), running)]
  /\ Switch
  /\ UNCHANGED <<intLevel, ticked, cont, time, slice, phase>>

\* Real time passes up to the next timer interrupt; the handler itself is
\* taken to be faster than a unit of time.  A sleep that is over is followed
\* for one more tick (the bound of "left").
Elapse ==
  /\ intLevel = 0
  /\ phase < TickUs
  /\ phase' = phase + 1
  /\ left' = [t \in Thread |->
                IF t \in ToSet(list[Sleeping]) /\ left[t] > -TickUs
                THEN left[t] - 1 ELSE left[t]]
  /\ UNCHANGED <<coreVars, time, timeout, slice>>

\* The timer interrupt: tth_sleep_tick advances tth_time ...
TimerInterrupt ==
  /\ phase = TickUs
  /\ tth_int_enter
  /\ phase' = 0
  /\ time' = (time + TickUs) % TimeMod
  /\ UNCHANGED <<timeout, slice, left>>

\* A faulty variant: the comparison excludes the moment itself.
IsOverdue(t) == SignedDiff(timeout[t], time) < 0

IsDue(t) == SignedDiff(timeout[t], time) <= 0

\* ... and takes the head off the sleepers as long as it is due.
WakeDue ==
  /\ list[Sleeping] # <<>> /\ IsDue(Head(list[Sleeping]))
  /\ tth_sleep_tick
  /\ left' = [left EXCEPT ![Head(list[Sleeping])] = 0]
  /\ UNCHANGED <<time, timeout, slice, phase>>

\* A faulty variant: the tick ends with sleepers due.
EndTickEarly ==
  /\ IF slice + 1 < Interval
     THEN slice' = slice + 1 /\ KeepSlice
     ELSE slice' = 0 /\ IF running \in RoundRobin THEN EndSlice ELSE KeepSlice
  /\ UNCHANGED <<time, timeout, phase, left>>

\* The rest of tth_int_tick counts the interval and yields for the running
\* thread, or so it means to: sched_yield rotates the head of tth_ready.
EndTick ==
  /\ list[Sleeping] # <<>> => ~IsDue(Head(list[Sleeping]))
  /\ IF slice + 1 < Interval
     THEN slice' = slice + 1 /\ KeepSlice
     ELSE slice' = 0 /\ IF running \in RoundRobin THEN EndSlice ELSE KeepSlice
  /\ UNCHANGED <<time, timeout, phase, left>>

EndInterrupt == ticked /\ tth_int_exit /\ UNCHANGED clockVars

Yield == sched_yield /\ UNCHANGED clockVars

SleepInit ==
  /\ AllReady
  /\ time \in 0..TimeMod-1
  /\ timeout = [t \in Thread |-> 0]
  /\ slice = 0 /\ phase = 0
  /\ left = [t \in Thread |-> 0]

SleepNext ==
  \/ \E us \in Durations : SleepFor(us)
  \/ Elapse \/ TimerInterrupt \/ WakeDue \/ EndTick \/ EndInterrupt \/ Yield

SleepSpec == SleepInit /\ [][SleepNext]_sleepVars

-----------------------------------------------------------------------------
(* Properties *)

\* The types: clock and timeouts are unsigned and wrap around at TimeMod, the
\* tick counter of a slice stays below the interval (tth_int_tick).
SleepTypeOK ==
  /\ CoreTypeOK
  /\ time \in 0..TimeMod-1 /\ timeout \in [Thread -> 0..TimeMod-1]
  /\ slice \in 0..Interval-1 /\ phase \in 0..TickUs
  /\ left \in [Thread -> -TickUs..MaxDuration]

\* The sleepers are in the order of their timeouts, also when tth_time has
\* wrapped around between two of them.
SleepersOrdered ==
  \A i, j \in DOMAIN list[Sleeping] : i <= j =>
    SignedDiff(timeout[list[Sleeping][i]], timeout[list[Sleeping][j]]) <= 0

\* No sleeper is left behind when a tick is over, although the loop looks at
\* the head alone.
NoOversleep == \A t \in ToSet(list[Sleeping]) : ticked => ~IsDue(t)

\* A sleep ends less than one tick after the time it asked for.
AtMostOneTickLate == \A t \in ToSet(list[Sleeping]) : left[t] > -TickUs

(* Fairness: time passes, timer interrupts are served to their end, and a  *)
(* sleeper that runs goes to sleep again.                                  *)
SleepFairness ==
  /\ WF_sleepVars(Elapse) /\ SF_sleepVars(TimerInterrupt)
  /\ WF_sleepVars(WakeDue) /\ WF_sleepVars(EndTick) /\ WF_sleepVars(EndInterrupt)
  /\ \A t \in Sleeper :
       SF_sleepVars(running = t /\ \E us \in Durations : SleepFor(us))

FairSleepSpec == SleepSpec /\ SleepFairness

\* Every sleep ends.
SleepEnds == \A t \in Sleeper : []<>(t \notin ToSet(list[Sleeping]))
=============================================================================
