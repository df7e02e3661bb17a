------------------------------ MODULE SpiMaster -----------------------------
(***************************************************************************)
(* The driver of the SPI master.  A transfer sends write_length bytes,     *)
(* drops read_skip of the answers and keeps read_length; a transfer with   *)
(* MERGE keeps the slave selected for the next one, and transfers to other *)
(* slaves are refused until then.                                          *)
(***************************************************************************)
EXTENDS ByteMaster

VARIABLE slave_locked  \* the slave a MERGE has left selected, or NULL

spiVars == <<masterVars, slave_locked>>

\* Whether a transfer to slave s may begin.
SlaveFree(s) == slave_locked \in {NULL, s}

\* A transfer has got the lock, waits for RDY and selects its slave; this
\* write clears IRQENA.
SpiBegin(s, w, skip, r, merge) ==
  /\ kind = "spi" /\ at = "free" /\ ready
  /\ SlaveFree(s)
  /\ at' = "next"
  /\ call' = [slave |-> s, w |-> w, s |-> skip, r |-> r, merge |-> merge, skip |-> skip]
  /\ irqena' = FALSE /\ open' = s
  /\ data' = <<>> /\ wire' = <<>>
  /\ UNCHANGED <<kind, result, ready, out, rx, enabled, done, slave_locked>>

SpiRefuse(s) ==
  /\ kind = "spi" /\ at = "free"
  /\ ~SlaveFree(s)
  /\ result' = "EAGAIN"
  /\ UNCHANGED <<kind, at, call, data, ready, irqena, out, rx, enabled, done, wire, open, slave_locked>>

\* The bytes to write, then fillers for the answers to skip and to read.
SpiPut ==
  /\ kind = "spi" /\ at = "next"
  /\ call.w + call.s + call.r > 0
  /\ Put([op |-> "byte", to |-> call.slave])
  /\ UNCHANGED slave_locked

SpiAnswer ==
  /\ kind = "spi" /\ Answered
  /\ at' = "next"
  /\ LET keep == call.s = 0 /\ call.r > 0
         less(n) == IF n > 0 THEN n - 1 ELSE 0
     IN  /\ data' = IF keep THEN Append(data, rx) ELSE data
         /\ call' = [call EXCEPT !.w = less(@), !.s = less(@), !.r = IF keep THEN @ - 1 ELSE @]
  /\ UNCHANGED <<kind, result, ready, irqena, out, rx, enabled, done, wire, open, slave_locked>>

SpiEnd ==
  /\ kind = "spi" /\ at = "next"
  /\ call.w + call.s + call.r = 0
  /\ at' = "free" /\ result' = "ok" /\ call' = NULL
  /\ IF call.merge THEN slave_locked' = call.slave /\ UNCHANGED <<open, irqena>>
                   ELSE slave_locked' = NULL /\ open' = NULL /\ irqena' = FALSE
  /\ UNCHANGED <<kind, data, ready, out, rx, enabled, done, wire>>

SpiStep ==
  \/ \E s \in Slave :
       \/ SpiRefuse(s)
       \/ \E w, skip, r \in 0..MaxLen, merge \in BOOLEAN : SpiBegin(s, w, skip, r, merge)
  \/ SpiPut \/ SpiAnswer \/ SpiEnd

-----------------------------------------------------------------------------
(* Properties *)

\* The bytes a transfer returns are what the slave answered to the bytes of
\* this transfer, in order and from the right place on: no answer is taken
\* before it is there, and none twice.
SpiOwnBytes ==
  kind = "spi" /\ call # NULL =>
    /\ Len(wire) >= Len(data)
    /\ data # <<>> => Len(wire) >= call.skip + Len(data)
    /\ data = [i \in 1..Len(data) |-> wire[call.skip + i].got]
    /\ \A i \in DOMAIN wire : wire[i].sent.to = call.slave

\* Between transfers a slave is selected exactly when a MERGE asked for it and
\* only its own transfers are let in.
SpiReleased == kind = "spi" /\ at = "free" => open = slave_locked
=============================================================================
