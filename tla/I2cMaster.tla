------------------------------ MODULE I2cMaster -----------------------------
(***************************************************************************)
(* The driver of the I2C master: START and the address, the bytes to       *)
(* write, START and the address again, the bytes to read; the last byte    *)
(* carries STOP.  An address or a byte that is not acknowledged ends the   *)
(* transfer, with STOP behind a dummy byte unless it was the last one.     *)
(***************************************************************************)
EXTENDS ByteMaster

Phases == {"addrw", "write", "addrr", "read", "stop", "end"}

\* Where the transfer goes on with w bytes to write and r to read.
Onward(w, r) == IF w > 0 THEN "write" ELSE IF r > 0 THEN "addrr" ELSE "end"

I2cBegin(w, r) ==
  /\ kind = "i2c" /\ at = "free" /\ ready
  /\ at' = "next"
  /\ call' = [phase |-> IF w > 0 THEN "addrw" ELSE Onward(w, r), w |-> w, r |-> r, err |-> "ok"]
  /\ data' = <<>> /\ wire' = <<>>
  /\ UNCHANGED <<kind, result, ready, irqena, out, rx, enabled, done, open>>

\* Addresses of 10 bits are not supported.
I2cUnsupported ==
  /\ kind = "i2c" /\ at = "free"
  /\ result' = "ENOTSUP"
  /\ UNCHANGED <<kind, at, call, data, ready, irqena, out, rx, enabled, done, wire, open>>

\* What each phase sends.  "stop": a dummy byte, read after an address for
\* reading and written otherwise.
I2cByte ==
  CASE call.phase \in {"addrw", "addrr"} -> [op |-> "addr", sc |-> TRUE, pc |-> FALSE]
    [] call.phase = "write" -> [op |-> "write", sc |-> FALSE, pc |-> call.w = 1 /\ call.r = 0]
    [] call.phase = "read" -> [op |-> "read", sc |-> FALSE, pc |-> call.r = 1]
    [] call.phase = "stop" -> [op |-> "dummy", sc |-> FALSE, pc |-> TRUE]

I2cPut == kind = "i2c" /\ at = "next" /\ call.phase # "end" /\ Put(I2cByte)

\* A faulty variant: the last byte to write is taken to have carried STOP even
\* if bytes were to be read.
StopForgotten ==
  CASE call.phase \in {"addrw", "addrr"} -> [call EXCEPT !.phase = "stop", !.err = "ENOENT"]
    [] call.phase = "write" -> [call EXCEPT !.phase = IF call.w > 1 THEN "stop" ELSE "end", !.err = "ECANCELED"]

\* After a NACK: STOP follows if this byte did not carry it.
Refused ==
  CASE call.phase \in {"addrw", "addrr"} -> [call EXCEPT !.phase = "stop", !.err = "ENOENT"]
    [] call.phase = "write" ->
         [call EXCEPT !.phase = IF call.w > 1 \/ call.r > 0 THEN "stop" ELSE "end", !.err = "ECANCELED"]

Accepted ==
  CASE call.phase = "addrw" -> [call EXCEPT !.phase = "write"]
    [] call.phase = "write" -> [call EXCEPT !.phase = Onward(call.w - 1, call.r), !.w = @ - 1]
    [] call.phase = "addrr" -> [call EXCEPT !.phase = "read"]
    [] call.phase = "read" -> [call EXCEPT !.phase = IF call.r > 1 THEN "read" ELSE "end", !.r = @ - 1]
    [] call.phase = "stop" -> [call EXCEPT !.phase = "end"]

I2cAnswer ==
  /\ kind = "i2c" /\ Answered
  /\ at' = "next"
  /\ call' = IF rx = Nack /\ call.phase \in {"addrw", "write", "addrr"} THEN Refused ELSE Accepted
  /\ data' = IF call.phase = "read" THEN Append(data, rx) ELSE data
  /\ UNCHANGED <<kind, result, ready, irqena, out, rx, enabled, done, wire, open>>

I2cEnd ==
  /\ kind = "i2c" /\ at = "next" /\ call.phase = "end"
  /\ at' = "free" /\ result' = call.err /\ call' = NULL
  /\ UNCHANGED <<kind, data, ready, irqena, out, rx, enabled, done, wire, open>>

I2cStep ==
  \/ \E w, r \in 0..MaxLen : I2cBegin(w, r)
  \/ I2cUnsupported \/ I2cPut \/ I2cAnswer \/ I2cEnd

-----------------------------------------------------------------------------
(* Properties *)

\* Every transfer gives the bus back with STOP, whoever refused what.
I2cReleased == kind = "i2c" /\ at = "free" => open = NULL

\* A transfer succeeds exactly when the slave acknowledged every address and
\* every byte; the bytes it reads are the last ones on the wire, and it returns
\* what the slave sent for them.
I2cOwnBytes ==
  kind = "i2c" /\ at = "free" =>
    /\ result # "ENOTSUP" => (result = "ok" <=> \A i \in DOMAIN wire : wire[i].got # Nack)
    /\ Len(data) <= Len(wire)
    /\ \A i \in DOMAIN wire : wire[i].sent.op = "read" <=> i > Len(wire) - Len(data)
    /\ data = [i \in 1..Len(data) |-> wire[Len(wire) - Len(data) + i].got]
=============================================================================
