----------------------------- MODULE ByteMaster -----------------------------
(***************************************************************************)
(* What the drivers of the SPI and of the I2C master share: a transfer     *)
(* holds the lock of the driver and sends one byte after another; for each *)
(* it writes the register ACCESS with IRQENA and STA, enables its          *)
(* interrupt at the controller and waits for the semaphore "done" until    *)
(* RDY is back.  The handler disables the interrupt and posts.             *)
(*                                                                         *)
(* The interrupt request is a level, IRQENA and RDY, and the controller    *)
(* starts with the interrupt enabled: "done" may hold a token too many, as *)
(* the loop around sem_wait expects.  Threads that wait for the lock are   *)
(* not represented.                                                        *)
(***************************************************************************)
EXTENDS Integers, SequencesExt

CONSTANTS
  Byte,   \* what a byte read may be
  Slave,  \* the slaves of the SPI master
  MaxLen, \* the longest part of a transfer
  NULL

ASSUME MasterAssumption ==
  /\ Slave # {} /\ NULL \notin Slave /\ MaxLen \in Nat \ {0}
  /\ Byte # {} /\ {"ack", "nack"} \cap Byte = {} /\ NULL # "i2c"

VARIABLES
  kind,     \* which of the two masters this is; it never changes
  at,       \* where the transfer is; "free": the lock is free
  call,     \* what the transfer has left to do
  data,     \* the bytes it has read
  result,   \* what the last transfer returned
  ready,    \* RDY
  irqena,   \* IRQENA
  out,      \* the byte in transmission, or the last one
  rx,       \* RXDATA, with NACK
  enabled,  \* the interrupt at the controller
  done,     \* the tokens of sp->done
  wire,     \* the bytes of this transfer, as they went over the lines
  open      \* the slave selected (SPI); "i2c" between START and STOP; or NULL

masterVars == <<kind, at, call, data, result, ready, irqena, out, rx, enabled, done, wire, open>>

Places == {"free", "next", "enable", "wait", "check"}
Ack  == "ack"
Nack == "nack"

\* What can come back for a byte.
Answers(b) == IF b.op \in {"addr", "write"} THEN {Ack, Nack} ELSE Byte

-----------------------------------------------------------------------------

\* The write to ACCESS; the master ignores it while it is busy.
Put(b) ==
  /\ at = "next"
  /\ at' = "enable"
  /\ IF ready THEN ready' = FALSE /\ irqena' = TRUE /\ out' = b
              ELSE UNCHANGED <<ready, irqena, out>>
  /\ UNCHANGED <<kind, call, data, result, rx, enabled, done, wire, open>>

\* wait()
EnableIrq ==
  /\ at = "enable"
  /\ at' = "wait" /\ enabled' = TRUE
  /\ UNCHANGED <<kind, call, data, result, ready, irqena, out, rx, done, wire, open>>

SemWait ==
  /\ at = "wait" /\ done > 0
  /\ at' = "check" /\ done' = done - 1
  /\ UNCHANGED <<kind, call, data, result, ready, irqena, out, rx, enabled, wire, open>>

\* A faulty variant: it takes the token for the answer.
AnsweredAtOnce == at = "check"

\* The register is read once: with RDY it is the answer.
Answered == at = "check" /\ ready

WaitAgain ==
  /\ at = "check" /\ ~Answered
  /\ at' = "wait"
  /\ UNCHANGED <<kind, call, data, result, ready, irqena, out, rx, enabled, done, wire, open>>

\* A faulty variant: the request goes on while the master is ready.
IsrStaysEnabled ==
  /\ enabled /\ irqena /\ ready
  /\ done' = done + 1
  /\ UNCHANGED <<kind, at, call, data, result, ready, irqena, out, rx, enabled, wire, open>>

Isr ==
  /\ enabled /\ irqena /\ ready
  /\ enabled' = FALSE /\ done' = done + 1
  /\ UNCHANGED <<kind, at, call, data, result, ready, irqena, out, rx, wire, open>>

\* The master has sent the byte, with START before it or STOP behind it.
ShiftByte ==
  /\ ~ready
  /\ ready' = TRUE
  /\ rx' \in Answers(out)
  /\ wire' = Append(wire, [sent |-> out, got |-> rx'])
  /\ open' = IF kind = "i2c" THEN (IF out.pc THEN NULL ELSE "i2c") ELSE open
  /\ UNCHANGED <<kind, at, call, data, result, irqena, out, enabled, done>>

MasterInit ==
  /\ at = "free" /\ call = NULL /\ data = <<>> /\ result = "ok"
  /\ ready = TRUE /\ irqena = FALSE /\ out = NULL /\ rx = NULL
  /\ enabled = TRUE /\ done = 0
  /\ wire = <<>> /\ open = NULL

MasterStep == EnableIrq \/ SemWait \/ WaitAgain \/ Isr \/ ShiftByte

-----------------------------------------------------------------------------
(* Properties *)

\* The semaphore never holds more than the token of this byte and the one the
\* first transfer leaves behind, however many transfers there are.
TokensBounded == done <= 2
=============================================================================
