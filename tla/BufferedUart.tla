---------------------------- MODULE BufferedUart ----------------------------
(***************************************************************************)
(* The driver of the buffered UART, over which the host is reached.  Its   *)
(* interrupts are one-shot: a thread that finds the RX FIFO empty or the   *)
(* TX FIFO full enables the cause and waits for a semaphore; the handler   *)
(* disables the causes it serves and posts their semaphores.  One thread   *)
(* reads; the writers exclude each other, so that one writes or closes.    *)
(*                                                                         *)
(* A byte is a unit of the fill levels rx and tx: what the FIFOs hold, and *)
(* words of two bytes, are left out.                                       *)
(***************************************************************************)
EXTENDS TthSem

CONSTANTS
  SemOf,   \* the semaphore of each cause: sem_read, sem_write, sem_close
  Reader,  \* the thread of the host bridge
  Writer,
  Depth,   \* of both FIFOs
  MaxLen   \* the longest read or write

Causes == {"RXNE", "TXNF", "TXE"}

ASSUME UartAssumption ==
  /\ SemOf \in [Causes -> Sem] /\ IsInjective(SemOf)
  /\ Reader \in Thread \ {Idle} /\ Writer \in Thread \ {Idle, Reader}
  /\ Depth \in Nat \ {0} /\ MaxLen \in Nat \ {0}

VARIABLES
  rx, tx,  \* how many bytes the FIFOs hold
  intr,    \* the causes enabled in the INTR register
  due,     \* the causes whose semaphores the handler has still to post
  call     \* the driver call of each thread

uartVars == <<rx, tx, intr, due, call>>
bvars == <<list, running, waitstate, intLevel, ticked, cont, value,
           rx, tx, intr, due, call>>

Status == {c \in Causes : \/ c = "RXNE" /\ rx > 0
                          \/ c = "TXNF" /\ tx < Depth
                          \/ c = "TXE" /\ tx = 0}

\* The interrupt request of the device.
Irq == Status \cap intr

NoCall == [at |-> "out", left |-> 0, some |-> FALSE, nonblock |-> FALSE]
\* Where a thread is in read, write or close: at the head of the loop, before
\* it enables the cause ("...arm"), before it waits ("...pend").
Places == {"out", "read", "readarm", "readpend", "write", "writepend",
           "close", "closearm", "closepend"}

At(p) == UserMode /\ call[running].at = p
Goto(p) == call' = [call EXCEPT ![running].at = p]
Return == call' = [call EXCEPT ![running] = NoCall]

-----------------------------------------------------------------------------
(* Threads *)

Start(p, n) ==
  \E nb \in BOOLEAN :
    call' = [call EXCEPT ![running] = [at |-> p, left |-> n, some |-> FALSE, nonblock |-> nb]]

CallRead ==
  /\ At("out") /\ running = Reader
  /\ \E n \in 1..MaxLen : Start("read", n)
  /\ UNCHANGED <<semVars, rx, tx, intr, due>>

CallWrite ==
  /\ At("out") /\ running = Writer
  /\ \E n \in 1..MaxLen : Start("write", n)
  /\ UNCHANGED <<semVars, rx, tx, intr, due>>

CallClose ==
  /\ At("out") /\ running = Writer
  /\ Start("close", 0)
  /\ UNCHANGED <<semVars, rx, tx, intr, due>>

\* One more byte of the call; the loop ends with the last one.
Advance(p) ==
  IF call[running].left = 1 THEN Return
  ELSE call' = [call EXCEPT ![running].at = p, ![running].left = @ - 1, ![running].some = TRUE]

\* The register DATA is read with the interrupts enabled.
ReadByte ==
  /\ At("read") /\ rx > 0
  /\ rx' = rx - 1
  /\ Advance("read")
  /\ UNCHANGED <<semVars, tx, intr, due>>

\* RXE: the bytes read so far, EWOULDBLOCK, or wait.
ReadEmpty ==
  /\ At("read") /\ rx = 0
  /\ IF call[running].some \/ call[running].nonblock THEN Return ELSE Goto("readarm")
  /\ UNCHANGED <<semVars, rx, tx, intr, due>>

\* A faulty variant: it enables the cause of the writers.
EnableTxnf(c) == intr' = intr \cup {IF c = "TXE" THEN "TXNF" ELSE c}

Enable(c) == intr' = intr \cup {c}

\* buffered_uart_wait, with the interrupts disabled up to the wait.
ReadArm ==
  /\ At("readarm")
  /\ Enable("RXNE")
  /\ Goto("readpend")
  /\ UNCHANGED <<semVars, rx, tx, due>>

CloseArm ==
  /\ At("closearm")
  /\ Enable("TXE")
  /\ Goto("closepend")
  /\ UNCHANGED <<semVars, rx, tx, due>>

WriteByte ==
  /\ At("write") /\ tx < Depth
  /\ tx' = tx + 1
  /\ Advance("write")
  /\ UNCHANGED <<semVars, rx, intr, due>>

\* TXF is read and the cause enabled in one critical section.
WriteFull ==
  /\ At("write") /\ tx = Depth
  /\ IF call[running].nonblock THEN Return /\ UNCHANGED intr
     ELSE Goto("writepend") /\ Enable("TXNF")
  /\ UNCHANGED <<semVars, rx, tx, due>>

CloseEmpty ==
  /\ At("close") /\ tx = 0
  /\ Return
  /\ UNCHANGED <<semVars, rx, tx, intr, due>>

\* O_NONBLOCK is looked at before the loop only; then the first look at the
\* status returns.
CloseBusy ==
  /\ At("close") /\ tx > 0
  /\ IF call[running].nonblock THEN Return ELSE Goto("closearm")
  /\ UNCHANGED <<semVars, rx, tx, intr, due>>

Pend(p, c, loop) ==
  /\ At(p)
  /\ sem_wait(SemOf[c])
  /\ Goto(loop)
  /\ UNCHANGED <<rx, tx, intr, due>>

\* The callers of the driver use other semaphores between the calls.
Others == Sem \ {SemOf[c] : c \in Causes}

OtherStep ==
  /\ \E s \in Others :
       \/ At("out") /\ (sem_post(s) \/ sem_wait(s) \/ sem_trywait(s))
       \/ IsrPost(s)
  /\ UNCHANGED uartVars

Resume == \E s \in Sem : ResumeSemWait(s) /\ UNCHANGED uartVars

-----------------------------------------------------------------------------
(* The device and the interrupt *)

\* A byte that arrives with the FIFO full is dropped.
Receive == rx < Depth /\ rx' = rx + 1 /\ UNCHANGED <<semVars, tx, intr, due, call>>

Transmit == tx > 0 /\ tx' = tx - 1 /\ UNCHANGED <<semVars, rx, intr, due, call>>

\* A faulty variant: the handler disables every cause.
IsrDisablesAll ==
  /\ intLevel > 0 /\ due = {} /\ Irq # {}
  /\ due' = Irq
  /\ intr' = {}
  /\ UNCHANGED <<semVars, rx, tx, call>>

\* buffered_uart_irq up to the posts.
UartIsr ==
  /\ intLevel > 0 /\ due = {} /\ Irq # {}
  /\ due' = Irq
  /\ intr' = intr \ Irq
  /\ UNCHANGED <<semVars, rx, tx, call>>

\* The posts, in the order of the code.
UartPost(c) ==
  /\ c \in due
  /\ c = "TXNF" => "RXNE" \notin due
  /\ c = "TXE" => due = {"TXE"}
  /\ IsrPost(SemOf[c])
  /\ due' = due \ {c}
  /\ UNCHANGED <<rx, tx, intr, call>>

\* The scheduler, of which the driver sees the interrupts and the time slices.
\* The handlers run until no interrupt is requested any more.
Schedule ==
  /\ \/ tth_int_enter
     \/ due = {} /\ tth_int_tick
     \/ due = {} /\ Irq = {} /\ tth_int_exit
  /\ UNCHANGED <<value, uartVars>>

\* buffered_uart_init: empty FIFOs, no cause enabled.
UartInit ==
  /\ SemInit
  /\ rx = 0 /\ tx = 0 /\ intr = {} /\ due = {}
  /\ call = [t \in Thread |-> NoCall]

UartNext ==
  \/ CallRead \/ ReadByte \/ ReadEmpty \/ ReadArm
  \/ CallWrite \/ WriteByte \/ WriteFull
  \/ CallClose \/ CloseEmpty \/ CloseBusy \/ CloseArm
  \/ Pend("readpend", "RXNE", "read")
  \/ Pend("writepend", "TXNF", "write")
  \/ Pend("closepend", "TXE", "close")
  \/ Resume \/ OtherStep
  \/ Receive \/ Transmit
  \/ UartIsr \/ \E c \in Causes : UartPost(c)
  \/ Schedule

UartSpec == UartInit /\ [][UartNext]_bvars

-----------------------------------------------------------------------------
(* Properties *)

\* The types, and the FIFOs within their depths.
UartTypeOK ==
  /\ SemTypeOK
  /\ rx \in 0..Depth /\ tx \in 0..Depth
  /\ intr \subseteq Causes /\ due \subseteq Causes
  /\ call \in [Thread -> [at : Places, left : 0..MaxLen, some : BOOLEAN, nonblock : BOOLEAN]]

\* A thread that waits for a semaphore of the driver can count on the handler:
\* its cause is still enabled, or about to be posted.  The threads and the
\* handler change the one register behind each other's back.
WaiterArmed ==
  \A c \in Causes : list[SemOf[c]] # <<>> => c \in intr \cup due

(***************************************************************************)
(* Fairness: the line transmits; a requested interrupt is taken and its    *)
(* handler runs to its end; time slices end; a thread that has the         *)
(* processor again and again goes on with its call.                        *)
(***************************************************************************)
ReadOn  == running = Reader /\ (ReadByte \/ ReadEmpty \/ ReadArm \/ Pend("readpend", "RXNE", "read") \/ Resume)
WriteOn ==
  /\ running = Writer
  /\ \/ WriteByte \/ WriteFull \/ CloseEmpty \/ CloseBusy \/ CloseArm \/ Resume
     \/ Pend("writepend", "TXNF", "write") \/ Pend("closepend", "TXE", "close")

UartFairness ==
  /\ WF_bvars(Transmit)
  /\ WF_bvars(UartIsr) /\ WF_bvars(\E c \in Causes : UartPost(c))
  /\ WF_bvars(tth_int_exit /\ Schedule)
  /\ SF_bvars(tth_int_enter /\ Schedule)
  /\ SF_bvars(EndSlice /\ Schedule)
  /\ SF_bvars(ReadOn) /\ SF_bvars(WriteOn)

FairUartSpec == UartSpec /\ UartFairness

\* A read returns once there is a byte, a write and a close always: no wakeup
\* is lost between a look at the FIFO, the enabling and the wait.
UartServed ==
  /\ (call[Reader].at # "out" /\ rx > 0) ~> (call[Reader].at = "out")
  /\ (call[Writer].at # "out") ~> (call[Writer].at = "out")
=============================================================================
