--------------------------- MODULE HostbridgePipe ----------------------------
(***************************************************************************)
(* A pipe of the host bridge: bytes that the host sends to a channel go    *)
(* through a ring buffer to the thread that reads its file descriptor.     *)
(* The service thread writes (write_to_channel and the pipe's sink), one   *)
(* thread reads.  sem_lock covers the loads of the two offsets, not the    *)
(* stores; sem_read wakes a reader that found the pipe empty.              *)
(*                                                                         *)
(* The bytes are numbered in the order the host sends them, modulo         *)
(* 2 * Capacity, so that the bytes in the buffer are distinct.             *)
(* Semaphores count as module Semaphore says, which TthSem implements.     *)
(***************************************************************************)
EXTENDS Integers, SequencesExt

CONSTANTS
  Capacity,       \* a power of two, from roundup_pow2 of the requested size
  ChunkLengths,   \* the lengths the service passes to write_to_channel
  ReadLengths,    \* the lengths the reader passes to read
  SEM_VALUE_MAX

ASSUME PipeAssumption ==
  /\ Capacity \in Nat \ {0, 1} /\ \E k \in 1..20 : Capacity = 2^k
  /\ ChunkLengths \subseteq Nat \ {0} /\ ReadLengths \subseteq Nat \ {0}
  /\ SEM_VALUE_MAX \in Nat \ {0}

VARIABLES
  buffer,        \* hostbridge_pipe.buffer
  read_offset,
  write_offset,
  sem_lock,
  sem_read,
  reader,        \* the reader's place in hostbridge_pipe_read and its locals
  sink,          \* the service's place in hostbridge_pipe_sink, likewise
  sent,          \* the number of the next byte the sink stores
  got            \* the bytes the last read returned

pipeVars == <<buffer, read_offset, write_offset, sem_lock, sem_read,
              reader, sink, sent, got>>

Byte == 0..2*Capacity-1
Wrap(x) == x % Capacity                     \* x & (capacity - 1)
AtMost(a, b) == IF a < b THEN a ELSE b

\* The cells of the buffer that n bytes from offset "from" occupy.
Cells(from, n) == {Wrap(from + i) : i \in 0..n-1}

-----------------------------------------------------------------------------
(* hostbridge_pipe_read *)

\* avail1 + avail2: the bytes from r up to w, and round the end of the buffer.
Avail(r, w) == IF r <= w THEN w - r ELSE Capacity - r + w

ReadCall ==
  /\ reader.pc = "idle"
  /\ \E len \in ReadLengths : reader' = [reader EXCEPT !.pc = "lock", !.len = len]
  /\ UNCHANGED <<buffer, read_offset, write_offset, sem_lock, sem_read, sink, sent, got>>

ReadLock ==
  /\ reader.pc = "lock"
  /\ sem_lock > 0
  /\ sem_lock' = sem_lock - 1
  /\ reader' = [reader EXCEPT !.pc = "load"]
  /\ UNCHANGED <<buffer, read_offset, write_offset, sem_read, sink, sent, got>>

\* The loads of both offsets and the post of sem_lock.  Only the load of
\* write_offset, which this thread does not store, can go differently from
\* one moment to the next.
ReadSnapshot ==
  /\ reader.pc = "load"
  /\ sem_lock' = sem_lock + 1
  /\ reader' = [reader EXCEPT !.r = read_offset, !.w = write_offset,
       !.pc = IF read_offset = write_offset THEN "pend" ELSE "copy"]
  /\ UNCHANGED <<buffer, read_offset, write_offset, sem_read, sink, sent, got>>

\* goto retry
ReadPend ==
  /\ reader.pc = "pend"
  /\ sem_read > 0
  /\ sem_read' = sem_read - 1
  /\ reader' = [reader EXCEPT !.pc = "lock"]
  /\ UNCHANGED <<buffer, read_offset, write_offset, sem_lock, sink, sent, got>>

ReadCount == AtMost(reader.len, Avail(reader.r, reader.w))

ReadCopy ==
  /\ reader.pc = "copy"
  /\ reader' = [reader EXCEPT !.pc = "publish",
       !.data = [i \in 1..ReadCount |-> buffer[Wrap(reader.r + i - 1)]]]
  /\ UNCHANGED <<buffer, read_offset, write_offset, sem_lock, sem_read, sink, sent, got>>

\* A faulty variant: the offset goes one byte too far.
ReadPublishTooFar ==
  /\ reader.pc = "publish"
  /\ read_offset' = Wrap(reader.r + Len(reader.data) + 1)
  /\ got' = reader.data
  /\ reader' = [reader EXCEPT !.pc = "idle", !.data = <<>>]
  /\ UNCHANGED <<buffer, write_offset, sem_lock, sem_read, sink, sent>>

\* The store of read_offset and the return.
ReadPublish ==
  /\ reader.pc = "publish"
  /\ read_offset' = Wrap(reader.r + Len(reader.data))
  /\ got' = reader.data
  /\ reader' = [reader EXCEPT !.pc = "idle", !.data = <<>>]
  /\ UNCHANGED <<buffer, write_offset, sem_lock, sem_read, sink, sent>>

-----------------------------------------------------------------------------
(* write_to_channel and hostbridge_pipe_sink *)

WriteCall ==
  /\ sink.pc = "idle"
  /\ \E len \in ChunkLengths : sink' = [sink EXCEPT !.pc = "lock", !.len = len]
  /\ UNCHANGED <<buffer, read_offset, write_offset, sem_lock, sem_read, reader, sent, got>>

SinkLock ==
  /\ sink.pc = "lock"
  /\ sem_lock > 0
  /\ sem_lock' = sem_lock - 1
  /\ sink' = [sink EXCEPT !.pc = "load"]
  /\ UNCHANGED <<buffer, read_offset, write_offset, sem_read, reader, sent, got>>

\* A faulty variant: the last free byte is used, full looks like empty.
FreeAll(r, w) == IF r <= w THEN Capacity - w + r ELSE r - w

\* free1: what is free up to the end of the buffer or to the reader, but for
\* one byte that always stays free; free2: the same from the start.
Free1(r, w) == IF r <= w THEN IF r = 0 THEN Capacity - w - 1 ELSE Capacity - w
               ELSE r - w - 1
Free2(r, w) == IF r <= w /\ r > 0 THEN r - 1 ELSE 0
Free(r, w) == Free1(r, w) + Free2(r, w)

\* A full buffer makes the sink return 0, and write_to_channel yield and call
\* again.
SinkSnapshot ==
  /\ sink.pc = "load"
  /\ sem_lock' = sem_lock + 1
  /\ sink' = [sink EXCEPT !.r = read_offset, !.w = write_offset,
       !.pc = IF Free1(read_offset, write_offset) = 0 THEN "full" ELSE "copy"]
  /\ UNCHANGED <<buffer, read_offset, write_offset, sem_read, reader, sent, got>>

Retry ==
  /\ sink.pc = "full"
  /\ sink' = [sink EXCEPT !.pc = "lock"]
  /\ UNCHANGED <<buffer, read_offset, write_offset, sem_lock, sem_read, reader, sent, got>>

SinkCount == AtMost(sink.len, Free(sink.r, sink.w))

SinkCopy ==
  /\ sink.pc = "copy"
  /\ buffer' = [c \in 0..Capacity-1 |->
                  IF c \in Cells(sink.w, SinkCount)
                  THEN (sent + Wrap(c - sink.w)) % (2*Capacity) ELSE buffer[c]]
  /\ sent' = (sent + SinkCount) % (2*Capacity)
  /\ sink' = [sink EXCEPT !.pc = "publish"]
  /\ UNCHANGED <<read_offset, write_offset, sem_lock, sem_read, reader, got>>

SinkPublish ==
  /\ sink.pc = "publish"
  /\ write_offset' = Wrap(sink.w + SinkCount)
  /\ sink' = [sink EXCEPT !.pc = "post"]
  /\ UNCHANGED <<buffer, read_offset, sem_lock, sem_read, reader, sent, got>>

\* A faulty variant: the post is made when the buffer was not empty.
SinkPostIfData ==
  /\ sink.pc = "post"
  /\ sem_read' = IF sink.r # sink.w THEN AtMost(sem_read + 1, SEM_VALUE_MAX) ELSE sem_read
  /\ sink' = [sink EXCEPT !.len = @ - SinkCount,
                          !.pc = IF sink.len = SinkCount THEN "idle" ELSE "lock"]
  /\ UNCHANGED <<buffer, read_offset, write_offset, sem_lock, reader, sent, got>>

\* The reader is woken if the buffer was empty when the sink looked; the rest
\* of the chunk makes another call.
SinkPost ==
  /\ sink.pc = "post"
  /\ sem_read' = IF sink.r = sink.w THEN AtMost(sem_read + 1, SEM_VALUE_MAX) ELSE sem_read
  /\ sink' = [sink EXCEPT !.len = @ - SinkCount,
                          !.pc = IF sink.len = SinkCount THEN "idle" ELSE "lock"]
  /\ UNCHANGED <<buffer, read_offset, write_offset, sem_lock, reader, sent, got>>

-----------------------------------------------------------------------------

\* peridot_sw_hostbridge_gen2_mkpipe
PipeInit ==
  /\ buffer = [c \in 0..Capacity-1 |-> 0]
  /\ read_offset = 0 /\ write_offset = 0
  /\ sem_lock = 1 /\ sem_read = 0
  /\ reader = [pc |-> "idle", len |-> 0, r |-> 0, w |-> 0, data |-> <<>>]
  /\ sink = [pc |-> "idle", len |-> 0, r |-> 0, w |-> 0]
  /\ sent = 0 /\ got = <<>>

ReaderStep == ReadLock \/ ReadSnapshot \/ ReadPend \/ ReadCopy \/ ReadPublish
SinkStep == SinkLock \/ SinkSnapshot \/ Retry \/ SinkCopy \/ SinkPublish \/ SinkPost

PipeNext == ReadCall \/ ReaderStep \/ WriteCall \/ SinkStep

PipeSpec == PipeInit /\ [][PipeNext]_pipeVars

-----------------------------------------------------------------------------
(* Properties *)

\* The reader's copy from the buffer and the sink's copy into it, which no
\* lock keeps apart, never touch the same byte, however old the offsets are
\* that each of them loaded.
DisjointCopies ==
  reader.pc = "copy" /\ sink.pc = "copy" =>
    Cells(reader.r, ReadCount) \cap Cells(sink.w, SinkCount) = {}

\* What lies between the offsets.
Stored == [i \in 1..Avail(read_offset, write_offset) |-> buffer[Wrap(read_offset + i - 1)]]

Fifo == INSTANCE ByteQueue WITH queue <- Stored, Bound <- Capacity - 1

\* The pipe is a queue: every read returns the bytes the host has sent and no
\* read has returned yet, in their order, whatever the two threads overlap.
ImplementsQueue == Fifo!Spec

\* Each byte in the queue is the successor of the one before it.
NumberedInOrder ==
  \A i, j \in DOMAIN Stored :
    j = i + 1 => Stored[j] = (Stored[i] + 1) % (2*Capacity)

(***************************************************************************)
(* Fairness: both threads get the processor again and again (they have one *)
(* priority and time slices), and sem_lock serves its waiters in turn.     *)
(***************************************************************************)
PipeFairness ==
  /\ SF_pipeVars(ReadLock) /\ SF_pipeVars(SinkLock)
  /\ WF_pipeVars(ReaderStep) /\ WF_pipeVars(SinkStep)
  /\ WF_pipeVars(ReadCall)

FairPipeSpec == PipeSpec /\ PipeFairness

\* A reader that waits on an empty pipe gets the bytes of the next call of
\* the sink, if that call has not looked at the offsets yet.
WaitingReaderServed ==
  (reader.pc = "pend" /\ sink.pc = "lock" /\ read_offset = write_offset)
    ~> (reader.pc = "publish")

\* "Buffer overflow => Drop data" (peridot_sw_hostbridge_gen2_pipe.c:127):
\* when the buffer is full the service drops the bytes and goes on.
OverflowDrops == (sink.pc = "full") ~> (sink.pc = "idle")
=============================================================================
