-------------------------- MODULE HostBridgeProofs ---------------------------
(***************************************************************************)
(* The host bridge for any number of threads, any messages and packets,    *)
(* any sizes of buffers and every overlap: first a pipe, then the stream   *)
(* to the host, then the streams from it and bus access at their end.      *)
(*                                                                         *)
(* The pipe: the reader works with an old write_offset and the sink with   *)
(* an old read_offset; the argument is that an old offset only ever        *)
(* promises less: the bytes the reader believes to be there are there, and *)
(* the cells the sink believes to be free are free.                        *)
(*                                                                         *)
(* To the host: what it has made of the stream so far, and the bytes that  *)
(* are in the buffer of the call inside the lock, make up the bytes that   *)
(* are encoded.  That a run of bytes leads the host from one state to      *)
(* another is said by the states in between, so that bytes can be taken    *)
(* from its front and put at its end without an induction.                 *)
(*                                                                         *)
(* From the host: the bytes that are on the wire, in the buffer of the     *)
(* service and in the hands of bus access lead, in the same sense, from    *)
(* where bus access is and what it and the pipe still owe to the state in  *)
(* which nothing is owed but the packet that the host is sending.          *)
(***************************************************************************)
EXTENDS HostbridgePipe, HostBridge, SequenceTheorems, TLAPS

-----------------------------------------------------------------------------
(* The pipe *)

Offset == 0..Capacity-1

\* The types of the buffer, of the offsets and of the locals of the two threads.
PipeTypeOK ==
  /\ buffer \in [Offset -> Byte]
  /\ read_offset \in Offset /\ write_offset \in Offset
  /\ reader \in [pc : {"idle", "lock", "load", "pend", "copy", "publish"}, len : Nat,
                 r : Offset, w : Offset, data : Seq(Byte)]
  /\ sink \in [pc : {"idle", "lock", "load", "full", "copy", "publish", "post"}, len : Nat,
               r : Offset, w : Offset]
  /\ sent \in Byte
  /\ reader.pc # "idle" => reader.len > 0
  /\ sink.pc # "idle" => sink.len > 0

\* The reader has its own offset and an old one of the sink, up to which there
\* are bytes.
ReaderBehind ==
  reader.pc \in {"copy", "publish"} =>
    /\ reader.r = read_offset
    /\ Avail(reader.r, reader.w) \in 1..Avail(read_offset, write_offset)

\* What the reader has copied is still in the buffer.
DataStays ==
  reader.pc = "publish" =>
    reader.data = [i \in 1..ReadCount |-> buffer[Wrap(reader.r + i - 1)]]

\* The sink has its own offset and an old one of the reader, up to which the
\* cells are free.
SinkBehind ==
  sink.pc \in {"copy", "publish"} =>
    /\ sink.w = write_offset
    /\ Free(sink.r, sink.w) \in 1..Free(read_offset, write_offset)

PipeInv == PipeTypeOK /\ ReaderBehind /\ DataStays /\ SinkBehind

-----------------------------------------------------------------------------
(* Arithmetic of the ring *)

\* The offsets after the masking with capacity - 1.
LEMMA WrapFacts ==
  /\ Capacity \in Nat \ {0, 1}
  /\ \A x \in Int : Wrap(x) \in Offset /\ x % (2*Capacity) \in Byte
  /\ \A x \in 0..2*Capacity-1 : Wrap(x) = IF x < Capacity THEN x ELSE x - Capacity
<1> DEFINE C == Capacity
<1>1. C \in Nat \ {0, 1}
  BY PipeAssumption
<1> HIDE DEF C
<1>2. \A x \in Int : x % C \in 0..C-1
  BY <1>1
<1>3. \A x \in Int : x % (2*C) \in 0..2*C-1
  BY <1>1
<1>4. \A x \in 0..C-1 : x % C = x
  BY <1>1
<1>5. \A x \in C..2*C-1 : x % C = x - C
  BY <1>1
<1>6. \A x \in 0..2*C-1 : x % C = IF x < C THEN x ELSE x - C
  BY <1>1, <1>4, <1>5
<1> QED BY <1>1, <1>2, <1>3, <1>6 DEF C, Wrap, Offset, Byte

\* What is not stored is free but for one cell, however the two parts of the
\* free space lie.
LEMMA FreeFacts ==
  ASSUME NEW r \in Offset, NEW w \in Offset
  PROVE  /\ Avail(r, w) \in 0..Capacity-1 /\ Free(r, w) = Capacity - 1 - Avail(r, w)
         /\ Avail(r, w) \in Nat /\ Free(r, w) \in Nat
         /\ Avail(r, w) = 0 <=> r = w
         /\ Free1(r, w) = 0 <=> Free(r, w) = 0
BY WrapFacts DEF Avail, Free, Free1, Free2, Offset

\* No stored cell is free.
LEMMA CellsApart ==
  ASSUME NEW r \in Offset, NEW w \in Offset,
         NEW i \in 0..Avail(r, w)-1, NEW j \in 0..Free(r, w)-1
  PROVE  Wrap(r + i) # Wrap(w + j)
<1>1. /\ Avail(r, w) \in 0..Capacity-1 /\ Free(r, w) = Capacity - 1 - Avail(r, w)
      /\ Capacity \in Nat \ {0, 1}
  BY FreeFacts, WrapFacts
<1>2. r + i \in 0..2*Capacity-1 /\ w + j \in 0..2*Capacity-1
  BY <1>1 DEF Offset
<1>3. /\ Wrap(r + i) = IF r + i < Capacity THEN r + i ELSE r + i - Capacity
      /\ Wrap(w + j) = IF w + j < Capacity THEN w + j ELSE w + j - Capacity
  BY <1>1, <1>2, WrapFacts DEF Offset
<1> QED BY <1>1, <1>3 DEF Avail, Offset

\* A store of write_offset, n bytes on.
LEMMA WriteAdvances ==
  ASSUME NEW r \in Offset, NEW w \in Offset, NEW n \in 0..Free(r, w)
  PROVE  Avail(r, Wrap(w + n)) = Avail(r, w) + n
<1>1. /\ Avail(r, w) \in 0..Capacity-1 /\ Free(r, w) = Capacity - 1 - Avail(r, w)
      /\ Capacity \in Nat \ {0, 1}
  BY FreeFacts, WrapFacts
<1>2. Wrap(w + n) = IF w + n < Capacity THEN w + n ELSE w + n - Capacity
  <2>1. w + n \in 0..2*Capacity-1
    BY <1>1 DEF Offset
  <2> QED BY <1>1, <2>1, WrapFacts DEF Offset
<1> QED BY <1>1, <1>2 DEF Avail, Offset

\* A store of read_offset, n bytes on.
LEMMA ReadAdvances ==
  ASSUME NEW r \in Offset, NEW w \in Offset, NEW n \in 0..Avail(r, w)
  PROVE  /\ Avail(Wrap(r + n), w) = Avail(r, w) - n
         /\ \A i \in 1..Avail(r, w)-n : Wrap(Wrap(r + n) + i - 1) = Wrap(r + (n + i) - 1)
<1>1. /\ Avail(r, w) \in 0..Capacity-1 /\ Capacity \in Nat \ {0, 1}
  BY FreeFacts, WrapFacts
<1>2. Wrap(r + n) = IF r + n < Capacity THEN r + n ELSE r + n - Capacity
  <2>1. r + n \in 0..2*Capacity-1
    BY <1>1 DEF Offset
  <2> QED BY <1>1, <2>1, WrapFacts DEF Offset
<1>3. Avail(Wrap(r + n), w) = Avail(r, w) - n
  BY <1>1, <1>2 DEF Avail, Offset
<1>4. ASSUME NEW i \in 1..Avail(r, w)-n
      PROVE  Wrap(Wrap(r + n) + i - 1) = Wrap(r + (n + i) - 1)
  <2> DEFINE a == Wrap(r + n) + i - 1
             b == r + (n + i) - 1
  <2>1. a \in 0..2*Capacity-1 /\ b \in 0..2*Capacity-1 /\ (a = b \/ (a = b - Capacity /\ a >= 0))
    BY <1>1, <1>2 DEF Offset
  <2>2. b - Capacity < Capacity
    BY <1>1, <2>1
  <2> HIDE DEF a, b
  <2>3. Wrap(a) = Wrap(b)
    BY <1>1, <2>1, <2>2, WrapFacts
  <2> QED BY <2>3 DEF a, b
<1> QED BY <1>3, <1>4

-----------------------------------------------------------------------------
(* Every step *)

\* What the reader takes is there.
LEMMA ReaderCounts ==
  ASSUME PipeInv, reader.pc \in {"copy", "publish"}
  PROVE  /\ reader.r = read_offset
         /\ ReadCount \in 1..Avail(read_offset, write_offset)
         /\ Avail(read_offset, write_offset) \in 0..Capacity-1
<1>1. /\ read_offset \in Offset /\ write_offset \in Offset /\ reader.len \in Nat \ {0}
      /\ reader.r = read_offset
      /\ Avail(reader.r, reader.w) \in 1..Avail(read_offset, write_offset)
  BY DEF PipeInv, PipeTypeOK, ReaderBehind
<1>2. Avail(read_offset, write_offset) \in 0..Capacity-1 /\ Capacity \in Nat
  BY <1>1, FreeFacts, WrapFacts
<1> QED BY <1>1, <1>2 DEF ReadCount, AtMost

\* What the sink fills is free.
LEMMA SinkCounts ==
  ASSUME PipeInv, sink.pc \in {"copy", "publish"}
  PROVE  /\ sink.w = write_offset
         /\ SinkCount \in 1..Free(read_offset, write_offset) /\ SinkCount <= sink.len
         /\ Free(read_offset, write_offset) = Capacity - 1 - Avail(read_offset, write_offset)
         /\ Avail(read_offset, write_offset) \in 0..Capacity-1
<1>1. /\ read_offset \in Offset /\ write_offset \in Offset /\ sink.len \in Nat \ {0}
      /\ sink.w = write_offset
      /\ Free(sink.r, sink.w) \in 1..Free(read_offset, write_offset)
  BY DEF PipeInv, PipeTypeOK, SinkBehind
<1>2. /\ Avail(read_offset, write_offset) \in 0..Capacity-1 /\ Capacity \in Nat
      /\ Free(read_offset, write_offset) = Capacity - 1 - Avail(read_offset, write_offset)
  BY <1>1, FreeFacts, WrapFacts
<1> QED BY <1>1, <1>2 DEF SinkCount, AtMost

\* The pipe as mkpipe makes it.
LEMMA PipeInitial == PipeInit => PipeInv /\ Stored = <<>> /\ got = <<>>
<1> SUFFICES ASSUME PipeInit PROVE PipeInv /\ Stored = <<>> /\ got = <<>>
  OBVIOUS
<1>1. 0 \in Offset /\ 0 \in Byte /\ <<>> \in Seq(Byte)
  BY WrapFacts DEF Offset, Byte
<1>2. PipeInv
  <2>1. /\ reader \in [pc : {"idle", "lock", "load", "pend", "copy", "publish"}, len : Nat,
                        r : Offset, w : Offset, data : Seq(Byte)]
        /\ sink \in [pc : {"idle", "lock", "load", "full", "copy", "publish", "post"}, len : Nat,
                      r : Offset, w : Offset]
        /\ reader.pc = "idle" /\ sink.pc = "idle"
    BY <1>1 DEF PipeInit
  <2>2. buffer \in [Offset -> Byte] /\ read_offset \in Offset /\ write_offset \in Offset /\ sent \in Byte
    BY <1>1 DEF PipeInit, Offset
  <2> QED BY <2>1, <2>2 DEF PipeInv, PipeTypeOK, ReaderBehind, DataStays, SinkBehind
<1>3. Avail(read_offset, write_offset) = 0
  BY DEF PipeInit, Avail
<1>4. Stored = <<>>
  BY <1>3 DEF Stored
<1> QED BY <1>2, <1>4 DEF PipeInit

\* The steps that leave the buffer and the offsets alone.
LEMMA QuietPipeStep ==
  ASSUME PipeInv,
         \/ ReadCall \/ ReadLock \/ ReadSnapshot \/ ReadPend \/ ReadCopy
         \/ WriteCall \/ SinkLock \/ SinkSnapshot \/ Retry \/ SinkPost
  PROVE  PipeInv' /\ UNCHANGED <<Stored, got>>
<1>1. UNCHANGED <<buffer, read_offset, write_offset, got, sent>>
  BY DEF ReadCall, ReadLock, ReadSnapshot, ReadPend, ReadCopy,
    WriteCall, SinkLock, SinkSnapshot, Retry, SinkPost
<1>2. UNCHANGED <<Stored, got>>
  BY <1>1 DEF Stored
<1>3. /\ reader \in [pc : {"idle", "lock", "load", "pend", "copy", "publish"}, len : Nat,
                      r : Offset, w : Offset, data : Seq(Byte)]
      /\ sink \in [pc : {"idle", "lock", "load", "full", "copy", "publish", "post"}, len : Nat,
                    r : Offset, w : Offset]
      /\ read_offset \in Offset /\ write_offset \in Offset
      /\ buffer \in [Offset -> Byte]
  BY DEF PipeInv, PipeTypeOK
<1>4. ChunkLengths \subseteq Nat \ {0} /\ ReadLengths \subseteq Nat \ {0}
  BY PipeAssumption
<1>5. CASE ReadCall \/ ReadLock \/ ReadPend
  <2>1. sink' = sink
    BY <1>5 DEF ReadCall, ReadLock, ReadPend
  <2>2. /\ reader' \in [pc : {"idle", "lock", "load", "pend", "copy", "publish"}, len : Nat,
                         r : Offset, w : Offset, data : Seq(Byte)]
        /\ reader'.pc \in {"lock", "load"} /\ reader'.len > 0
    <3>1. CASE ReadCall
      <4>1. PICK n \in ReadLengths : reader' = [reader EXCEPT !.pc = "lock", !.len = n]
        BY <3>1 DEF ReadCall
      <4>2. n \in Nat /\ n > 0
        BY <1>4
      <4> QED BY <1>3, <4>1, <4>2
    <3>2. CASE ReadLock \/ ReadPend
      <4>1. reader.len > 0 /\ \E p \in {"lock", "load"} : reader' = [reader EXCEPT !.pc = p]
        BY <3>2 DEF ReadLock, ReadPend, PipeInv, PipeTypeOK
      <4> QED BY <1>3, <4>1
    <3> QED BY <1>5, <3>1, <3>2
  <2> QED BY <1>1, <1>2, <2>1, <2>2 DEF PipeInv, PipeTypeOK, ReaderBehind, DataStays, SinkBehind
<1>6. CASE ReadSnapshot
  <2>1. sink' = sink /\ reader.pc = "load"
        /\ reader' = [reader EXCEPT !.r = read_offset, !.w = write_offset,
               !.pc = IF read_offset = write_offset THEN "pend" ELSE "copy"]
    BY <1>6 DEF ReadSnapshot
  <2>2. /\ reader' \in [pc : {"idle", "lock", "load", "pend", "copy", "publish"}, len : Nat,
                         r : Offset, w : Offset, data : Seq(Byte)]
        /\ reader'.r = read_offset /\ reader'.w = write_offset /\ reader'.len = reader.len
        /\ reader'.pc # "publish"
        /\ reader'.pc = "copy" => read_offset # write_offset
    BY <1>3, <2>1
  <2>3. read_offset # write_offset =>
          Avail(read_offset, write_offset) \in 1..Avail(read_offset, write_offset)
    <3> DEFINE n == Avail(read_offset, write_offset)
    <3>1. n \in Nat /\ (n = 0 <=> read_offset = write_offset)
      BY <1>3, FreeFacts
    <3> HIDE DEF n
    <3>2. n # 0 => n \in 1..n
      BY <3>1
    <3> QED BY <3>1, <3>2 DEF n
  <2> QED BY <1>1, <1>2, <2>1, <2>2, <2>3 DEF PipeInv, PipeTypeOK, ReaderBehind, DataStays, SinkBehind
<1>7. CASE ReadCopy
  <2>1. sink' = sink /\ reader.pc = "copy"
        /\ reader' = [reader EXCEPT !.pc = "publish",
               !.data = [i \in 1..ReadCount |-> buffer[Wrap(reader.r + i - 1)]]]
    BY <1>7 DEF ReadCopy
  <2>2. ReadCount \in Nat /\ reader.r \in Int
    BY <1>3, <2>1, ReaderCounts, WrapFacts DEF Offset
  <2>3. [i \in 1..ReadCount |-> buffer[Wrap(reader.r + i - 1)]] \in Seq(Byte)
    <3>1. \A i \in 1..ReadCount : buffer[Wrap(reader.r + i - 1)] \in Byte
      BY <1>3, <2>2, WrapFacts
    <3> QED BY <2>2, <3>1
  <2>4. /\ reader' \in [pc : {"idle", "lock", "load", "pend", "copy", "publish"}, len : Nat,
                         r : Offset, w : Offset, data : Seq(Byte)]
        /\ reader'.r = reader.r /\ reader'.w = reader.w /\ reader'.len = reader.len
        /\ reader'.data = [i \in 1..ReadCount |-> buffer[Wrap(reader.r + i - 1)]]
    BY <1>3, <2>1, <2>3
  <2>5. ReadCount' = ReadCount
    BY <2>4 DEF ReadCount
  <2> QED BY <1>1, <1>2, <2>1, <2>4, <2>5
      DEF PipeInv, PipeTypeOK, ReaderBehind, DataStays, SinkBehind
<1>8. CASE WriteCall \/ SinkLock \/ Retry
  <2>1. reader' = reader
    BY <1>8 DEF WriteCall, SinkLock, Retry
  <2>2. /\ sink' \in [pc : {"idle", "lock", "load", "full", "copy", "publish", "post"}, len : Nat,
                       r : Offset, w : Offset]
        /\ sink'.pc \in {"lock", "load"} /\ sink'.len > 0
    <3>1. CASE WriteCall
      <4>1. PICK n \in ChunkLengths : sink' = [sink EXCEPT !.pc = "lock", !.len = n]
        BY <3>1 DEF WriteCall
      <4>2. n \in Nat /\ n > 0
        BY <1>4
      <4> QED BY <1>3, <4>1, <4>2
    <3>2. CASE SinkLock \/ Retry
      <4>1. sink.len > 0 /\ \E p \in {"lock", "load"} : sink' = [sink EXCEPT !.pc = p]
        BY <3>2 DEF SinkLock, Retry, PipeInv, PipeTypeOK
      <4> QED BY <1>3, <4>1
    <3> QED BY <1>8, <3>1, <3>2
  <2>3. ReadCount' = ReadCount
    BY <2>1 DEF ReadCount
  <2> QED BY <1>1, <1>2, <2>1, <2>2, <2>3 DEF PipeInv, PipeTypeOK, ReaderBehind, DataStays, SinkBehind
<1>9. CASE SinkSnapshot
  <2>1. reader' = reader /\ sink.pc = "load"
        /\ sink' = [sink EXCEPT !.r = read_offset, !.w = write_offset,
             !.pc = IF Free1(read_offset, write_offset) = 0 THEN "full" ELSE "copy"]
    BY <1>9 DEF SinkSnapshot
  <2>2. /\ sink' \in [pc : {"idle", "lock", "load", "full", "copy", "publish", "post"}, len : Nat,
                       r : Offset, w : Offset]
        /\ sink'.r = read_offset /\ sink'.w = write_offset /\ sink'.len = sink.len
        /\ sink'.pc # "publish"
        /\ sink'.pc = "copy" => Free1(read_offset, write_offset) # 0
    BY <1>3, <2>1
  <2>3. Free1(read_offset, write_offset) # 0 =>
          Free(read_offset, write_offset) \in 1..Free(read_offset, write_offset)
    <3> DEFINE n == Free(read_offset, write_offset)
    <3>1. n \in Nat /\ (n = 0 <=> Free1(read_offset, write_offset) = 0)
      BY <1>3, FreeFacts
    <3> HIDE DEF n
    <3>2. n # 0 => n \in 1..n
      BY <3>1
    <3> QED BY <3>1, <3>2 DEF n
  <2>4. ReadCount' = ReadCount
    BY <2>1 DEF ReadCount
  <2> QED BY <1>1, <1>2, <2>1, <2>2, <2>3, <2>4
      DEF PipeInv, PipeTypeOK, ReaderBehind, DataStays, SinkBehind
<1>10. CASE SinkPost
  <2>1. reader' = reader /\ sink.pc = "post"
        /\ sink' = [sink EXCEPT !.len = @ - SinkCount,
                                !.pc = IF sink.len = SinkCount THEN "idle" ELSE "lock"]
    BY <1>10 DEF SinkPost
  <2>2. SinkCount \in 0..sink.len
    <3>1. sink.r \in Offset /\ sink.w \in Offset /\ sink.len \in Nat
      BY <1>3
    <3>2. Free(sink.r, sink.w) \in Nat
      BY <3>1, FreeFacts
    <3> QED BY <3>1, <3>2 DEF SinkCount, AtMost
  <2>3. /\ sink' \in [pc : {"idle", "lock", "load", "full", "copy", "publish", "post"}, len : Nat,
                       r : Offset, w : Offset]
        /\ sink'.pc \in {"idle", "lock"} /\ (sink'.pc # "idle" => sink'.len > 0)
    <3>1. sink.len \in Nat /\ sink.len - SinkCount \in Nat
          /\ (sink.len # SinkCount => sink.len - SinkCount > 0)
      BY <1>3, <2>2
    <3>2. /\ sink'.pc = (IF sink.len = SinkCount THEN "idle" ELSE "lock")
          /\ sink'.len = sink.len - SinkCount /\ sink'.r = sink.r /\ sink'.w = sink.w
      BY <1>3, <2>1
    <3> HIDE DEF SinkCount
    <3> QED BY <1>3, <2>1, <3>1, <3>2
  <2>4. ReadCount' = ReadCount
    BY <2>1 DEF ReadCount
  <2> QED BY <1>1, <1>2, <2>1, <2>3, <2>4 DEF PipeInv, PipeTypeOK, ReaderBehind, DataStays, SinkBehind
<1> QED BY <1>5, <1>6, <1>7, <1>8, <1>9, <1>10

\* The state, as the proofs of the other steps need it.
LEMMA PipeTypes ==
  ASSUME PipeInv
  PROVE  /\ reader \in [pc : {"idle", "lock", "load", "pend", "copy", "publish"}, len : Nat,
                        r : Offset, w : Offset, data : Seq(Byte)]
         /\ sink \in [pc : {"idle", "lock", "load", "full", "copy", "publish", "post"}, len : Nat,
                      r : Offset, w : Offset]
         /\ read_offset \in Offset /\ write_offset \in Offset
         /\ buffer \in [Offset -> Byte] /\ sent \in Byte
         /\ Offset = 0..Capacity-1 /\ Capacity \in Nat \ {0, 1}
BY WrapFacts DEF PipeInv, PipeTypeOK, Offset

\* A copy of the sink touches no byte that is stored.
LEMMA CopyApart ==
  ASSUME PipeInv, sink.pc = "copy", NEW i \in 1..Avail(read_offset, write_offset)
  PROVE  Wrap(read_offset + i - 1) \in Offset \ Cells(sink.w, SinkCount)
<1>1. /\ sink.w = write_offset /\ SinkCount \in 1..Free(read_offset, write_offset)
      /\ Avail(read_offset, write_offset) \in Nat
      /\ read_offset \in Offset /\ write_offset \in Offset /\ read_offset \in Int
      /\ Free(read_offset, write_offset) \in Nat
  BY SinkCounts, PipeTypes, FreeFacts
<1> DEFINE k == i - 1
<1>2. k \in 0..Avail(read_offset, write_offset)-1 /\ read_offset + i - 1 = read_offset + k
  BY <1>1
<1> HIDE DEF k
<1>3. Wrap(read_offset + k) \in Offset
  BY <1>1, <1>2, WrapFacts
<1>4. ASSUME NEW j \in 0..SinkCount-1 PROVE Wrap(read_offset + k) # Wrap(write_offset + j)
  <2>1. j \in 0..Free(read_offset, write_offset)-1
    BY <1>1
  <2> QED BY <1>1, <1>2, <2>1, CellsApart
<1> QED BY <1>1, <1>2, <1>3, <1>4 DEF Cells

\* The sink fills free cells: nothing changes for anybody yet.
LEMMA SinkCopyStep ==
  ASSUME PipeInv, SinkCopy
  PROVE  PipeInv' /\ UNCHANGED <<Stored, got>>
<1>1. /\ sink.pc = "copy" /\ reader' = reader /\ got' = got
      /\ read_offset' = read_offset /\ write_offset' = write_offset
      /\ sink' = [sink EXCEPT !.pc = "publish"]
      /\ sent' = (sent + SinkCount) % (2*Capacity)
      /\ buffer' = [c \in 0..Capacity-1 |->
                     IF c \in Cells(sink.w, SinkCount)
                     THEN (sent + Wrap(c - sink.w)) % (2*Capacity) ELSE buffer[c]]
  BY DEF SinkCopy
<1>2. /\ sink' \in [pc : {"idle", "lock", "load", "full", "copy", "publish", "post"}, len : Nat,
                    r : Offset, w : Offset]
      /\ sink'.pc = "publish" /\ sink'.r = sink.r /\ sink'.w = sink.w /\ sink'.len = sink.len
  BY <1>1, PipeTypes
<1>3. buffer' \in [Offset -> Byte] /\ sent' \in Byte
  <2>1. sink.w \in Int /\ sent \in Int /\ SinkCount \in Int
    BY <1>1, PipeTypes, SinkCounts, WrapFacts DEF Byte
  <2>2. sent' \in Byte
    BY <1>1, <2>1, WrapFacts
  <2>3. ASSUME NEW c \in Offset PROVE (sent + Wrap(c - sink.w)) % (2*Capacity) \in Byte
    <3>1. c - sink.w \in Int
      BY <2>1 DEF Offset
    <3>2. Wrap(c - sink.w) \in Int
      BY <3>1, WrapFacts DEF Offset
    <3>3. sent + Wrap(c - sink.w) \in Int
      BY <2>1, <3>2
    <3> QED BY <3>3, WrapFacts
  <2>4. \A c \in Offset : buffer[c] \in Byte
    BY PipeTypes
  <2>5. \A c \in Offset : buffer'[c] \in Byte
    BY <1>1, <2>3, <2>4 DEF Offset
  <2> QED BY <1>1, <2>2, <2>5 DEF Offset
<1>4. \A i \in 1..Avail(read_offset, write_offset) :
        buffer'[Wrap(read_offset + i - 1)] = buffer[Wrap(read_offset + i - 1)]
  <2>1. \A c \in Offset \ Cells(sink.w, SinkCount) : buffer'[c] = buffer[c]
    BY <1>1 DEF Offset
  <2> QED BY <1>1, <2>1, CopyApart
<1>5. Stored' = Stored
  BY <1>1, <1>4 DEF Stored
<1>6. DataStays'
  <2> SUFFICES ASSUME reader.pc = "publish"
               PROVE  reader.data = [i \in 1..ReadCount |-> buffer'[Wrap(reader.r + i - 1)]]
    BY <1>1 DEF DataStays, ReadCount
  <2>1. /\ reader.r = read_offset /\ ReadCount \in 1..Avail(read_offset, write_offset)
        /\ Avail(read_offset, write_offset) \in Nat
        /\ reader.data = [i \in 1..ReadCount |-> buffer[Wrap(reader.r + i - 1)]]
    BY ReaderCounts, PipeTypes, FreeFacts DEF PipeInv, DataStays
  <2>2. \A i \in 1..ReadCount : i \in 1..Avail(read_offset, write_offset)
    BY <2>1
  <2> QED BY <1>4, <2>1, <2>2
<1>7. PipeTypeOK' /\ ReaderBehind' /\ SinkBehind'
  BY <1>1, <1>2, <1>3 DEF PipeInv, PipeTypeOK, ReaderBehind, SinkBehind
<1> QED BY <1>1, <1>5, <1>6, <1>7 DEF PipeInv

\* The store of write_offset appends what the sink has copied.
LEMMA SinkPublishStep ==
  ASSUME PipeInv, SinkPublish
  PROVE  PipeInv' /\ Fifo!Write
<1> DEFINE n == SinkCount
           A == Avail(read_offset, write_offset)
<1>1. /\ sink.pc = "publish" /\ reader' = reader /\ got' = got /\ buffer' = buffer /\ sent' = sent
      /\ read_offset' = read_offset /\ write_offset' = Wrap(sink.w + SinkCount)
      /\ sink' = [sink EXCEPT !.pc = "post"]
  BY DEF SinkPublish
<1>2. /\ sink.w = write_offset /\ n \in 1..Free(read_offset, write_offset)
      /\ Free(read_offset, write_offset) = Capacity - 1 - A /\ A \in 0..Capacity-1
      /\ A \in Nat /\ Capacity \in Nat
  BY <1>1, SinkCounts, PipeTypes, FreeFacts
<1> HIDE DEF n
<1>3. write_offset' \in Offset
  <2>1. sink.w + n \in Int
    BY <1>2, PipeTypes
  <2> QED BY <1>1, <2>1, WrapFacts DEF n
<1>4. Avail(read_offset, write_offset)' = A + n
  <2>1. n \in 0..Free(read_offset, write_offset)
    BY <1>2
  <2>2. Avail(read_offset, Wrap(write_offset + n)) = A + n
    BY <2>1, PipeTypes, WriteAdvances
  <2>3. Avail(read_offset, write_offset)' = Avail(read_offset, Wrap(write_offset + n))
    BY <1>1, <1>2 DEF n, Avail
  <2> QED BY <2>2, <2>3
<1>5. /\ sink' \in [pc : {"idle", "lock", "load", "full", "copy", "publish", "post"}, len : Nat,
                    r : Offset, w : Offset]
      /\ sink'.pc = "post" /\ sink'.len = sink.len
  BY <1>1, PipeTypes
<1>6. PipeInv'
  <2>1. PipeTypeOK' /\ SinkBehind'
    BY <1>1, <1>3, <1>5 DEF PipeInv, PipeTypeOK, SinkBehind
  <2>2. ReaderBehind'
    <3> SUFFICES ASSUME reader.pc \in {"copy", "publish"}
                 PROVE  /\ reader.r = read_offset
                        /\ Avail(reader.r, reader.w) \in 1..A+n
      BY <1>1, <1>4 DEF ReaderBehind, Avail
    <3>1. reader.r = read_offset /\ Avail(reader.r, reader.w) \in 1..A
      BY DEF PipeInv, ReaderBehind
    <3> HIDE DEF A
    <3> QED BY <1>2, <3>1
  <2>3. DataStays'
    BY <1>1 DEF PipeInv, DataStays, ReadCount
  <2> QED BY <2>1, <2>2, <2>3 DEF PipeInv
<1>7. Stored = [i \in 1..A |-> buffer[Wrap(read_offset + i - 1)]]
  BY DEF Stored
<1>8. Stored' = [i \in 1..A+n |-> buffer[Wrap(read_offset + i - 1)]]
  BY <1>1, <1>4 DEF Stored
<1> HIDE DEF A
<1>9. \A i \in 1..A+n : buffer[Wrap(read_offset + i - 1)] \in Byte
  <2>1. \A i \in 1..A+n : read_offset + i - 1 \in Int
    BY <1>2, PipeTypes
  <2>2. \A i \in 1..A+n : Wrap(read_offset + i - 1) \in Offset
    BY <2>1, WrapFacts
  <2> QED BY <2>2, PipeTypes
<1>10. /\ Stored \in Seq(Byte) /\ Len(Stored) = A
       /\ Stored' \in Seq(Byte) /\ Len(Stored') = A + n /\ DOMAIN Stored' = 1..A+n
       /\ \A i \in 1..A : Stored'[i] = Stored[i]
  <2> DEFINE f == [i \in 1..A |-> buffer[Wrap(read_offset + i - 1)]]
             g == [i \in 1..A+n |-> buffer[Wrap(read_offset + i - 1)]]
  <2>1. f \in Seq(Byte) /\ Len(f) = A
    BY <1>2, <1>9
  <2>2. A + n \in Nat
    BY <1>2
  <2>3. g \in Seq(Byte) /\ Len(g) = A + n /\ DOMAIN g = 1..A+n
    BY <1>9, <2>2
  <2>4. \A i \in 1..A : f[i] = g[i]
    BY <1>2
  <2> HIDE DEF f, g
  <2>5. Stored = f /\ Stored' = g
    BY <1>7, <1>8 DEF f, g
  <2> QED BY <2>1, <2>3, <2>4, <2>5
<1>11. SubSeq(Stored', 1, Len(Stored)) = Stored
  <2> DEFINE f == Stored
             g == Stored'
             h == SubSeq(g, 1, A)
  <2>1. /\ f \in Seq(Byte) /\ Len(f) = A /\ g \in Seq(Byte) /\ Len(g) = A + n
        /\ \A i \in 1..A : g[i] = f[i]
    BY <1>10
  <2> HIDE DEF f, g
  <2>2. /\ h \in Seq(Byte) /\ Len(h) = A /\ \A i \in 1..A : h[i] = g[i]
    BY <1>2, <2>1, SubSeqProperties
  <2> HIDE DEF h
  <2>3. h = f
    BY <2>1, <2>2, SeqEqual
  <2> QED BY <1>10, <2>3 DEF f, g, h
<1>12. Len(Stored') \in Len(Stored)+1..Capacity-1
  BY <1>2, <1>10
<1>13. \A i \in DOMAIN Stored' : Stored'[i] \in Byte
  BY <1>8, <1>9, <1>10
<1> QED BY <1>1, <1>6, <1>11, <1>12, <1>13 DEF Fifo!Write

\* The store of read_offset takes off the queue what the reader returns.
LEMMA ReadPublishStep ==
  ASSUME PipeInv, ReadPublish
  PROVE  PipeInv' /\ Fifo!Read
<1> DEFINE n == ReadCount
           A == Avail(read_offset, write_offset)
<1>1. /\ reader.pc = "publish" /\ sink' = sink /\ buffer' = buffer /\ sent' = sent
      /\ write_offset' = write_offset
      /\ read_offset' = Wrap(reader.r + Len(reader.data))
      /\ got' = reader.data
      /\ reader' = [reader EXCEPT !.pc = "idle", !.data = <<>>]
  BY DEF ReadPublish
<1>2. reader.r = read_offset /\ n \in 1..A /\ A \in 0..Capacity-1 /\ A \in Nat /\ Capacity \in Nat
  BY <1>1, ReaderCounts, PipeTypes, FreeFacts
<1>3. reader.data = [i \in 1..n |-> buffer[Wrap(read_offset + i - 1)]]
  BY <1>1, <1>2 DEF PipeInv, DataStays
<1> HIDE DEF n
<1>4. Len(reader.data) = n /\ reader.data \in Seq(Byte)
  <2>1. reader.data \in Seq(Byte) /\ DOMAIN reader.data = 1..n /\ n \in Nat
    <3>1. reader.data \in Seq(Byte)
      BY PipeTypes
    <3>2. DOMAIN reader.data = 1..n
      BY <1>3, Zenon
    <3>3. n \in Nat
      BY <1>2
    <3> QED BY <3>1, <3>2, <3>3
  <2> DEFINE d == reader.data
  <2> HIDE DEF d
  <2>2. d \in Seq(Byte) /\ DOMAIN d = 1..n /\ n \in Nat
    BY <2>1 DEF d
  <2>3. Len(d) = n
    BY <2>2, LenProperties
  <2> QED BY <2>1, <2>3 DEF d
<1>5. read_offset' = Wrap(read_offset + n) /\ read_offset' \in Offset
  <2>1. read_offset' = Wrap(read_offset + n)
    BY <1>1, <1>2, <1>4
  <2>2. read_offset + n \in Int
    BY <1>2, PipeTypes
  <2> QED BY <2>1, <2>2, WrapFacts
<1>6. /\ Avail(read_offset, write_offset)' = A - n
      /\ \A i \in 1..A-n : Wrap(Wrap(read_offset + n) + i - 1) = Wrap(read_offset + (n + i) - 1)
  <2>1. n \in 0..Avail(read_offset, write_offset)
    BY <1>2
  <2>2. /\ Avail(Wrap(read_offset + n), write_offset) = A - n
        /\ \A i \in 1..A-n : Wrap(Wrap(read_offset + n) + i - 1) = Wrap(read_offset + (n + i) - 1)
    BY <2>1, PipeTypes, ReadAdvances
  <2>3. Avail(read_offset, write_offset)' = Avail(Wrap(read_offset + n), write_offset)
    BY <1>1, <1>5 DEF Avail
  <2> QED BY <2>2, <2>3
<1>7. PipeInv'
  <2>1. /\ reader' \in [pc : {"idle", "lock", "load", "pend", "copy", "publish"}, len : Nat,
                         r : Offset, w : Offset, data : Seq(Byte)]
        /\ reader'.pc = "idle"
    <3>1. <<>> \in Seq(Byte)
      OBVIOUS
    <3> QED BY <1>1, <3>1, PipeTypes
  <2>2. PipeTypeOK' /\ ReaderBehind' /\ DataStays'
    BY <1>1, <1>5, <2>1 DEF PipeInv, PipeTypeOK, ReaderBehind, DataStays
  <2>3. SinkBehind'
    <3> SUFFICES ASSUME sink.pc \in {"copy", "publish"}
                 PROVE  /\ sink.w = write_offset
                        /\ Free(sink.r, sink.w) \in 1..Free(read_offset', write_offset)
      BY <1>1 DEF SinkBehind
    <3>1. /\ sink.w = write_offset
          /\ Free(sink.r, sink.w) \in 1..Free(read_offset, write_offset)
      BY DEF PipeInv, SinkBehind
    <3>2. /\ Free(read_offset, write_offset) = Capacity - 1 - A
          /\ Free(read_offset', write_offset) = Capacity - 1 - Avail(read_offset', write_offset)
      BY <1>5, PipeTypes, FreeFacts
    <3>3. Avail(read_offset', write_offset) = A - n
      BY <1>1, <1>6
    <3> HIDE DEF A
    <3> QED BY <1>2, <3>1, <3>2, <3>3
  <2> QED BY <2>2, <2>3 DEF PipeInv
<1>8. Stored = [i \in 1..A |-> buffer[Wrap(read_offset + i - 1)]]
  BY DEF Stored
<1>9. Stored' = [i \in 1..A-n |-> buffer[Wrap(read_offset + (n + i) - 1)]]
  BY <1>1, <1>5, <1>6 DEF Stored
<1>10. \A i \in 1..A : buffer[Wrap(read_offset + i - 1)] \in Byte
  <2> HIDE DEF A
  <2>1. \A i \in 1..A : read_offset + i - 1 \in Int
    BY <1>2, PipeTypes
  <2>2. \A i \in 1..A : Wrap(read_offset + i - 1) \in Offset
    BY <2>1, WrapFacts
  <2> QED BY <2>2, PipeTypes
<1> DEFINE f == [i \in 1..A |-> buffer[Wrap(read_offset + i - 1)]]
           d == [i \in 1..n |-> buffer[Wrap(read_offset + i - 1)]]
           g == [i \in 1..A-n |-> buffer[Wrap(read_offset + (n + i) - 1)]]
<1> HIDE DEF A
<1>11. f \in Seq(Byte) /\ Len(f) = A
  BY <1>2, <1>10
<1>12. d \in Seq(Byte) /\ Len(d) = n /\ \A i \in 1..n : d[i] = f[i]
  <2>1. n \in Nat /\ \A i \in 1..n : i \in 1..A
    BY <1>2
  <2> QED BY <1>10, <2>1
<1>13. g \in Seq(Byte) /\ Len(g) = A - n /\ \A i \in 1..A-n : g[i] = f[n + i]
  <2>1. A - n \in Nat /\ \A i \in 1..A-n : n + i \in 1..A
    BY <1>2
  <2>2. \A i \in 1..A-n : buffer[Wrap(read_offset + (n + i) - 1)] \in Byte
    BY <1>10, <2>1
  <2> QED BY <2>1, <2>2
<1> HIDE DEF f, d, g
<1>14. SubSeq(f, 1, n) = d
  <2> DEFINE h == SubSeq(f, 1, n)
  <2>1. h \in Seq(Byte) /\ Len(h) = n /\ \A i \in 1..n : h[i] = f[i]
    BY <1>2, <1>11, SubSeqProperties
  <2> HIDE DEF h
  <2>2. h = d
    BY <1>12, <2>1, SeqEqual
  <2> QED BY <2>2 DEF h
<1>15. SubSeq(f, n+1, A) = g
  <2> DEFINE h == SubSeq(f, n+1, A)
  <2>1. /\ h \in Seq(Byte) /\ Len(h) = A - n
        /\ \A i \in 1..A-n : h[i] = f[n + i]
    <3>1. n+1 \in 1..Len(f)+1 /\ A \in n..Len(f) /\ n+1 \in Int /\ A \in Int
      BY <1>2, <1>11
    <3>2. h \in Seq(Byte) /\ Len(h) = (IF n+1 <= A THEN A-(n+1)+1 ELSE 0)
          /\ \A i \in 1..A-(n+1)+1 : h[i] = f[(n+1)+i-1]
      BY <1>2, <1>11, <3>1, SubSeqProperties
    <3> QED BY <1>2, <3>2
  <2> HIDE DEF h
  <2>2. h = g
    BY <1>13, <2>1, SeqEqual
  <2> QED BY <2>2 DEF h
<1>16. got' = d /\ Stored = f /\ Stored' = g
  BY <1>1, <1>3, <1>8, <1>9 DEF f, d, g
<1>17. Len(Stored) = A /\ n \in 1..Len(Stored)
  BY <1>2, <1>11, <1>16
<1>18. got' = SubSeq(Stored, 1, n) /\ Stored' = SubSeq(Stored, n+1, Len(Stored))
  BY <1>14, <1>15, <1>16, <1>17
<1> QED BY <1>7, <1>17, <1>18 DEF Fifo!Read

\* Every step keeps the invariant; for who uses the queue, it is a write, a
\* read or nothing at all.
LEMMA PipeStep ==
  ASSUME PipeInv, [PipeNext]_pipeVars
  PROVE  PipeInv' /\ (Fifo!Write \/ Fifo!Read \/ UNCHANGED <<Stored, got>>)
<1>1. CASE UNCHANGED pipeVars
  BY <1>1 DEF pipeVars, PipeInv, PipeTypeOK, ReaderBehind, DataStays, SinkBehind, ReadCount, Stored
<1>2. CASE ReadPublish
  BY <1>2, ReadPublishStep
<1>3. CASE SinkCopy
  BY <1>3, SinkCopyStep
<1>4. CASE SinkPublish
  BY <1>4, SinkPublishStep
<1>5. CASE \/ ReadCall \/ ReadLock \/ ReadSnapshot \/ ReadPend \/ ReadCopy
           \/ WriteCall \/ SinkLock \/ SinkSnapshot \/ Retry \/ SinkPost
  BY <1>5, QuietPipeStep
<1> QED BY <1>1, <1>2, <1>3, <1>4, <1>5 DEF PipeNext, ReaderStep, SinkStep

\* The invariant of the pipe.
LEMMA PipeInvariant == PipeSpec => []PipeInv
<1>1. PipeInit => PipeInv
  BY PipeInitial
<1>2. PipeInv /\ [PipeNext]_pipeVars => PipeInv'
  BY PipeStep
<1> QED BY <1>1, <1>2, PTL DEF PipeSpec

-----------------------------------------------------------------------------
(* The theorems *)

\* The types; in particular both offsets stay inside the buffer.
THEOREM PipeTypeCorrect == PipeSpec => []PipeTypeOK
<1>1. PipeInv => PipeTypeOK
  BY DEF PipeInv
<1> QED BY <1>1, PipeInvariant, PTL

\* For any capacity and any overlap, the copies of hostbridge_pipe_read and of
\* hostbridge_pipe_sink never touch the same byte, although no lock keeps them
\* apart and each works with an offset of the other that may be old.
THEOREM CopiesDisjoint == PipeSpec => []DisjointCopies
<1>1. ASSUME PipeInv PROVE DisjointCopies
  <2> SUFFICES ASSUME reader.pc = "copy", sink.pc = "copy"
               PROVE  Cells(reader.r, ReadCount) \cap Cells(sink.w, SinkCount) = {}
    BY DEF DisjointCopies
  <2>1. /\ reader.r = read_offset /\ ReadCount \in 1..Avail(read_offset, write_offset)
        /\ Avail(read_offset, write_offset) \in Nat
        /\ read_offset \in Int
    BY <1>1, ReaderCounts, PipeTypes, FreeFacts
  <2>2. ASSUME NEW k \in 0..ReadCount-1 PROVE Wrap(read_offset + k) \notin Cells(sink.w, SinkCount)
    <3> DEFINE i == k + 1
    <3>1. i \in 1..Avail(read_offset, write_offset) /\ read_offset + i - 1 = read_offset + k
      BY <2>1
    <3> HIDE DEF i
    <3>2. Wrap(read_offset + i - 1) \notin Cells(sink.w, SinkCount)
      BY <1>1, <3>1, CopyApart
    <3> QED BY <3>1, <3>2
  <2>3. \A c \in Cells(reader.r, ReadCount) : c \notin Cells(sink.w, SinkCount)
    BY <2>1, <2>2 DEF Cells
  <2> QED BY <2>3
<1> QED BY <1>1, PipeInvariant, PTL

\* For any capacity, the pipe is a queue: every read returns the oldest bytes
\* that no read has returned, in their order, whatever the threads overlap.
THEOREM PipeImplementsQueue == PipeSpec => ImplementsQueue
<1>1. PipeInit => Stored = <<>> /\ got = <<>>
  BY PipeInitial
<1>2. PipeInv /\ [PipeNext]_pipeVars => [Fifo!Write \/ Fifo!Read]_<<Stored, got>>
  BY PipeStep
<1> QED BY <1>1, <1>2, PipeInvariant, PTL DEF PipeSpec, ImplementsQueue, Fifo!Spec

-----------------------------------------------------------------------------
(* The stream to the host *)

\* The host goes from h to g by the bytes of s.
Reads(h, s, g) ==
  \E H : H[0] = h /\ H[Len(s)] = g /\ \A i \in 1..Len(s) : H[i] = Decode(H[i - 1], s[i])

\* The two values of a flag.  The provers compare records whose fields are
\* named values, not truth values.
Yes == TRUE
No == FALSE

\* The host behind a whole byte of a message, or behind a prefix.
HostAt(c, prefix, escape, sop, eop, heard) ==
  [channel |-> c, prefix |-> prefix, escape |-> escape, sop |-> sop, eop |-> eop, heard |-> heard]
Heard(c, heard) == HostAt(c, No, No, No, No, heard)

\* An escaped byte is an ordinary one, and the escape can be undone.
LEMMA EscapeFacts ==
  ASSUME NEW x \in alt_u8
  PROVE  /\ EscapeXor(x) \in alt_u8
         /\ AST_NEEDS_ESCAPE(x) => ~AST_NEEDS_ESCAPE(EscapeXor(x)) /\ EscapeXor(EscapeXor(x)) = x
         /\ Escaped(x) \in Seq(alt_u8) /\ Len(Escaped(x)) \in 1..2
         /\ AST_NEEDS_ESCAPE(x) <=> x \in {AST_SOP, AST_EOP_PREFIX, AST_CHANNEL_PREFIX, AST_ESCAPE_PREFIX}
<1>1. /\ EscapeXor(x) \in alt_u8
      /\ AST_NEEDS_ESCAPE(x) => ~AST_NEEDS_ESCAPE(EscapeXor(x)) /\ EscapeXor(EscapeXor(x)) = x
  BY DEF alt_u8, EscapeXor, AST_NEEDS_ESCAPE, AST_SOP, AST_ESCAPE_PREFIX
<1>2. Escaped(x) \in Seq(alt_u8) /\ Len(Escaped(x)) \in 1..2
  <2> HIDE DEF EscapeXor
  <2>1. <<AST_ESCAPE_PREFIX, EscapeXor(x)>> \in Seq(alt_u8) /\ <<x>> \in Seq(alt_u8)
    BY <1>1 DEF alt_u8, AST_ESCAPE_PREFIX
  <2> QED BY <2>1 DEF Escaped
<1>3. AST_NEEDS_ESCAPE(x) <=> x \in {AST_SOP, AST_EOP_PREFIX, AST_CHANNEL_PREFIX, AST_ESCAPE_PREFIX}
  BY DEF alt_u8, AST_NEEDS_ESCAPE, AST_SOP, AST_EOP_PREFIX, AST_CHANNEL_PREFIX, AST_ESCAPE_PREFIX
<1> QED BY <1>1, <1>2, <1>3

\* What a byte does to the host.
LEMMA DecodeForms ==
  ASSUME NEW h
  PROVE  /\ Decode(h, AST_SOP) = [h EXCEPT !.sop = Yes]
         /\ Decode(h, AST_EOP_PREFIX) = [h EXCEPT !.eop = Yes]
         /\ Decode(h, AST_CHANNEL_PREFIX) = [h EXCEPT !.prefix = Yes]
         /\ Decode(h, AST_ESCAPE_PREFIX) = [h EXCEPT !.escape = Yes]
         /\ \A b \in alt_u8 : ~AST_NEEDS_ESCAPE(b) => Decode(h, b) = Deliver(h, b)
<1>1. AST_SOP = 122 /\ AST_EOP_PREFIX = 123 /\ AST_CHANNEL_PREFIX = 124 /\ AST_ESCAPE_PREFIX = 125
  BY DEF AST_SOP, AST_EOP_PREFIX, AST_CHANNEL_PREFIX, AST_ESCAPE_PREFIX
<1>2. /\ Decode(h, AST_SOP) = [h EXCEPT !.sop = TRUE]
      /\ Decode(h, AST_EOP_PREFIX) = [h EXCEPT !.eop = TRUE]
      /\ Decode(h, AST_CHANNEL_PREFIX) = [h EXCEPT !.prefix = TRUE]
      /\ Decode(h, AST_ESCAPE_PREFIX) = [h EXCEPT !.escape = TRUE]
  BY <1>1 DEF Decode
<1>3. \A b \in alt_u8 : ~AST_NEEDS_ESCAPE(b) => Decode(h, b) = Deliver(h, b)
  BY EscapeFacts DEF Decode
<1>4. Decode(h, AST_SOP) = [h EXCEPT !.sop = Yes]
  BY <1>2, Zenon DEF Yes
<1>5. Decode(h, AST_EOP_PREFIX) = [h EXCEPT !.eop = Yes]
  BY <1>2, Zenon DEF Yes
<1>6. Decode(h, AST_CHANNEL_PREFIX) = [h EXCEPT !.prefix = Yes]
  BY <1>2, Zenon DEF Yes
<1>7. Decode(h, AST_ESCAPE_PREFIX) = [h EXCEPT !.escape = Yes]
  BY <1>2, Zenon DEF Yes
<1> QED BY <1>3, <1>4, <1>5, <1>6, <1>7

\* A byte that is no prefix: a byte of the channel, or the number of a channel.
LEMMA DeliverForms ==
  ASSUME NEW c, NEW prefix, NEW escape, NEW sop, NEW eop, NEW heard, NEW b, NEW x,
         escape = Yes => x = EscapeXor(b), escape = No => x = b, escape \in {Yes, No}
  PROVE  LET h == HostAt(c, prefix, escape, sop, eop, heard)
         IN  /\ prefix = Yes => Deliver(h, b) = HostAt(x, No, No, sop, eop, heard)
             /\ prefix = No => Deliver(h, b) =
                  HostAt(c, prefix, No, No, No, Append(heard, [channel |-> c, byte |-> x, first |-> sop, last |-> eop]))
<1> DEFINE h == HostAt(c, prefix, escape, sop, eop, heard)
           item == [channel |-> c, byte |-> x, first |-> sop, last |-> eop]
           y == IF h.escape THEN EscapeXor(b) ELSE b
           it == [channel |-> h.channel, byte |-> y, first |-> h.sop, last |-> h.eop]
<1>0. Yes /\ ~No
  BY DEF Yes, No
<1>1. /\ h.prefix = prefix /\ h.escape = escape /\ h.sop = sop /\ h.eop = eop /\ h.channel = c
      /\ h.heard = heard
  BY DEF HostAt
<1>2. y = x
  <2> HIDE DEF h
  <2>1. CASE escape = Yes
    BY <1>0, <1>1, <2>1
  <2>2. CASE escape = No
    BY <1>0, <1>1, <2>2
  <2> QED BY <2>1, <2>2
<1>3. it = item
  <2> HIDE DEF h, y
  <2> QED BY <1>1, <1>2
<1>4. ASSUME prefix = Yes PROVE Deliver(h, b) = HostAt(x, No, No, sop, eop, heard)
  <2>1. Deliver(h, b) = [h EXCEPT !.channel = y, !.prefix = FALSE, !.escape = FALSE]
    <3> HIDE DEF h
    <3> QED BY <1>0, <1>1, <1>4 DEF Deliver
  <2>2. Deliver(h, b) = [h EXCEPT !.channel = x, !.prefix = No, !.escape = No]
    <3> HIDE DEF h, y
    <3> QED BY <1>2, <2>1, Zenon DEF No
  <2>3. [h EXCEPT !.channel = x, !.prefix = No, !.escape = No] = HostAt(x, No, No, sop, eop, heard)
    <3>1. [h EXCEPT !.channel = x, !.prefix = No, !.escape = No]
            = [[[h EXCEPT !.channel = x] EXCEPT !.prefix = No] EXCEPT !.escape = No]
      OBVIOUS
    <3>2. [h EXCEPT !.channel = x] = HostAt(x, prefix, escape, sop, eop, heard)
      BY DEF HostAt
    <3>3. [HostAt(x, prefix, escape, sop, eop, heard) EXCEPT !.prefix = No] = HostAt(x, No, escape, sop, eop, heard)
      BY DEF HostAt
    <3>4. [HostAt(x, No, escape, sop, eop, heard) EXCEPT !.escape = No] = HostAt(x, No, No, sop, eop, heard)
      BY DEF HostAt
    <3> HIDE DEF h
    <3> QED BY <3>1, <3>2, <3>3, <3>4
  <2> HIDE DEF h
  <2> QED BY <2>2, <2>3
<1>5. ASSUME prefix = No PROVE Deliver(h, b) = HostAt(c, prefix, No, No, No, Append(heard, item))
  <2>1. Deliver(h, b) = [h EXCEPT !.heard = Append(h.heard, it), !.escape = FALSE, !.sop = FALSE, !.eop = FALSE]
    <3> HIDE DEF h
    <3> QED BY <1>0, <1>1, <1>5 DEF Deliver
  <2>2. Deliver(h, b) = [h EXCEPT !.heard = Append(heard, item), !.escape = No, !.sop = No, !.eop = No]
    <3>1. h.heard = heard
      BY <1>1
    <3> HIDE DEF h, y, it, item
    <3> QED BY <1>3, <2>1, <3>1, Zenon DEF No
  <2> DEFINE more == Append(heard, item)
  <2> HIDE DEF more
  <2>3. [h EXCEPT !.heard = more, !.escape = No, !.sop = No, !.eop = No] = HostAt(c, prefix, No, No, No, more)
    <3>1. [h EXCEPT !.heard = more, !.escape = No, !.sop = No, !.eop = No]
            = [[[[h EXCEPT !.heard = more] EXCEPT !.escape = No] EXCEPT !.sop = No] EXCEPT !.eop = No]
      OBVIOUS
    <3>2. [h EXCEPT !.heard = more] = HostAt(c, prefix, escape, sop, eop, more)
      BY DEF HostAt
    <3>3. [HostAt(c, prefix, escape, sop, eop, more) EXCEPT !.escape = No] = HostAt(c, prefix, No, sop, eop, more)
      BY DEF HostAt
    <3>4. [HostAt(c, prefix, No, sop, eop, more) EXCEPT !.sop = No] = HostAt(c, prefix, No, No, eop, more)
      BY DEF HostAt
    <3>5. [HostAt(c, prefix, No, No, eop, more) EXCEPT !.eop = No] = HostAt(c, prefix, No, No, No, more)
      BY DEF HostAt
    <3> HIDE DEF h
    <3> QED BY <3>1, <3>2, <3>3, <3>4, <3>5
  <2> HIDE DEF h
  <2> QED BY <2>2, <2>3 DEF more
<1> QED BY <1>4, <1>5

\* A byte of the channel that was not escaped.
LEMMA DeliverByte ==
  ASSUME NEW c, NEW sop, NEW eop, NEW heard, NEW x
  PROVE  Deliver(HostAt(c, No, No, sop, eop, heard), x)
           = HostAt(c, No, No, No, No, Append(heard, [channel |-> c, byte |-> x, first |-> sop, last |-> eop]))
<1>1. Yes # No
  BY DEF Yes, No
<1> QED BY <1>1, DeliverForms

\* The number of a channel, behind its prefix.
LEMMA DeliverChannel ==
  ASSUME NEW c, NEW sop, NEW eop, NEW heard, NEW x
  PROVE  Deliver(HostAt(c, Yes, No, sop, eop, heard), x) = HostAt(x, No, No, sop, eop, heard)
<1>1. Yes # No
  BY DEF Yes, No
<1> DEFINE item == [channel |-> c, byte |-> x, first |-> sop, last |-> eop]
<1>2. ASSUME NEW p
      PROVE  /\ p = Yes => Deliver(HostAt(c, p, No, sop, eop, heard), x) = HostAt(x, No, No, sop, eop, heard)
             /\ p = No => Deliver(HostAt(c, p, No, sop, eop, heard), x) = HostAt(c, p, No, No, No, Append(heard, item))
  BY <1>1, DeliverForms
<1> QED BY <1>2

\* No bytes, no change.
LEMMA ReadsNothing ==
  ASSUME NEW h, NEW g
  PROVE  Reads(h, <<>>, g) <=> h = g
<1>1. h = g => Reads(h, <<>>, g)
  <2> SUFFICES ASSUME h = g PROVE Reads(h, <<>>, g)
    OBVIOUS
  <2> DEFINE H == [i \in 0..0 |-> h]
  <2>1. H[0] = h /\ H[Len(<<>>)] = g /\ \A i \in 1..Len(<<>>) : H[i] = Decode(H[i - 1], <<>>[i])
    OBVIOUS
  <2> QED BY <2>1 DEF Reads
<1>2. Reads(h, <<>>, g) => h = g
  BY DEF Reads
<1> QED BY <1>1, <1>2

\* The host takes the first byte.
LEMMA ReadsFirst ==
  ASSUME NEW h, NEW g, NEW s \in Seq(alt_u8), s # <<>>, Reads(h, s, g)
  PROVE  Reads(Decode(h, Head(s)), Tail(s), g)
<1>1. PICK H : H[0] = h /\ H[Len(s)] = g /\ \A i \in 1..Len(s) : H[i] = Decode(H[i - 1], s[i])
  BY DEF Reads
<1>2. /\ Len(s) \in Nat \ {0} /\ Len(Tail(s)) = Len(s) - 1 /\ Head(s) = s[1]
      /\ \A i \in 1..Len(s)-1 : Tail(s)[i] = s[i + 1]
  BY HeadTailProperties, EmptySeq
<1> DEFINE G == [i \in 0..Len(s)-1 |-> H[i + 1]]
<1>3. G[0] = Decode(h, Head(s))
  <2>1. G[0] = H[1] /\ 1 \in 1..Len(s) /\ 1 - 1 = 0
    BY <1>2
  <2> HIDE DEF G
  <2> QED BY <1>1, <1>2, <2>1
<1>4. G[Len(Tail(s))] = g
  BY <1>1, <1>2
<1>5. \A i \in 1..Len(Tail(s)) : G[i] = Decode(G[i - 1], Tail(s)[i])
  <2> SUFFICES ASSUME NEW i \in 1..Len(s)-1 PROVE G[i] = Decode(G[i - 1], Tail(s)[i])
    BY <1>2
  <2>1. G[i] = H[i + 1] /\ G[i - 1] = H[i] /\ i + 1 \in 1..Len(s) /\ (i + 1) - 1 = i
    BY <1>2
  <2> HIDE DEF G
  <2>2. H[i + 1] = Decode(H[(i + 1) - 1], s[i + 1])
    BY <1>1, <2>1
  <2> QED BY <1>2, <2>1, <2>2
<1> HIDE DEF G
<1> QED BY <1>3, <1>4, <1>5 DEF Reads

\* One byte more.
LEMMA ReadsNext ==
  ASSUME NEW h, NEW g, NEW s \in Seq(alt_u8), NEW b \in alt_u8, Reads(h, s, g)
  PROVE  Reads(h, s \o <<b>>, Decode(g, b))
<1>1. PICK H : H[0] = h /\ H[Len(s)] = g /\ \A i \in 1..Len(s) : H[i] = Decode(H[i - 1], s[i])
  BY DEF Reads
<1> DEFINE t == s \o <<b>>
<1>2. /\ Len(s) \in Nat /\ Len(t) = Len(s) + 1 /\ t[Len(s) + 1] = b
      /\ \A i \in 1..Len(s) : t[i] = s[i]
  BY AppendProperties, AppendIsConcat, LenProperties
<1> HIDE DEF t
<1> DEFINE G == [i \in 0..Len(s)+1 |-> IF i <= Len(s) THEN H[i] ELSE Decode(g, b)]
<1>3. G[0] = h /\ G[Len(t)] = Decode(g, b)
  BY <1>1, <1>2
<1>4. ASSUME NEW i \in 1..Len(t) PROVE G[i] = Decode(G[i - 1], t[i])
  <2>1. CASE i <= Len(s)
    <3>1. G[i] = H[i] /\ G[i - 1] = H[i - 1] /\ i \in 1..Len(s)
      BY <1>2, <2>1
    <3> QED BY <1>1, <1>2, <3>1
  <2>2. CASE i = Len(s) + 1
    <3>1. G[i] = Decode(g, b) /\ G[i - 1] = H[Len(s)] /\ t[i] = b
      BY <1>2, <2>2
    <3> QED BY <1>1, <3>1
  <2> QED BY <1>2, <2>1, <2>2
<1> HIDE DEF G
<1>5. Reads(h, t, Decode(g, b))
  BY <1>3, <1>4 DEF Reads
<1> QED BY <1>5 DEF t

\* A byte that may need an escape.
LEMMA ReadsEscaped ==
  ASSUME NEW h, NEW s \in Seq(alt_u8), NEW x \in alt_u8,
         NEW c, NEW prefix \in {Yes, No}, NEW sop, NEW eop, NEW heard,
         Reads(h, s, HostAt(c, prefix, No, sop, eop, heard))
  PROVE  Reads(h, s \o Escaped(x), Deliver(HostAt(c, prefix, No, sop, eop, heard), x))
<1> DEFINE g == HostAt(c, prefix, No, sop, eop, heard)
           y == EscapeXor(x)
           e == HostAt(c, prefix, Yes, sop, eop, heard)
<1>1. CASE ~AST_NEEDS_ESCAPE(x)
  <2>1. Decode(g, x) = Deliver(g, x)
    BY <1>1, DecodeForms
  <2>2. Escaped(x) = <<x>>
    BY <1>1 DEF Escaped
  <2> QED BY <2>1, <2>2, ReadsNext
<1>2. CASE AST_NEEDS_ESCAPE(x)
  <2>1. y \in alt_u8 /\ ~AST_NEEDS_ESCAPE(y) /\ EscapeXor(y) = x /\ AST_ESCAPE_PREFIX \in alt_u8
    <3>1. AST_ESCAPE_PREFIX \in alt_u8
      BY DEF alt_u8, AST_ESCAPE_PREFIX
    <3> QED BY <1>2, <3>1, EscapeFacts
  <2>2. Decode(g, AST_ESCAPE_PREFIX) = e
    <3>1. [g EXCEPT !.escape = Yes] = e
      BY DEF HostAt
    <3> HIDE DEF g, e
    <3> QED BY <3>1, DecodeForms
  <2>3. Decode(e, y) = Deliver(e, y)
    BY <2>1, DecodeForms
  <2>4. Deliver(e, y) = Deliver(g, x)
    <3>1. Yes # No
      BY DEF Yes, No
    <3> HIDE DEF y
    <3> DEFINE item == [channel |-> c, byte |-> x, first |-> sop, last |-> eop]
    <3>2. /\ prefix = Yes => Deliver(e, y) = HostAt(x, No, No, sop, eop, heard)
          /\ prefix = No => Deliver(e, y) = HostAt(c, prefix, No, No, No, Append(heard, item))
      BY <2>1, <3>1, DeliverForms
    <3>3. /\ prefix = Yes => Deliver(g, x) = HostAt(x, No, No, sop, eop, heard)
          /\ prefix = No => Deliver(g, x) = HostAt(c, prefix, No, No, No, Append(heard, item))
      BY <3>1, DeliverForms
    <3> HIDE DEF e, g, item
    <3> QED BY <3>2, <3>3
  <2> HIDE DEF e, g, y
  <2>5. Reads(h, s \o <<AST_ESCAPE_PREFIX>>, e)
    BY <2>1, <2>2, ReadsNext DEF g
  <2>6. s \o <<AST_ESCAPE_PREFIX>> \in Seq(alt_u8)
    BY <2>1, AppendProperties, AppendIsConcat
  <2>7. Reads(h, (s \o <<AST_ESCAPE_PREFIX>>) \o <<y>>, Deliver(g, x))
    <3> DEFINE s1 == s \o <<AST_ESCAPE_PREFIX>>
    <3> HIDE DEF s1
    <3>1. Reads(h, s1 \o <<y>>, Decode(e, y))
      BY <2>1, <2>5, <2>6, ReadsNext DEF s1
    <3> QED BY <2>3, <2>4, <3>1 DEF s1
  <2>8. (s \o <<AST_ESCAPE_PREFIX>>) \o <<y>> = s \o Escaped(x)
    <3>1. Escaped(x) = <<AST_ESCAPE_PREFIX>> \o <<y>>
      BY <1>2 DEF Escaped, y
    <3>2. <<AST_ESCAPE_PREFIX>> \in Seq(alt_u8) /\ <<y>> \in Seq(alt_u8)
      BY <2>1
    <3> QED BY <3>1, <3>2, ConcatAssociative, SMTT(30)
  <2> QED BY <2>7, <2>8 DEF g
<1> QED BY <1>1, <1>2

-----------------------------------------------------------------------------
(* The invariant of the source *)

IsMessage(m) ==
  /\ m.channel \in alt_u8 /\ m.packetize \in BOOLEAN /\ m.reset \in BOOLEAN
  /\ m.data \in Seq(alt_u8)

\* What may be in a call: a message of some thread, or an answer.
Answers == [channel : alt_u8, packetize : BOOLEAN, reset : BOOLEAN, data : Seq(alt_u8)]
Messages == UNION {Message[t] : t \in Thread}
AnyMessage == {NULL} \cup Messages \cup Answers
Calls ==
  [pc : {"idle", "pend", "channel", "frame", "write"}, message : AnyMessage,
   left : Seq(alt_u8), begun : BOOLEAN, out : Seq(alt_u8)]

\* The types of the lock, of the selected channel and of the calls.
SourceTypeOK ==
  /\ lock \in {0, 1}
  /\ source_channel_number \in alt_u8 \cup {-1}
  /\ call \in [Thread -> Calls]
  /\ \A t \in Thread : call[t].pc # "idle" => IsMessage(call[t].message)

Inside(t) == call[t].pc \in {"channel", "frame", "write"}

\* One thread at a time is inside, and none while the lock is free.
OneInside ==
  /\ lock = 1 => \A t \in Thread : ~Inside(t)
  /\ \A t, u \in Thread : Inside(t) /\ Inside(u) => t = u

\* While nobody is inside, the host waits for a byte of the selected channel
\* or for a prefix.
HostWaits == lock = 1 => \E s : host = Heard(source_channel_number, s)

\* A call that has not put anything into the buffer, and its host.
Fresh ==
  \A t \in Thread :
    /\ call[t].pc \in {"idle", "pend", "channel"} => call[t].out = <<>>
    /\ call[t].pc \in {"pend", "channel"} => call[t].left = call[t].message.data /\ ~call[t].begun
    /\ call[t].pc = "channel" => host = Heard(source_channel_number, <<>>)

\* k bytes of the message are encoded; when the host has read what is in the
\* buffer, it will have heard these.
Sending(t, k) ==
  LET m == call[t].message
  IN  /\ k \in 0..Len(m.data) /\ call[t].left = SubSeq(m.data, k + 1, Len(m.data))
      /\ call[t].begun <=> k > 0
      /\ source_channel_number = m.channel
      /\ Reads(host, call[t].out, Heard(m.channel, SubSeq(Meant(m), 1, k)))

\* The buffer is neither empty nor too full when it is written, and empty when
\* the message is done.
BufferOK ==
  \A t \in Thread :
    /\ At(t, "frame") => /\ Len(call[t].out) < WRITE_BUFFER_LEN
                         /\ call[t].left = <<>> => call[t].out = <<>>
                         /\ ~call[t].begun => call[t].out = <<>>
    /\ At(t, "write") => call[t].out # <<>> /\ Len(call[t].out) <= WRITE_BUFFER_LEN + 2

\* Whoever is encoding or writing has encoded the first bytes of its message.
Halfway ==
  \A t \in Thread : call[t].pc \in {"frame", "write"} =>
    \E k \in 0..Len(call[t].message.data) : Sending(t, k)

SourceInv == SourceTypeOK /\ OneInside /\ HostWaits /\ Fresh /\ BufferOK /\ Halfway

\* What is meant grows with the bytes of the message.
LEMMA MeantNext ==
  ASSUME NEW m, IsMessage(m), NEW k \in 0..Len(m.data)-1
  PROVE  SubSeq(Meant(m), 1, k + 1) = Append(SubSeq(Meant(m), 1, k), Meant(m)[k + 1])
<1> DEFINE M == Meant(m)
           S == {M[i] : i \in 1..Len(m.data)}
<1>1. Len(m.data) \in Nat
  BY LenProperties DEF IsMessage
<1>2. M \in [1..Len(m.data) -> S]
  BY DEF Meant
<1> HIDE DEF M, S
<1>3. M \in Seq(S) /\ Len(M) = Len(m.data)
  BY <1>1, <1>2, SeqDef
<1>4. k + 1 \in 1..Len(M) /\ 1 \in 1..Len(M) /\ (k + 1) - 1 = k /\ k + 1 \in 1..k + 1
  BY <1>1, <1>3
<1>5. SubSeq(M, 1, k + 1) = SubSeq(M, 1, k) \o <<M[k + 1]>>
  BY <1>3, <1>4, SubSeqRecursiveSecond
<1>6. SubSeq(M, 1, k) \in Seq(S) /\ M[k + 1] \in S
  <2>1. \A i \in 1..k : M[i] \in S
    BY <1>1, <1>3, ElementOfSeq
  <2> QED BY <1>3, <1>4, <2>1, ElementOfSeq, SubSeqProperties
<1> QED BY <1>5, <1>6, AppendIsConcat DEF M

\* A byte of the message, with what belongs before it.
LEMMA ReadsEncoded ==
  ASSUME SourceTypeOK, NEW t \in Thread, At(t, "frame"), call[t].left # <<>>,
         NEW k \in 0..Len(call[t].message.data), Sending(t, k)
  PROVE  LET m == call[t].message IN
         /\ k < Len(m.data) /\ Len(call[t].left) = Len(m.data) - k
         /\ Tail(call[t].left) = SubSeq(m.data, k + 2, Len(m.data))
         /\ Encoded(t) \in Seq(alt_u8) /\ Encoded(t) # <<>>
         /\ Len(Encoded(t)) <= IF call[t].begun THEN 3 ELSE 4
         /\ call[t].out \o Encoded(t) \in Seq(alt_u8)
         /\ Len(call[t].out \o Encoded(t)) = Len(call[t].out) + Len(Encoded(t))
         /\ Reads(host, call[t].out \o Encoded(t), Heard(m.channel, SubSeq(Meant(m), 1, k + 1)))
<1> DEFINE m == call[t].message
           n == Len(m.data)
           x == Head(call[t].left)
           out == call[t].out
           s == SubSeq(Meant(m), 1, k)
<1>1. IsMessage(m) /\ m.data \in Seq(alt_u8) /\ out \in Seq(alt_u8) /\ n \in Nat
  BY LenProperties DEF SourceTypeOK, Calls, At, IsMessage
<1>2. k < n /\ Len(call[t].left) = n - k /\ x = m.data[k + 1] /\ x \in alt_u8
      /\ Tail(call[t].left) = SubSeq(m.data, k + 2, n)
  <2>1. call[t].left = SubSeq(m.data, k + 1, n)
    BY DEF Sending
  <2>2. k < n
    BY <1>1, <2>1, SubSeqEmpty
  <2>3. k + 1 \in 1..n /\ n \in k + 1..n /\ (k + 1) + 1 = k + 2
    BY <1>1, <2>2
  <2>4. Head(SubSeq(m.data, k + 1, n)) = m.data[k + 1] /\ Tail(SubSeq(m.data, k + 1, n)) = SubSeq(m.data, k + 2, n)
    <3> HIDE DEF n, m
    <3>1. Head(SubSeq(m.data, k + 1, n)) = m.data[k + 1] /\ Tail(SubSeq(m.data, k + 1, n)) = SubSeq(m.data, (k + 1) + 1, n)
      BY <1>1, <2>3, HeadTailOfSubSeq DEF n
    <3> QED BY <2>3, <3>1
  <2>5. Len(SubSeq(m.data, k + 1, n)) = n - k
    <3>1. \A i \in k + 1..n : m.data[i] \in alt_u8
      BY <1>1, ElementOfSeq
    <3> HIDE DEF n, m
    <3>2. Len(SubSeq(m.data, k + 1, n)) = IF k + 1 <= n THEN n - (k + 1) + 1 ELSE 0
      BY <1>1, <3>1, SubSeqProperties
    <3> QED BY <1>1, <2>2, <3>2
  <2> QED BY <1>1, <2>1, <2>2, <2>3, <2>4, <2>5, ElementOfSeq
<1>3. /\ call[t].begun <=> k > 0
      /\ call[t].begun \in BOOLEAN /\ m.packetize \in BOOLEAN
      /\ Reads(host, out, Heard(m.channel, s))
  BY <1>1 DEF Sending, IsMessage, SourceTypeOK, Calls
<1>4. Meant(m)[k + 1] = [channel |-> m.channel, byte |-> x,
                         first |-> m.packetize /\ k + 1 = 1, last |-> m.packetize /\ k + 1 = n]
  <2>1. k + 1 \in 1..Len(m.data)
    BY <1>1, <1>2
  <2>2. Meant(m)[k + 1] = [channel |-> m.channel, byte |-> m.data[k + 1],
                           first |-> m.packetize /\ k + 1 = 1, last |-> m.packetize /\ k + 1 = Len(m.data)]
    <3> HIDE DEF m
    <3> QED BY ONLY <2>1 DEF Meant
  <2> QED BY <1>2, <2>2
<1> DEFINE first == m.packetize /\ k + 1 = 1
           last == m.packetize /\ k + 1 = n
<1>5. Begin(t) = (IF first THEN <<AST_SOP>> ELSE <<>>) /\ End(t) = (IF last THEN <<AST_EOP_PREFIX>> ELSE <<>>)
  BY <1>1, <1>2, <1>3 DEF Begin, End
<1>6. /\ Begin(t) \in Seq(alt_u8) /\ Len(Begin(t)) = IF first THEN 1 ELSE 0
      /\ End(t) \in Seq(alt_u8) /\ Len(End(t)) = IF last THEN 1 ELSE 0
      /\ AST_SOP \in alt_u8 /\ AST_EOP_PREFIX \in alt_u8
  <2>1. AST_SOP \in alt_u8 /\ AST_EOP_PREFIX \in alt_u8
    BY DEF AST_SOP, AST_EOP_PREFIX, alt_u8
  <2> HIDE DEF first, last
  <2> QED BY <1>5, <2>1
<1>7. Escaped(x) \in Seq(alt_u8) /\ Len(Escaped(x)) \in 1..2
  BY <1>2, EscapeFacts
<1> HIDE DEF first, last, x, s
<1>8. Reads(host, out \o Begin(t), HostAt(m.channel, No, No, first, No, s))
  <2>1. CASE first
    <3>1. Decode(Heard(m.channel, s), AST_SOP) = HostAt(m.channel, No, No, first, No, s)
      <4>1. Decode(Heard(m.channel, s), AST_SOP) = [Heard(m.channel, s) EXCEPT !.sop = Yes]
        BY DecodeForms
      <4>2. [Heard(m.channel, s) EXCEPT !.sop = Yes] = HostAt(m.channel, No, No, Yes, No, s)
        BY DEF Heard, HostAt
      <4>3. first = Yes
        BY <2>1 DEF first, Yes
      <4> QED BY <4>1, <4>2, <4>3
    <3>2. Reads(host, out \o <<AST_SOP>>, Decode(Heard(m.channel, s), AST_SOP))
      BY <1>1, <1>3, <1>6, ReadsNext
    <3> QED BY <1>5, <2>1, <3>1, <3>2
  <2>2. CASE ~first
    <3>1. first = No
      BY <2>2 DEF first, No
    <3> QED BY <1>1, <1>3, <1>5, <2>2, <3>1, ConcatEmptySeq DEF Heard
  <2> QED BY <2>1, <2>2
<1>9. out \o Begin(t) \in Seq(alt_u8) /\ Len(out \o Begin(t)) = Len(out) + Len(Begin(t))
  BY <1>1, <1>6, ConcatProperties
<1>10. Reads(host, (out \o Begin(t)) \o End(t), HostAt(m.channel, No, No, first, last, s))
  <2>1. CASE last
    <3> DEFINE o == out \o Begin(t)
               g == HostAt(m.channel, No, No, first, No, s)
    <3>1. Decode(g, AST_EOP_PREFIX) = HostAt(m.channel, No, No, first, last, s)
      <4>1. [g EXCEPT !.eop = Yes] = HostAt(m.channel, No, No, first, Yes, s)
        BY DEF HostAt
      <4>2. last = Yes
        BY <2>1 DEF last, Yes
      <4> HIDE DEF g
      <4> QED BY <4>1, <4>2, DecodeForms
    <3> HIDE DEF o, g
    <3>2. Reads(host, o \o <<AST_EOP_PREFIX>>, Decode(g, AST_EOP_PREFIX))
      BY <1>6, <1>8, <1>9, ReadsNext DEF o, g
    <3> QED BY <1>5, <2>1, <3>1, <3>2 DEF o
  <2>2. CASE ~last
    <3>1. last = No
      BY <2>2 DEF last, No
    <3> QED BY <1>5, <1>8, <1>9, <2>2, <3>1, ConcatEmptySeq
  <2> QED BY <2>1, <2>2
<1>11. (out \o Begin(t)) \o End(t) \in Seq(alt_u8)
       /\ Len((out \o Begin(t)) \o End(t)) = Len(out) + Len(Begin(t)) + Len(End(t))
  <2> DEFINE o == out \o Begin(t)
  <2> HIDE DEF o
  <2>1. o \o End(t) \in Seq(alt_u8) /\ Len(o \o End(t)) = Len(o) + Len(End(t))
    BY <1>6, <1>9, ConcatProperties DEF o
  <2> QED BY <1>9, <2>1 DEF o
<1>12. Reads(host, ((out \o Begin(t)) \o End(t)) \o Escaped(x),
             Deliver(HostAt(m.channel, No, No, first, last, s), x))
  <2> DEFINE o == (out \o Begin(t)) \o End(t)
  <2> HIDE DEF o
  <2> QED BY <1>2, <1>10, <1>11, ReadsEscaped DEF o, x
<1>13. Deliver(HostAt(m.channel, No, No, first, last, s), x) = Heard(m.channel, SubSeq(Meant(m), 1, k + 1))
  <2>1. SubSeq(Meant(m), 1, k + 1) = Append(s, Meant(m)[k + 1])
    <3>1. IsMessage(m) /\ k \in 0..Len(m.data)-1
      BY <1>1, <1>2
    <3> QED BY <3>1, MeantNext DEF s
  <2>2. Meant(m)[k + 1] = [channel |-> m.channel, byte |-> x, first |-> first, last |-> last]
    BY <1>4 DEF first, last, x
  <2>4. Deliver(HostAt(m.channel, No, No, first, last, s), x)
          = HostAt(m.channel, No, No, No, No, Append(s, [channel |-> m.channel, byte |-> x, first |-> first, last |-> last]))
    BY DeliverByte
  <2> QED BY <2>1, <2>2, <2>4 DEF Heard
<1>14. ((out \o Begin(t)) \o End(t)) \o Escaped(x) = out \o Encoded(t)
  <2> DEFINE b == Begin(t)
             e == End(t)
             y == Escaped(x)
  <2>1. b \in Seq(alt_u8) /\ e \in Seq(alt_u8) /\ y \in Seq(alt_u8) /\ b \o e \in Seq(alt_u8)
    BY <1>6, <1>7, ConcatProperties
  <2>2. Encoded(t) = (b \o e) \o y
    BY DEF Encoded, x
  <2> HIDE DEF b, e, y, out
  <2>3. (out \o b) \o e = out \o (b \o e)
    <3>1. out \in Seq(alt_u8) /\ b \in Seq(alt_u8) /\ e \in Seq(alt_u8)
      BY <1>1, <2>1 DEF out
    <3> QED BY ONLY <3>1, ConcatAssociative, SMTT(30)
  <2>4. (out \o (b \o e)) \o y = out \o ((b \o e) \o y)
    <3> DEFINE be == b \o e
    <3>1. out \in Seq(alt_u8) /\ be \in Seq(alt_u8) /\ y \in Seq(alt_u8)
      BY <1>1, <2>1 DEF out
    <3> HIDE DEF be
    <3>2. (out \o be) \o y = out \o (be \o y)
      BY ONLY <3>1, ConcatAssociative, SMTT(30)
    <3> QED BY <3>2 DEF be
  <2> QED BY <2>2, <2>3, <2>4 DEF b, e, y, out
<1>15. Encoded(t) \in Seq(alt_u8) /\ Len(Encoded(t)) = Len(Begin(t)) + Len(End(t)) + Len(Escaped(x))
  <2> DEFINE b == Begin(t)
             e == End(t)
             y == Escaped(x)
  <2>1. b \in Seq(alt_u8) /\ e \in Seq(alt_u8) /\ y \in Seq(alt_u8)
    BY <1>6, <1>7
  <2>2. Encoded(t) = (b \o e) \o y
    BY DEF Encoded, x
  <2> HIDE DEF b, e, y
  <2>3. b \o e \in Seq(alt_u8) /\ Len(b \o e) = Len(b) + Len(e)
    BY <2>1, ConcatProperties
  <2>4. (b \o e) \o y \in Seq(alt_u8) /\ Len((b \o e) \o y) = Len(b \o e) + Len(y)
    BY <2>1, <2>3, ConcatProperties
  <2> QED BY <2>2, <2>3, <2>4 DEF b, e, y
<1>16. Len(Encoded(t)) \in 1..(IF call[t].begun THEN 3 ELSE 4)
  <2>1. call[t].begun => ~first
    BY <1>3 DEF first
  <2>2. call[t].begun => Len(Begin(t)) = 0
    BY <1>6, <2>1
  <2>3. Len(Begin(t)) \in 0..1 /\ Len(End(t)) \in 0..1
    BY <1>6
  <2> DEFINE a == Len(Begin(t))
             b == Len(End(t))
             c == Len(Escaped(x))
             d == Len(Encoded(t))
  <2>4. a \in 0..1 /\ b \in 0..1 /\ c \in 1..2 /\ d = a + b + c /\ (call[t].begun => a = 0)
    BY <1>7, <1>15, <2>2, <2>3
  <2> HIDE DEF a, b, c, d
  <2>5. d \in 1..(IF call[t].begun THEN 3 ELSE 4)
    BY <2>4
  <2> QED BY <2>5 DEF d
<1>17. out \o Encoded(t) \in Seq(alt_u8) /\ Len(out \o Encoded(t)) = Len(out) + Len(Encoded(t))
  BY <1>1, <1>15, ConcatProperties
<1>18. Encoded(t) # <<>>
  BY <1>16, EmptySeq
<1>19. Reads(host, out \o Encoded(t), Heard(m.channel, SubSeq(Meant(m), 1, k + 1)))
  BY <1>12, <1>13, <1>14
<1>20. Len(Encoded(t)) <= IF call[t].begun THEN 3 ELSE 4
  BY <1>3, <1>16
<1> HIDE DEF n, out
<1> QED BY <1>2, <1>15, <1>17, <1>18, <1>19, <1>20 DEF n, out

-----------------------------------------------------------------------------
(* The steps of the source *)

\* The rest of the state stays when only one call changes, outside.
LEMMA SourceCallInv ==
  ASSUME SourceInv, NEW t \in Thread, NEW m \in AnyMessage, IsMessage(m), SourceCall(t, m)
  PROVE  SourceInv'
<1>1. Pending(m) \in Calls /\ Pending(m).pc = "pend" /\ Pending(m).message = m
      /\ Pending(m).left = m.data /\ ~Pending(m).begun /\ Pending(m).out = <<>>
  <2>1. <<>> \in Seq(alt_u8)
    OBVIOUS
  <2> QED BY <2>1 DEF Pending, Calls, IsMessage
<1> DEFINE c == Pending(m)
<1> HIDE DEF c
<1>2. /\ call[t].pc = "idle" /\ call' = [call EXCEPT ![t] = c]
      /\ lock' = lock /\ source_channel_number' = source_channel_number /\ host' = host
      /\ call \in [Thread -> Calls]
  BY DEF SourceCall, At, c, SourceInv, SourceTypeOK
<1>3. /\ \A u \in Thread : call'[u] = IF u = t THEN c ELSE call[u]
      /\ call' \in [Thread -> Calls]
  BY <1>1, <1>2 DEF c
<1>4. \A u \in Thread : Inside(u)' <=> Inside(u)
  BY <1>1, <1>2, <1>3 DEF Inside, c
<1>5. SourceTypeOK'
  BY <1>1, <1>2, <1>3 DEF SourceInv, SourceTypeOK, c
<1>6. OneInside'
  BY <1>2, <1>4 DEF SourceInv, OneInside
<1>7. HostWaits'
  BY <1>2 DEF SourceInv, HostWaits
<1>8. Fresh'
  BY <1>1, <1>2, <1>3 DEF SourceInv, Fresh, c
<1>9. BufferOK'
  BY <1>1, <1>2, <1>3 DEF SourceInv, BufferOK, At, c
<1>10. Halfway'
  <2> SUFFICES ASSUME NEW u \in Thread, call'[u].pc \in {"frame", "write"}
               PROVE  \E k \in 0..Len(call'[u].message.data) : Sending(u, k)'
    BY DEF Halfway
  <2>1. call'[u] = call[u]
    BY <1>1, <1>3 DEF c
  <2>2. PICK k \in 0..Len(call[u].message.data) : Sending(u, k)
    BY <2>1 DEF SourceInv, Halfway
  <2>3. Sending(u, k)'
    BY <1>2, <2>1, <2>2 DEF Sending
  <2> QED BY <2>1, <2>3
<1> QED BY <1>5, <1>6, <1>7, <1>8, <1>9, <1>10 DEF SourceInv

\* The lock is taken: what the host has heard is forgotten.
LEMMA SourcePendInv ==
  ASSUME SourceInv, NEW t \in Thread, SourcePend(t)
  PROVE  SourceInv'
<1>1. /\ call[t].pc = "pend" /\ lock = 1 /\ lock' = 0
      /\ source_channel_number' = source_channel_number
      /\ host' = [host EXCEPT !.heard = <<>>]
      /\ call' = [call EXCEPT ![t].pc = "channel"] /\ call \in [Thread -> Calls]
  BY DEF SourcePend, At, SourceInv, SourceTypeOK
<1>2. /\ call' \in [Thread -> Calls]
      /\ \A u \in Thread : u # t => call'[u] = call[u]
      /\ call'[t].pc = "channel" /\ call'[t].message = call[t].message
      /\ call'[t].left = call[t].left /\ call'[t].out = call[t].out
      /\ call'[t].begun = call[t].begun
  BY <1>1 DEF Calls
<1>3. \A u \in Thread : ~Inside(u) /\ (Inside(u)' <=> u = t)
  BY <1>1, <1>2 DEF SourceInv, OneInside, Inside
<1>4. host' = Heard(source_channel_number, <<>>)
  <2>1. PICK s : host = Heard(source_channel_number, s)
    BY <1>1 DEF SourceInv, HostWaits
  <2>2. [Heard(source_channel_number, s) EXCEPT !.heard = <<>>] = Heard(source_channel_number, <<>>)
    BY DEF Heard, HostAt
  <2> QED BY <1>1, <2>1, <2>2
<1>5. SourceTypeOK'
  BY <1>1, <1>2 DEF SourceInv, SourceTypeOK
<1>6. OneInside'
  BY <1>1, <1>3 DEF OneInside
<1>7. HostWaits'
  BY <1>1 DEF HostWaits
<1>8. Fresh'
  <2> SUFFICES ASSUME NEW u \in Thread
               PROVE  /\ call'[u].pc \in {"idle", "pend", "channel"} => call'[u].out = <<>>
                      /\ call'[u].pc \in {"pend", "channel"} => call'[u].left = call'[u].message.data /\ ~call'[u].begun
                      /\ call'[u].pc = "channel" => host' = Heard(source_channel_number', <<>>)
    BY DEF Fresh
  <2>1. CASE u = t
    BY <1>1, <1>2, <1>4, <2>1 DEF SourceInv, Fresh
  <2>2. CASE u # t
    BY <1>1, <1>2, <1>3, <1>4, <2>2 DEF SourceInv, Fresh, Inside
  <2> QED BY <2>1, <2>2
<1>9. BufferOK' /\ Halfway'
  BY <1>2, <1>3 DEF BufferOK, Halfway, At, Inside
<1> QED BY <1>5, <1>6, <1>7, <1>8, <1>9 DEF SourceInv

\* The channel is selected, or is selected already.
LEMMA SourceChannelInv ==
  ASSUME SourceInv, NEW t \in Thread, SourceChannel(t)
  PROVE  SourceInv'
<1> DEFINE m == call[t].message
           select == m.channel # source_channel_number \/ m.reset
           e == Escaped(m.channel)
           w == <<AST_CHANNEL_PREFIX>> \o e
           out == IF select THEN w ELSE <<>>
<1>1. /\ call[t].pc = "channel" /\ source_channel_number' = m.channel
      /\ host' = host /\ lock' = lock
      /\ call' = [call EXCEPT ![t].pc = IF select THEN "write" ELSE "frame", ![t].out = out]
      /\ call \in [Thread -> Calls] /\ IsMessage(m)
  BY DEF SourceChannel, At, SourceInv, SourceTypeOK
<1>2. host = Heard(source_channel_number, <<>>) /\ m.channel \in alt_u8 /\ m.data \in Seq(alt_u8)
      /\ call[t].left = m.data /\ ~call[t].begun
  BY <1>1 DEF SourceInv, Fresh, IsMessage
<1>3. e \in Seq(alt_u8) /\ Len(e) \in 1..2
  BY <1>2, EscapeFacts
<1>4. AST_CHANNEL_PREFIX \in alt_u8 /\ <<AST_CHANNEL_PREFIX>> \in Seq(alt_u8) /\ <<>> \in Seq(alt_u8)
  BY DEF AST_CHANNEL_PREFIX, alt_u8
<1>5. <<AST_CHANNEL_PREFIX>> \o e \in Seq(alt_u8) /\ Len(<<AST_CHANNEL_PREFIX>> \o e) = 1 + Len(e)
  <2> HIDE DEF e
  <2> QED BY <1>3, <1>4, ConcatProperties
<1> HIDE DEF e, select
<1>6. /\ out \in Seq(alt_u8)
      /\ select => out # <<>> /\ Len(out) \in 2..3
      /\ ~select => out = <<>>
  <2>1. w \in Seq(alt_u8) /\ Len(w) \in 2..3
    <3> DEFINE a == Len(e)
               b == Len(w)
    <3>1. a \in 1..2 /\ b = 1 + a
      BY <1>3, <1>5
    <3> HIDE DEF a, b
    <3>2. b \in 2..3
      BY <3>1
    <3> QED BY <1>5, <3>2 DEF b
  <2> HIDE DEF w
  <2> QED BY <1>4, <2>1, EmptySeq
<1>7. select => Reads(host, out, Heard(m.channel, <<>>))
  <2> SUFFICES ASSUME select PROVE Reads(host, <<AST_CHANNEL_PREFIX>> \o e, Heard(m.channel, <<>>))
    OBVIOUS
  <2> DEFINE scn == source_channel_number
             g == HostAt(scn, Yes, No, No, No, <<>>)
  <2>1. Decode(Heard(scn, <<>>), AST_CHANNEL_PREFIX) = g
    <3>1. [Heard(scn, <<>>) EXCEPT !.prefix = Yes] = g
      BY DEF Heard, HostAt
    <3> HIDE DEF g
    <3> QED BY <3>1, DecodeForms
  <2> HIDE DEF g
  <2>2. Reads(host, <<>>, host)
    BY ReadsNothing
  <2>3. Reads(host, <<>> \o <<AST_CHANNEL_PREFIX>>, Decode(host, AST_CHANNEL_PREFIX))
    BY <1>4, <2>2, ReadsNext
  <2>4. Reads(host, <<AST_CHANNEL_PREFIX>>, g)
    BY <1>2, <1>4, <2>1, <2>3, ConcatEmptySeq
  <2>5. Reads(host, <<AST_CHANNEL_PREFIX>> \o e, Deliver(g, m.channel))
    BY <1>2, <1>4, <2>4, ReadsEscaped DEF g, e
  <2>6. Deliver(g, m.channel) = Heard(m.channel, <<>>)
    BY DeliverChannel DEF g, Heard
  <2> QED BY <2>5, <2>6
<1> HIDE DEF out
<1>8. /\ call' \in [Thread -> Calls]
      /\ \A u \in Thread : u # t => call'[u] = call[u]
      /\ call'[t].pc = (IF select THEN "write" ELSE "frame") /\ call'[t].message = m
      /\ call'[t].left = call[t].left /\ call'[t].out = out
      /\ call'[t].begun = call[t].begun
  BY <1>1, <1>6 DEF Calls
<1>9. \A u \in Thread : (Inside(u) <=> u = t) /\ (Inside(u)' <=> u = t)
  BY <1>1, <1>8 DEF SourceInv, OneInside, Inside
<1>10. lock # 1
  BY <1>9 DEF SourceInv, OneInside
<1>11. SourceTypeOK'
  BY <1>1, <1>2, <1>8 DEF SourceInv, SourceTypeOK
<1>12. OneInside' /\ HostWaits'
  BY <1>1, <1>9, <1>10 DEF OneInside, HostWaits
<1>13. Fresh'
  BY <1>1, <1>8, <1>9 DEF SourceInv, Fresh, Inside
<1>14. BufferOK'
  <2>1. WRITE_BUFFER_LEN \in Nat \ {0, 1}
    BY SourceAssumption
  <2> SUFFICES ASSUME NEW u \in Thread
               PROVE  /\ call'[u].pc = "frame" => /\ Len(call'[u].out) < WRITE_BUFFER_LEN
                                                  /\ call'[u].left = <<>> => call'[u].out = <<>>
                                                  /\ ~call'[u].begun => call'[u].out = <<>>
                      /\ call'[u].pc = "write" => call'[u].out # <<>> /\ Len(call'[u].out) <= WRITE_BUFFER_LEN + 2
    BY DEF BufferOK, At
  <2>2. CASE u # t
    BY <1>8, <1>9, <2>2 DEF Inside
  <2>3. CASE u = t
    <3>1. CASE select
      <4> DEFINE l == Len(out)
      <4>1. l \in 2..3 /\ out # <<>> /\ call'[t].pc = "write" /\ call'[t].out = out
        BY <1>6, <1>8, <3>1
      <4>2. l <= WRITE_BUFFER_LEN + 2
        <5> HIDE DEF l
        <5> QED BY <2>1, <4>1
      <4> QED BY <2>3, <4>1, <4>2
    <3>2. CASE ~select
      <4>1. out = <<>> /\ Len(<<>>) = 0 /\ call'[t].pc = "frame" /\ call'[t].out = <<>>
        BY <1>6, <1>8, <3>2
      <4> QED BY <2>1, <2>3, <4>1
    <3> QED BY <3>1, <3>2
  <2> QED BY <2>2, <2>3
<1>15. Halfway'
  <2>1. 0 \in 0..Len(m.data)
    BY <1>2, LenProperties
  <2>2. Sending(t, 0)'
    <3>1. SubSeq(m.data, 1, Len(m.data)) = m.data
      BY <1>2, SubSeqFull
    <3>2. SubSeq(Meant(m), 1, 0) = <<>>
      BY SubSeqEmpty
    <3>3. Reads(host, out, Heard(m.channel, <<>>))
      <4>1. CASE select
        BY <1>7, <4>1
      <4>2. CASE ~select
        <5>1. m.channel = source_channel_number
          BY <4>2 DEF select
        <5>2. host = Heard(m.channel, <<>>) /\ out = <<>>
          BY <1>2, <1>6, <4>2, <5>1
        <5> DEFINE g == Heard(m.channel, <<>>)
        <5>3. Reads(g, <<>>, g)
          BY ReadsNothing
        <5> HIDE DEF g
        <5> QED BY <5>2, <5>3 DEF g
      <4> QED BY <4>1, <4>2
    <3>4. 0 + 1 = 1 /\ ~(0 > 0)
      OBVIOUS
    <3> HIDE DEF m
    <3> QED BY <1>1, <1>2, <1>8, <2>1, <3>1, <3>2, <3>3, <3>4 DEF Sending
  <2> QED BY <1>8, <1>9, <2>1, <2>2 DEF Halfway, Inside
<1> QED BY <1>11, <1>12, <1>13, <1>14, <1>15 DEF SourceInv

\* A byte of the message goes to the buffer.
LEMMA SourceFrameInv ==
  ASSUME SourceInv, NEW t \in Thread, SourceFrame(t)
  PROVE  SourceInv'
<1> DEFINE m == call[t].message
           out == call[t].out \o Encoded(t)
           ready == BufferFull(out) \/ Len(call[t].left) = 1
<1>1. /\ call[t].pc = "frame" /\ call[t].left # <<>>
      /\ source_channel_number' = source_channel_number /\ host' = host /\ lock' = lock
      /\ call' = [call EXCEPT ![t].pc = IF ready THEN "write" ELSE "frame",
                    ![t].out = out, ![t].begun = TRUE, ![t].left = Tail(@)]
      /\ call \in [Thread -> Calls] /\ IsMessage(m) /\ m.data \in Seq(alt_u8)
      /\ call[t].left \in Seq(alt_u8) /\ call[t].out \in Seq(alt_u8)
  BY DEF SourceFrame, At, SourceInv, SourceTypeOK, IsMessage, Calls
<1>2. PICK k \in 0..Len(m.data) : Sending(t, k)
  BY <1>1 DEF SourceInv, Halfway
<1> DEFINE n == Len(m.data)
           d == Len(Encoded(t))
           l == Len(call[t].out)
<1>3. /\ k < n /\ Len(call[t].left) = n - k
      /\ Tail(call[t].left) = SubSeq(m.data, k + 2, n)
      /\ Encoded(t) # <<>> /\ Encoded(t) \in Seq(alt_u8)
      /\ d <= IF call[t].begun THEN 3 ELSE 4
      /\ out \in Seq(alt_u8) /\ Len(out) = l + d
      /\ Reads(host, out, Heard(m.channel, SubSeq(Meant(m), 1, k + 1)))
  BY <1>1, <1>2, ReadsEncoded DEF SourceInv, At
<1>4. n \in Nat /\ l \in Nat /\ d \in Nat \ {0} /\ k \in Nat
  BY <1>1, <1>3, LenProperties, EmptySeq
<1>5. WRITE_BUFFER_LEN \in Nat \ {0, 1} /\ (call[t].begun <=> k > 0) /\ source_channel_number = m.channel
  BY <1>2, SourceAssumption DEF Sending
<1>6. /\ l < WRITE_BUFFER_LEN /\ (~call[t].begun => l = 0)
  <2>1. ~call[t].begun => call[t].out = <<>>
    BY <1>1 DEF SourceInv, BufferOK, At
  <2>2. l < WRITE_BUFFER_LEN
    BY <1>1 DEF SourceInv, BufferOK, At
  <2>3. Len(<<>>) = 0
    OBVIOUS
  <2> QED BY <2>1, <2>2, <2>3
<1>7. /\ out # <<>> /\ Len(out) <= WRITE_BUFFER_LEN + 2
      /\ ~ready => Len(out) < WRITE_BUFFER_LEN
      /\ ~ready => k + 1 < n
  <2>1. Len(out) \in Nat \ {0}
    <3> HIDE DEF l, d, out
    <3> QED BY <1>3, <1>4
  <2>2. out # <<>>
    <3> HIDE DEF out
    <3> QED BY <1>3, <2>1, EmptySeq
  <2>3. Len(out) <= WRITE_BUFFER_LEN + 2
    <3> HIDE DEF l, d, out
    <3>1. CASE call[t].begun
      BY <1>3, <1>4, <1>5, <1>6, <3>1
    <3>2. CASE ~call[t].begun
      BY <1>3, <1>4, <1>5, <1>6, <3>2
    <3> QED BY <3>1, <3>2
  <2>4. ~ready => Len(out) < WRITE_BUFFER_LEN
    <3> HIDE DEF out
    <3> QED BY <1>5, <2>1 DEF BufferFull
  <2>5. ~ready => k + 1 < n
    <3> HIDE DEF n
    <3> QED BY <1>3, <1>4
  <2> QED BY <2>2, <2>3, <2>4, <2>5
<1>8. Tail(call[t].left) \in Seq(alt_u8) /\ (Tail(call[t].left) = <<>> => k + 1 = n)
  <2>1. Tail(call[t].left) \in Seq(alt_u8) /\ Len(Tail(call[t].left)) = Len(call[t].left) - 1
    BY <1>1, HeadTailProperties
  <2>2. Tail(call[t].left) = <<>> => Len(Tail(call[t].left)) = 0
    BY <2>1, EmptySeq
  <2> DEFINE a == Len(call[t].left)
             b == Len(Tail(call[t].left))
  <2>3. a = n - k /\ b = a - 1 /\ n \in Nat /\ k \in Nat
    BY <1>3, <1>4, <2>1
  <2> HIDE DEF n, a, b
  <2>4. b = 0 => k + 1 = n
    BY <2>3
  <2> QED BY <2>1, <2>2, <2>4 DEF b
<1> HIDE DEF out, ready
<1>9. /\ call' \in [Thread -> Calls]
      /\ \A u \in Thread : u # t => call'[u] = call[u]
      /\ call'[t].pc = (IF ready THEN "write" ELSE "frame") /\ call'[t].message = m
      /\ call'[t].left = Tail(call[t].left) /\ call'[t].out = out
      /\ call'[t].begun
  BY <1>1, <1>3, <1>8 DEF Calls
<1>10. \A u \in Thread : (Inside(u) <=> u = t) /\ (Inside(u)' <=> u = t)
  BY <1>1, <1>9 DEF SourceInv, OneInside, Inside
<1>11. lock # 1
  BY <1>10 DEF SourceInv, OneInside
<1>12. SourceTypeOK'
  BY <1>1, <1>9 DEF SourceInv, SourceTypeOK
<1>13. OneInside' /\ HostWaits'
  BY <1>1, <1>10, <1>11 DEF OneInside, HostWaits
<1>14. Fresh'
  BY <1>1, <1>9, <1>10 DEF SourceInv, Fresh, Inside
<1>15. BufferOK'
  <2> SUFFICES ASSUME NEW u \in Thread
               PROVE  /\ call'[u].pc = "frame" => /\ Len(call'[u].out) < WRITE_BUFFER_LEN
                                                  /\ call'[u].left = <<>> => call'[u].out = <<>>
                                                  /\ ~call'[u].begun => call'[u].out = <<>>
                      /\ call'[u].pc = "write" => call'[u].out # <<>> /\ Len(call'[u].out) <= WRITE_BUFFER_LEN + 2
    BY DEF BufferOK, At
  <2>1. CASE u # t
    BY <1>9, <1>10, <2>1 DEF Inside
  <2>2. CASE u = t
    <3>1. ~ready => Tail(call[t].left) # <<>>
      <4> DEFINE z == Tail(call[t].left)
      <4>1. z = <<>> => k + 1 = n
        BY <1>8
      <4> HIDE DEF z, n, m, d, l
      <4>2. n \in Nat /\ k \in Nat /\ (~ready => k + 1 < n)
        BY <1>4, <1>7
      <4>3. ~ready => z # <<>>
        BY <4>1, <4>2
      <4> QED BY <4>3 DEF z
    <3> HIDE DEF n
    <3> QED BY <1>7, <1>9, <2>2, <3>1
  <2> QED BY <2>1, <2>2
<1>16. Halfway'
  <2>1. k + 1 \in 0..n /\ (k + 1) + 1 = k + 2 /\ k + 1 > 0
    <3> HIDE DEF n
    <3> QED BY <1>3, <1>4
  <2>2. Sending(t, k + 1)'
    <3> HIDE DEF m
    <3> QED BY <1>1, <1>3, <1>5, <1>9, <2>1 DEF Sending, n
  <2> QED BY <1>9, <1>10, <2>1, <2>2 DEF Halfway, Inside
<1> QED BY <1>12, <1>13, <1>14, <1>15, <1>16 DEF SourceInv

\* The host gets a byte.
LEMMA WriteToHostInv ==
  ASSUME SourceInv, NEW t \in Thread, WriteToHost(t)
  PROVE  SourceInv'
<1> DEFINE m == call[t].message
           out == call[t].out
           one == Len(out) = 1
<1>1. /\ call[t].pc = "write" /\ lock' = lock
      /\ source_channel_number' = source_channel_number /\ host' = Decode(host, Head(out))
      /\ call' = [call EXCEPT ![t].pc = IF one THEN "frame" ELSE "write", ![t].out = Tail(@)]
      /\ call \in [Thread -> Calls] /\ out \in Seq(alt_u8) /\ IsMessage(m)
  BY DEF WriteToHost, At, SourceInv, SourceTypeOK, Calls
<1>2. out # <<>> /\ Len(out) <= WRITE_BUFFER_LEN + 2
  BY <1>1 DEF SourceInv, BufferOK, At
<1>3. PICK k \in 0..Len(m.data) : Sending(t, k)
  BY <1>1 DEF SourceInv, Halfway
<1>4. Reads(host', Tail(out), Heard(m.channel, SubSeq(Meant(m), 1, k)))
  <2>1. Reads(host, out, Heard(m.channel, SubSeq(Meant(m), 1, k)))
    BY <1>3 DEF Sending
  <2> DEFINE g == Heard(m.channel, SubSeq(Meant(m), 1, k))
  <2> HIDE DEF g, out
  <2> QED BY <1>1, <1>2, <2>1, ReadsFirst DEF g
<1>5. Tail(out) \in Seq(alt_u8) /\ Len(Tail(out)) = Len(out) - 1
  BY <1>1, <1>2, HeadTailProperties
<1>6. /\ one => Tail(out) = <<>>
      /\ ~one => Tail(out) # <<>> /\ Len(Tail(out)) <= WRITE_BUFFER_LEN + 2
  <2>1. Len(Tail(out)) \in Nat /\ Len(out) \in Nat
    BY <1>1, <1>5, LenProperties
  <2>2. Tail(out) = <<>> <=> Len(Tail(out)) = 0
    <3> DEFINE r == Tail(out)
    <3> HIDE DEF r
    <3> QED BY <1>5, EmptySeq DEF r
  <2> DEFINE a == Len(out)
             b == Len(Tail(out))
  <2>3. WRITE_BUFFER_LEN \in Nat /\ a \in Nat /\ b \in Nat /\ b = a - 1 /\ a <= WRITE_BUFFER_LEN + 2
    BY <1>2, <1>5, <2>1, SourceAssumption
  <2> HIDE DEF a, b
  <2>4. (a = 1 <=> b = 0) /\ b <= WRITE_BUFFER_LEN + 2
    BY <2>3
  <2> QED BY <2>2, <2>4 DEF a, b
<1> HIDE DEF one
<1>7. /\ call' \in [Thread -> Calls]
      /\ \A u \in Thread : u # t => call'[u] = call[u]
      /\ call'[t].pc = (IF one THEN "frame" ELSE "write") /\ call'[t].message = m
      /\ call'[t].left = call[t].left /\ call'[t].out = Tail(out)
      /\ call'[t].begun = call[t].begun
  BY <1>1, <1>5 DEF Calls
<1>8. \A u \in Thread : (Inside(u) <=> u = t) /\ (Inside(u)' <=> u = t)
  BY <1>1, <1>7 DEF SourceInv, OneInside, Inside
<1>9. lock # 1
  BY <1>8 DEF SourceInv, OneInside
<1>10. SourceTypeOK'
  BY <1>1, <1>7 DEF SourceInv, SourceTypeOK
<1>11. OneInside' /\ HostWaits'
  BY <1>1, <1>8, <1>9 DEF OneInside, HostWaits
<1>12. Fresh'
  BY <1>1, <1>7, <1>8 DEF SourceInv, Fresh, Inside
<1>13. BufferOK'
  <2> SUFFICES ASSUME NEW u \in Thread
               PROVE  /\ call'[u].pc = "frame" => /\ Len(call'[u].out) < WRITE_BUFFER_LEN
                                                  /\ call'[u].left = <<>> => call'[u].out = <<>>
                                                  /\ ~call'[u].begun => call'[u].out = <<>>
                      /\ call'[u].pc = "write" => call'[u].out # <<>> /\ Len(call'[u].out) <= WRITE_BUFFER_LEN + 2
    BY DEF BufferOK, At
  <2>1. CASE u # t
    BY <1>7, <1>8, <2>1 DEF Inside
  <2>2. CASE u = t
    <3>1. WRITE_BUFFER_LEN \in Nat \ {0, 1} /\ Len(<<>>) = 0
      BY SourceAssumption
    <3>2. CASE one
      <4>1. call'[t].pc = "frame" /\ call'[t].out = <<>>
        BY <1>6, <1>7, <3>2
      <4> QED BY <2>2, <3>1, <4>1
    <3>3. CASE ~one
      BY <1>6, <1>7, <2>2, <3>3
    <3> QED BY <3>2, <3>3
  <2> QED BY <2>1, <2>2
<1>14. Halfway'
  <2>1. Sending(t, k)'
    <3> HIDE DEF m
    <3>1. /\ k \in 0..Len(m.data) /\ call[t].left = SubSeq(m.data, k + 1, Len(m.data))
          /\ call[t].begun <=> k > 0
          /\ source_channel_number = m.channel
      BY <1>3 DEF Sending, m
    <3> QED BY <1>1, <1>4, <1>7, <3>1 DEF Sending
  <2> QED BY <1>7, <1>8, <2>1 DEF Halfway, Inside
<1> QED BY <1>10, <1>11, <1>12, <1>13, <1>14 DEF SourceInv

\* A message that is out has been heard.
LEMMA SourceDone ==
  ASSUME SourceInv, NEW t \in Thread, At(t, "frame"), call[t].left = <<>>
  PROVE  /\ IsMessage(call[t].message) /\ source_channel_number = call[t].message.channel
         /\ host = Heard(source_channel_number, Meant(call[t].message))
<1> DEFINE m == call[t].message
           n == Len(m.data)
<1>1. IsMessage(m) /\ m.data \in Seq(alt_u8) /\ n \in Nat /\ call[t].out = <<>>
  BY LenProperties DEF SourceInv, SourceTypeOK, BufferOK, At, IsMessage
<1>2. PICK k \in 0..n : Sending(t, k)
  BY DEF SourceInv, Halfway, At
<1>3. /\ SubSeq(m.data, k + 1, n) = <<>> /\ source_channel_number = m.channel
      /\ Reads(host, <<>>, Heard(m.channel, SubSeq(Meant(m), 1, k)))
  BY <1>1, <1>2 DEF Sending
<1>4. k = n
  <2>1. ASSUME k < n PROVE FALSE
    <3>1. \A i \in k + 1..n : m.data[i] \in alt_u8
      BY <1>1, ElementOfSeq
    <3> HIDE DEF m, n
    <3>2. Len(SubSeq(m.data, k + 1, n)) = IF k + 1 <= n THEN n - (k + 1) + 1 ELSE 0
      BY <1>1, <3>1, SubSeqProperties
    <3>3. Len(<<>>) = 0
      OBVIOUS
    <3>4. Len(SubSeq(m.data, k + 1, n)) = 0
      BY <1>3, <3>3
    <3>5. n \in Nat /\ k \in Nat
      BY <1>1
    <3> DEFINE r == Len(SubSeq(m.data, k + 1, n))
    <3> HIDE DEF r
    <3>6. r = (IF k + 1 <= n THEN n - (k + 1) + 1 ELSE 0) /\ r = 0
      BY <3>2, <3>4 DEF r
    <3> QED BY <2>1, <3>5, <3>6
  <2> QED BY <1>1, <2>1
<1>5. SubSeq(Meant(m), 1, n) = Meant(m)
  <2> DEFINE M == Meant(m)
             S == {M[i] : i \in 1..n}
  <2>1. M \in [1..n -> S]
    BY DEF Meant
  <2> HIDE DEF M, S, n
  <2>2. M \in Seq(S) /\ Len(M) = n
    BY <1>1, <2>1, SeqDef
  <2>3. SubSeq(M, 1, n) = M
    BY <2>2, SubSeqFull
  <2> QED BY <2>3 DEF M
<1>6. host = Heard(m.channel, Meant(m))
  <2> DEFINE g == Heard(m.channel, Meant(m))
  <2>1. Reads(host, <<>>, g)
    BY <1>3, <1>4, <1>5
  <2> HIDE DEF g
  <2>2. host = g
    BY <2>1, ReadsNothing
  <2> QED BY <2>2 DEF g
<1> QED BY <1>1, <1>3, <1>6

\* The lock is given back.
LEMMA SourcePostInv ==
  ASSUME SourceInv, NEW t \in Thread, SourcePost(t)
  PROVE  SourceInv'
<1>1. /\ call[t].pc = "frame" /\ call[t].left = <<>> /\ lock' = lock + 1
      /\ source_channel_number' = source_channel_number /\ host' = host
      /\ call' = [call EXCEPT ![t] = Idle] /\ call \in [Thread -> Calls] /\ lock \in {0, 1}
  BY DEF SourcePost, At, SourceInv, SourceTypeOK
<1>2. Idle \in Calls /\ Idle.pc = "idle" /\ Idle.out = <<>>
  <2>1. <<>> \in Seq(alt_u8)
    OBVIOUS
  <2> QED BY <2>1 DEF Idle, Calls, AnyMessage
<1>3. /\ call' \in [Thread -> Calls] /\ call'[t] = Idle
      /\ \A u \in Thread : u # t => call'[u] = call[u]
  BY <1>1, <1>2
<1>4. \A u \in Thread : (Inside(u) <=> u = t) /\ ~Inside(u)'
  BY <1>1, <1>2, <1>3 DEF SourceInv, OneInside, Inside
<1>5. lock = 0 /\ lock' = 1
  BY <1>1, <1>4 DEF SourceInv, OneInside
<1>6. SourceTypeOK'
  BY <1>1, <1>2, <1>3, <1>5 DEF SourceInv, SourceTypeOK
<1>7. OneInside'
  BY <1>4 DEF OneInside
<1>8. HostWaits'
  BY <1>1, SourceDone DEF HostWaits, At
<1>9. Fresh'
  BY <1>1, <1>2, <1>3, <1>4 DEF SourceInv, Fresh, Inside
<1>10. BufferOK' /\ Halfway'
  BY <1>4 DEF BufferOK, Halfway, At, Inside
<1> QED BY <1>6, <1>7, <1>8, <1>9, <1>10 DEF SourceInv

-----------------------------------------------------------------------------
(* The types of the way from the host *)

AvmStates ==
  [escape_prefix : BOOLEAN, eop_prefix : BOOLEAN, inside_packet : BOOLEAN,
   offset : Nat, buffer : Seq(alt_u8)]

\* Bus access has offset bytes of a header, or all of it.
AvmOK(a) ==
  /\ a \in AvmStates
  /\ Len(a.buffer) = IF a.offset < AVM_OFFSET_FULL THEN a.offset ELSE AVM_OFFSET_FULL

SvcStates ==
  [pc : {"read", "loop"}, buffer : Seq(alt_u8), read_len : Nat, index : Nat,
   head : Nat, sink : Seq(alt_u8)]

\* The loop of the service stays in its buffer.
SvcOK(s) == s \in SvcStates /\ s.read_len <= Len(s.buffer)

States == [sink_channel : {Avm, Pipe, NULL}, channel_prefix : BOOLEAN, escape_prefix : BOOLEAN]

\* The bytes the pipe may be sent, but for those that look like framing.
PlainBytes == {x \in PipeBytes : ~AST_NEEDS_ESCAPE(x)}

BridgeTypeOK ==
  /\ wire \in Seq(alt_u8) /\ asking \in Seq(alt_u8)
  /\ asked \in Seq(Packets) /\ typed \in Seq(PlainBytes)
  /\ state \in States /\ SvcOK(svc) /\ AvmOK(avm)

\* A byte of a packet.
LEMMA HeaderForm ==
  ASSUME NEW a, AvmOK(a), NEW x \in alt_u8
  PROVE  LET b == Header(a, x)
             full == a.offset >= AVM_OFFSET_FULL
             bytes == IF full THEN a.buffer ELSE Append(a.buffer, x)
         IN  /\ AvmOK(b) /\ b.buffer = bytes /\ b.buffer # <<>>
             /\ b.inside_packet = a.inside_packet /\ b.eop_prefix = a.eop_prefix /\ ~b.escape_prefix
             /\ b.offset = IF full THEN a.offset
                           ELSE IF a.offset + 1 = AVM_OFFSET_FULL THEN Transaction(bytes[1])
                           ELSE a.offset + 1
<1> DEFINE b == Header(a, x)
           full == a.offset >= AVM_OFFSET_FULL
           bytes == IF full THEN a.buffer ELSE Append(a.buffer, x)
           off == IF full THEN a.offset
                  ELSE IF a.offset + 1 = AVM_OFFSET_FULL THEN Transaction(bytes[1])
                  ELSE a.offset + 1
<1>1. a \in AvmStates /\ a.offset \in Nat /\ a.buffer \in Seq(alt_u8) /\ AVM_OFFSET_FULL \in Nat \ {0}
      /\ Len(a.buffer) = IF a.offset < AVM_OFFSET_FULL THEN a.offset ELSE AVM_OFFSET_FULL
  BY BridgeAssumption DEF AvmOK, AvmStates
<1>2. /\ bytes \in Seq(alt_u8) /\ bytes # <<>>
      /\ Len(bytes) = IF full THEN AVM_OFFSET_FULL ELSE a.offset + 1
  <2>1. CASE full
    <3>1. bytes = a.buffer /\ Len(a.buffer) = AVM_OFFSET_FULL
      BY <1>1, <2>1
    <3> QED BY <1>1, <2>1, <3>1, EmptySeq
  <2>2. CASE ~full
    <3> DEFINE w == Append(a.buffer, x)
    <3>1. w \in Seq(alt_u8) /\ Len(w) = Len(a.buffer) + 1
      BY <1>1, AppendProperties
    <3>2. Len(w) = a.offset + 1 /\ a.offset + 1 # 0
      BY <1>1, <2>2, <3>1
    <3> HIDE DEF w
    <3>3. w # <<>>
      BY <3>1, <3>2, EmptySeq
    <3> QED BY <2>2, <3>1, <3>2, <3>3 DEF w
  <2> QED BY <2>1, <2>2
<1>3. ~full => (Len(bytes) = AVM_OFFSET_FULL <=> a.offset + 1 = AVM_OFFSET_FULL)
  BY <1>2
<1>4. b = [a EXCEPT !.escape_prefix = FALSE, !.buffer = bytes, !.offset = off]
  <2> DEFINE buf == IF a.offset < AVM_OFFSET_FULL THEN Append(a.buffer, x) ELSE a.buffer
             o == IF a.offset >= AVM_OFFSET_FULL THEN a.offset
                  ELSE IF Len(buf) = AVM_OFFSET_FULL THEN Transaction(buf[1])
                  ELSE Len(buf)
  <2>1. b = [a EXCEPT !.escape_prefix = FALSE, !.buffer = buf, !.offset = o]
    BY <1>1 DEF Header, AvmStates
  <2>2. buf = bytes
    BY <1>1
  <2>3. o = off
    <3> HIDE DEF buf, bytes
    <3> QED BY <1>2, <1>3, <2>2
  <2> HIDE DEF b, o, off, buf, bytes
  <2> QED BY <2>1, <2>2, <2>3
<1>5. off \in Nat /\ (~full /\ a.offset + 1 # AVM_OFFSET_FULL <=> off < AVM_OFFSET_FULL)
      /\ (off < AVM_OFFSET_FULL => off = a.offset + 1)
  <2>1. \A c : Transaction(c) \in Nat /\ Transaction(c) > AVM_OFFSET_FULL
    BY <1>1 DEF Transaction, AVM_OFFSET_WRITE, AVM_OFFSET_READ, AVM_OFFSET_NOTR
  <2> HIDE DEF bytes
  <2> QED BY <1>1, <2>1
<1> HIDE DEF bytes, off
<1>6. /\ b \in AvmStates /\ b.buffer = bytes /\ b.offset = off /\ b.inside_packet = a.inside_packet
      /\ b.eop_prefix = a.eop_prefix /\ ~b.escape_prefix
  <2> HIDE DEF b
  <2> QED BY <1>1, <1>2, <1>4, <1>5 DEF AvmStates
<1> HIDE DEF b
<1>7. Len(b.buffer) = IF b.offset < AVM_OFFSET_FULL THEN b.offset ELSE AVM_OFFSET_FULL
  BY <1>1, <1>2, <1>5, <1>6
<1> QED BY <1>2, <1>6, <1>7 DEF AvmOK, b, bytes, off

\* The answer of bus access is a message.
LEMMA AnswerOK ==
  ASSUME NEW a, AvmOK(a), NEW x \in alt_u8
  PROVE  Answer(a, Header(a, x)) \in AnyMessage /\ IsMessage(Answer(a, Header(a, x)))
<1> DEFINE b == Header(a, x)
           n == AVM_OFFSET_FULL
<1>1. /\ AvmOK(b) /\ b.buffer # <<>> /\ b.buffer \in Seq(alt_u8) /\ n \in Nat \ {0}
      /\ b.offset < n => Len(b.buffer) = b.offset
      /\ b.offset >= n => Len(b.buffer) = n
      /\ b.offset \in Nat
  <2>1. AvmOK(b) /\ b.buffer # <<>>
    BY HeaderForm
  <2> HIDE DEF b
  <2> QED BY <2>1, BridgeAssumption DEF AvmOK, AvmStates
<1> HIDE DEF b
<1>2. Head(b.buffer) \in alt_u8 /\ Tail(b.buffer) \in Seq(alt_u8) /\ Len(Tail(b.buffer)) = Len(b.buffer) - 1
  BY <1>1, HeadTailProperties
<1>3. b.offset = AVM_OFFSET_READ => Memory(Tail(b.buffer)) \in Seq(alt_u8)
  <2> SUFFICES ASSUME b.offset = AVM_OFFSET_READ PROVE Memory(Tail(b.buffer)) \in Seq(alt_u8)
    OBVIOUS
  <2>1. Len(b.buffer) = n
    BY <1>1 DEF AVM_OFFSET_READ
  <2>2. Tail(b.buffer) \in [1..n - 1 -> alt_u8]
    <3> DEFINE r == Tail(b.buffer)
    <3>1. r \in Seq(alt_u8) /\ Len(r) = n - 1
      BY <1>2, <2>1
    <3> HIDE DEF r
    <3> QED BY <3>1, LenProperties DEF r
  <2> QED BY <2>2, BridgeAssumption
<1>4. <<InvertTop(Head(b.buffer)), 0, 0, 0>> \in Seq(alt_u8)
  <2>1. \A y \in 0..255 : (y + 128) % 256 \in 0..255
    OBVIOUS
  <2>2. InvertTop(Head(b.buffer)) \in alt_u8 /\ 0 \in alt_u8
    <3> DEFINE h == Head(b.buffer)
    <3>1. h \in 0..255
      BY <1>2 DEF alt_u8
    <3> HIDE DEF h
    <3>2. (h + 128) % 256 \in 0..255
      BY <2>1, <3>1
    <3>3. InvertTop(h) \in alt_u8 /\ 0 \in alt_u8
      BY ONLY <3>2 DEF InvertTop, alt_u8
    <3> QED BY ONLY <3>3 DEF h
  <2> QED BY <2>2
<1>5. Avm \in alt_u8
  BY BridgeAssumption
<1> DEFINE r == a.offset < AVM_OFFSET_FULL /\ b.offset = AVM_OFFSET_NOTR /\ Head(b.buffer) = 127
           d == IF b.offset = AVM_OFFSET_READ THEN Memory(Tail(b.buffer)) ELSE <<InvertTop(Head(b.buffer)), 0, 0, 0>>
<1>6. d \in Seq(alt_u8) /\ r \in BOOLEAN
  BY <1>3, <1>4
<1> HIDE DEF d, r
<1>7. Answer(a, b) = [channel |-> Avm, packetize |-> TRUE, reset |-> r, data |-> d]
  BY DEF Answer, d, r
<1>8. Answer(a, b) \in [channel : alt_u8, packetize : BOOLEAN, reset : BOOLEAN, data : Seq(alt_u8)]
  BY <1>5, <1>6, <1>7
<1> DEFINE A == Answer(a, b)
<1> HIDE DEF A
<1>9. A \in AnyMessage /\ IsMessage(A)
  <2>1. A \in Answers
    BY <1>8 DEF A, Answers
  <2>2. A \in AnyMessage
    BY <2>1 DEF AnyMessage
  <2> QED BY <2>1, <2>2 DEF IsMessage, Answers
<1> QED BY <1>9 DEF A, b

-----------------------------------------------------------------------------
(* The stream from the host *)

\* Where a byte goes: to what bus access has yet to do, to the channel that is
\* selected, or to the selection of one.
Sinking == -1
Places == {Sinking, AST_CHANNEL_PREFIX, Avm, Pipe, NULL}

\* Bus access, the packets it has to answer and the bytes the pipe has to get,
\* and the place of the next byte.
Flows == [place : Places, avm : {a \in AvmStates : AvmOK(a)}, asked : Seq(Packets), typed : Seq(PlainBytes)]
FlowAt(c, a, q, t) == [place |-> c, avm |-> a, asked |-> q, typed |-> t]

Framing == {AST_SOP, AST_EOP_PREFIX, AST_ESCAPE_PREFIX}
Meaning(a, b) == IF a.escape_prefix THEN EscapeXor(b) ELSE b
Ends(a, b) == b \notin Framing /\ a.inside_packet /\ a.eop_prefix

\* What a byte does to bus access (AvmByte).
AvmStep(a, b) ==
  CASE b = AST_SOP           -> AvmBegin(a)
    [] b = AST_EOP_PREFIX    -> [a EXCEPT !.eop_prefix = TRUE]
    [] b = AST_ESCAPE_PREFIX -> [a EXCEPT !.escape_prefix = TRUE]
    [] OTHER -> IF ~a.inside_packet THEN [a EXCEPT !.escape_prefix = FALSE]
                ELSE IF ~a.eop_prefix THEN Header(a, Meaning(a, b))
                ELSE [Header(a, Meaning(a, b)) EXCEPT !.eop_prefix = FALSE, !.inside_packet = FALSE]

\* The end of a packet is answered as the oldest packet asks for.
AvmLegal(a, q, b) ==
  /\ b = AST_CHANNEL_PREFIX => ~a.inside_packet
  /\ a.escape_prefix => ~AST_NEEDS_ESCAPE(b)
  /\ Ends(a, b) => q # <<>> /\ Answer(a, Header(a, Meaning(a, b))) = Reply(Head(q))

\* One byte of the stream: for bus access, the prefix of a selection, the
\* selection, or for the pipe.
BusMove(f, b, g) ==
  /\ f.place = Sinking \/ (f.place = Avm /\ b # AST_CHANNEL_PREFIX)
  /\ AvmLegal(f.avm, f.asked, b)
  /\ g = FlowAt(f.place, AvmStep(f.avm, b), IF Ends(f.avm, b) THEN Tail(f.asked) ELSE f.asked, f.typed)
PrefixMove(f, b, g) ==
  /\ f.place \notin {Sinking, AST_CHANNEL_PREFIX} /\ b = AST_CHANNEL_PREFIX
  /\ ~f.avm.inside_packet /\ ~f.avm.escape_prefix
  /\ g = FlowAt(AST_CHANNEL_PREFIX, f.avm, f.asked, f.typed)
SelectMove(f, b, g) ==
  /\ f.place = AST_CHANNEL_PREFIX /\ b \in {Avm, Pipe}
  /\ g = FlowAt(b, f.avm, f.asked, f.typed)
PipeMove(f, b, g) ==
  /\ f.place = Pipe /\ b \in PlainBytes /\ f.typed # <<>> /\ b = Head(f.typed)
  /\ g = FlowAt(Pipe, f.avm, f.asked, Tail(f.typed))
Move(f, b, g) == BusMove(f, b, g) \/ PrefixMove(f, b, g) \/ SelectMove(f, b, g) \/ PipeMove(f, b, g)

\* The bytes of s lead from f to g.
Flow(f, s, g) ==
  \E F \in [0..Len(s) -> Flows] :
    F[0] = f /\ F[Len(s)] = g /\ \A i \in 1..Len(s) : Move(F[i - 1], s[i], F[i])

\* The bytes that stand for something else, and the places, are not the same.
LEMMA Bytes ==
  /\ AST_SOP = 122 /\ AST_EOP_PREFIX = 123 /\ AST_CHANNEL_PREFIX = 124 /\ AST_ESCAPE_PREFIX = 125
  /\ \A x \in alt_u8 : AST_NEEDS_ESCAPE(x) <=> x \in {122, 123, 124, 125}
  /\ {122, 123, 124, 125} \subseteq alt_u8
  /\ Avm \in alt_u8 /\ Pipe \in alt_u8 /\ Avm # Pipe /\ NULL \notin alt_u8 /\ NULL # Sinking
  /\ Avm \notin {122, 123, 124, 125} /\ Pipe \notin {122, 123, 124, 125} /\ Sinking \notin alt_u8
  /\ PlainBytes \subseteq alt_u8 /\ \A x \in PlainBytes : x \notin {122, 123, 124, 125}
<1>1. AST_SOP = 122 /\ AST_EOP_PREFIX = 123 /\ AST_CHANNEL_PREFIX = 124 /\ AST_ESCAPE_PREFIX = 125
  BY DEF AST_SOP, AST_EOP_PREFIX, AST_CHANNEL_PREFIX, AST_ESCAPE_PREFIX
<1>2. \A x \in alt_u8 : AST_NEEDS_ESCAPE(x) <=> x \in {122, 123, 124, 125}
  BY <1>1 DEF AST_NEEDS_ESCAPE, alt_u8
<1>3. {122, 123, 124, 125} \subseteq alt_u8 /\ Sinking \notin alt_u8
  BY DEF alt_u8, Sinking
<1>4. Avm \in alt_u8 /\ Pipe \in alt_u8 /\ Avm # Pipe /\ NULL \notin alt_u8 /\ NULL # Sinking /\ PlainBytes \subseteq alt_u8
  BY BridgeAssumption DEF Sinking, PlainBytes
<1>5. ~AST_NEEDS_ESCAPE(Avm) /\ ~AST_NEEDS_ESCAPE(Pipe) /\ \A x \in PlainBytes : ~AST_NEEDS_ESCAPE(x)
  BY BridgeAssumption DEF PlainBytes
<1>6. Avm \notin {122, 123, 124, 125} /\ Pipe \notin {122, 123, 124, 125}
  BY <1>2, <1>4, <1>5
<1>7. \A x \in PlainBytes : x \notin {122, 123, 124, 125}
  BY <1>2, <1>4, <1>5
<1> QED BY <1>1, <1>2, <1>3, <1>4, <1>6, <1>7

\* Bus access stays in its states.
LEMMA AvmStepOK ==
  ASSUME NEW a, AvmOK(a), NEW b \in alt_u8
  PROVE  AvmOK(AvmStep(a, b))
<1> DEFINE x == Meaning(a, b)
           h == Header(a, x)
<1>1. x \in alt_u8
  BY EscapeFacts DEF Meaning
<1>2. AvmOK(h)
  BY <1>1, HeaderForm
<1>3. AVM_OFFSET_FULL \in Nat \ {0}
  BY BridgeAssumption
<1> HIDE DEF h
<1>4. AvmOK(AvmBegin(a))
  <2>1. <<>> \in Seq(alt_u8) /\ Len(<<>>) = 0
    OBVIOUS
  <2>2. AvmBegin(a) \in AvmStates /\ AvmBegin(a).offset = 0 /\ AvmBegin(a).buffer = <<>>
    BY <2>1 DEF AvmOK, AvmStates, AvmBegin
  <2> QED BY <1>3, <2>1, <2>2 DEF AvmOK
<1>5. AvmOK([a EXCEPT !.eop_prefix = TRUE]) /\ AvmOK([a EXCEPT !.escape_prefix = TRUE])
      /\ AvmOK([a EXCEPT !.escape_prefix = FALSE])
  BY DEF AvmOK, AvmStates
<1>6. AvmOK([h EXCEPT !.eop_prefix = FALSE, !.inside_packet = FALSE])
  BY <1>2 DEF AvmOK, AvmStates
<1> QED BY <1>2, <1>4, <1>5, <1>6 DEF AvmStep, h

\* A byte leads from one flow to another.
LEMMA MoveType ==
  ASSUME NEW f \in Flows, NEW b \in alt_u8, NEW g, Move(f, b, g)
  PROVE  g \in Flows
<1>1. f.avm \in {a \in AvmStates : AvmOK(a)} /\ f.asked \in Seq(Packets) /\ f.typed \in Seq(PlainBytes) /\ f.place \in Places
  BY DEF Flows
<1>2. AvmStep(f.avm, b) \in {a \in AvmStates : AvmOK(a)}
  BY <1>1, AvmStepOK DEF AvmOK
<1>3. CASE BusMove(f, b, g)
  <2>1. (IF Ends(f.avm, b) THEN Tail(f.asked) ELSE f.asked) \in Seq(Packets)
    <3>1. Ends(f.avm, b) => f.asked # <<>>
      BY <1>3 DEF BusMove, AvmLegal
    <3> QED BY <1>1, <3>1, HeadTailProperties
  <2> QED BY <1>1, <1>2, <1>3, <2>1 DEF BusMove, FlowAt, Flows
<1>4. CASE PrefixMove(f, b, g)
  BY <1>1, <1>4 DEF PrefixMove, FlowAt, Flows, Places
<1>5. CASE SelectMove(f, b, g)
  BY <1>1, <1>5 DEF SelectMove, FlowAt, Flows, Places
<1>6. CASE PipeMove(f, b, g)
  <2>1. Tail(f.typed) \in Seq(PlainBytes)
    BY <1>1, <1>6, HeadTailProperties DEF PipeMove
  <2> QED BY <1>1, <1>6, <2>1 DEF PipeMove, FlowAt, Flows, Places
<1> QED BY <1>3, <1>4, <1>5, <1>6 DEF Move

\* No bytes, no change.
LEMMA FlowNothing ==
  ASSUME NEW f, NEW g
  PROVE  Flow(f, <<>>, g) <=> f \in Flows /\ f = g
<1>1. ASSUME f \in Flows, f = g PROVE Flow(f, <<>>, g)
  <2> DEFINE F == [i \in 0..0 |-> f]
  <2>1. /\ F \in [0..Len(<<>>) -> Flows] /\ F[0] = f /\ F[Len(<<>>)] = g
        /\ \A i \in 1..Len(<<>>) : Move(F[i - 1], <<>>[i], F[i])
    BY <1>1
  <2> HIDE DEF F
  <2> QED BY <2>1 DEF Flow
<1>2. Flow(f, <<>>, g) => f \in Flows /\ f = g
  BY DEF Flow
<1> QED BY <1>1, <1>2

\* The first byte.
LEMMA FlowFirst ==
  ASSUME NEW f, NEW g, NEW s \in Seq(alt_u8), s # <<>>, Flow(f, s, g)
  PROVE  f \in Flows /\ \E h \in Flows : Move(f, Head(s), h) /\ Flow(h, Tail(s), g)
<1>1. PICK F \in [0..Len(s) -> Flows] : F[0] = f /\ F[Len(s)] = g /\ \A i \in 1..Len(s) : Move(F[i - 1], s[i], F[i])
  BY DEF Flow
<1>2. /\ Len(s) \in Nat \ {0} /\ Len(Tail(s)) = Len(s) - 1 /\ Head(s) = s[1]
      /\ \A i \in 1..Len(s)-1 : Tail(s)[i] = s[i + 1]
  BY HeadTailProperties, EmptySeq
<1> DEFINE G == [i \in 0..Len(s)-1 |-> F[i + 1]]
<1>3. G \in [0..Len(Tail(s)) -> Flows] /\ G[0] = F[1] /\ G[Len(Tail(s))] = g
  <2>1. \A i \in 0..Len(s)-1 : i + 1 \in 0..Len(s)
    BY <1>2
  <2>2. G \in [0..Len(s)-1 -> Flows]
    BY <1>1, <2>1
  <2> QED BY <1>1, <1>2, <2>2
<1>4. \A i \in 1..Len(Tail(s)) : Move(G[i - 1], Tail(s)[i], G[i])
  <2> SUFFICES ASSUME NEW i \in 1..Len(s)-1 PROVE Move(G[i - 1], Tail(s)[i], G[i])
    BY <1>2
  <2>1. G[i] = F[i + 1] /\ G[i - 1] = F[i] /\ i + 1 \in 1..Len(s) /\ (i + 1) - 1 = i
    BY <1>2
  <2> HIDE DEF G
  <2>2. Move(F[(i + 1) - 1], s[i + 1], F[i + 1])
    BY <1>1, <2>1
  <2> QED BY <1>2, <2>1, <2>2
<1> HIDE DEF G
<1>5. Flow(F[1], Tail(s), g)
  BY <1>3, <1>4 DEF Flow
<1>6. 1 \in 1..Len(s) /\ 1 - 1 = 0 /\ 0 \in 0..Len(s) /\ 1 \in 0..Len(s)
  BY <1>2
<1>7. Move(F[1 - 1], s[1], F[1])
  BY <1>1, <1>6
<1> QED BY <1>1, <1>2, <1>5, <1>6, <1>7

\* One byte more.
LEMMA FlowNext ==
  ASSUME NEW f, NEW g, NEW h, NEW s \in Seq(alt_u8), NEW b \in alt_u8, Flow(f, s, g), Move(g, b, h)
  PROVE  Flow(f, s \o <<b>>, h)
<1>1. PICK F \in [0..Len(s) -> Flows] : F[0] = f /\ F[Len(s)] = g /\ \A i \in 1..Len(s) : Move(F[i - 1], s[i], F[i])
  BY DEF Flow
<1> DEFINE t == s \o <<b>>
<1>2. /\ Len(s) \in Nat /\ Len(t) = Len(s) + 1 /\ t[Len(s) + 1] = b
      /\ \A i \in 1..Len(s) : t[i] = s[i]
  BY AppendProperties, AppendIsConcat, LenProperties
<1>3. g \in Flows
  BY <1>1, <1>2
<1>4. h \in Flows
  BY <1>3, MoveType
<1> HIDE DEF t
<1> DEFINE G == [i \in 0..Len(s)+1 |-> IF i <= Len(s) THEN F[i] ELSE h]
<1>5. G \in [0..Len(t) -> Flows] /\ G[0] = f /\ G[Len(t)] = h
  <2>1. \A i \in 0..Len(s)+1 : i <= Len(s) => i \in 0..Len(s)
    BY <1>2
  <2>2. G \in [0..Len(s)+1 -> Flows]
    BY <1>1, <1>4, <2>1
  <2> QED BY <1>1, <1>2, <2>2
<1>6. ASSUME NEW i \in 1..Len(t) PROVE Move(G[i - 1], t[i], G[i])
  <2>1. CASE i <= Len(s)
    <3>1. G[i] = F[i] /\ G[i - 1] = F[i - 1] /\ i \in 1..Len(s)
      BY <1>2, <2>1
    <3> QED BY <1>1, <1>2, <3>1
  <2>2. CASE i = Len(s) + 1
    <3>1. G[i] = h /\ G[i - 1] = F[Len(s)] /\ t[i] = b
      BY <1>2, <2>2
    <3> QED BY <1>1, <3>1
  <2> QED BY <1>2, <2>1, <2>2
<1> HIDE DEF G
<1>7. Flow(f, t, h)
  BY <1>5, <1>6 DEF Flow
<1> QED BY <1>7 DEF t

\* The host has asked or typed more: p at the end of what is asked.
AskMore(f, p) == FlowAt(f.place, f.avm, Append(f.asked, p), f.typed)
TypeMore(f, x) == FlowAt(f.place, f.avm, f.asked, Append(f.typed, x))

\* The bytes that are on their way mean what they meant when the host asks more.
LEMMA FlowAskMore ==
  ASSUME NEW f, NEW g, NEW s \in Seq(alt_u8), NEW p \in Packets, Flow(f, s, g)
  PROVE  Flow(AskMore(f, p), s, AskMore(g, p))
<1>1. PICK F \in [0..Len(s) -> Flows] : F[0] = f /\ F[Len(s)] = g /\ \A i \in 1..Len(s) : Move(F[i - 1], s[i], F[i])
  BY DEF Flow
<1>2. Len(s) \in Nat
  BY LenProperties
<1>3. ASSUME NEW h \in Flows
      PROVE  /\ AskMore(h, p) \in Flows /\ AskMore(h, p).place = h.place /\ AskMore(h, p).avm = h.avm
             /\ AskMore(h, p).typed = h.typed /\ AskMore(h, p).asked = Append(h.asked, p)
  <2>1. Append(h.asked, p) \in Seq(Packets)
    BY AppendProperties DEF Flows
  <2> QED BY <2>1 DEF Flows, FlowAt, AskMore
<1>4. ASSUME NEW h \in Flows, NEW k \in Flows, NEW b \in alt_u8, Move(h, b, k)
      PROVE  Move(AskMore(h, p), b, AskMore(k, p))
  <2> DEFINE h1 == AskMore(h, p)
             k1 == AskMore(k, p)
  <2>1. /\ h1.place = h.place /\ h1.avm = h.avm /\ h1.typed = h.typed /\ h1.asked = Append(h.asked, p)
        /\ k1 = FlowAt(k.place, k.avm, Append(k.asked, p), k.typed) /\ h.asked \in Seq(Packets)
    BY <1>3 DEF Flows, AskMore
  <2> HIDE DEF h1, k1
  <2>2. CASE BusMove(h, b, k)
    <3> DEFINE q == IF Ends(h.avm, b) THEN Tail(h.asked) ELSE h.asked
    <3>1. k.place = h.place /\ k.avm = AvmStep(h.avm, b) /\ k.asked = q /\ k.typed = h.typed
      BY <2>2 DEF BusMove, FlowAt
    <3>2. Ends(h.avm, b) => /\ Append(h.asked, p) # <<>> /\ Head(Append(h.asked, p)) = Head(h.asked)
                            /\ Tail(Append(h.asked, p)) = Append(Tail(h.asked), p)
      BY <2>1, <2>2, HeadTailAppend, AppendProperties DEF BusMove, AvmLegal
    <3>3. Append(q, p) = IF Ends(h.avm, b) THEN Tail(Append(h.asked, p)) ELSE Append(h.asked, p)
      BY <3>2
    <3>4. AvmLegal(h.avm, Append(h.asked, p), b)
      BY <2>2, <3>2 DEF BusMove, AvmLegal
    <3> HIDE DEF q
    <3>5. BusMove(h1, b, k1)
      BY <2>1, <2>2, <3>1, <3>3, <3>4 DEF BusMove
    <3> QED BY <3>5 DEF Move, h1, k1
  <2>3. CASE PrefixMove(h, b, k)
    <3>1. k.place = AST_CHANNEL_PREFIX /\ k.avm = h.avm /\ k.asked = h.asked /\ k.typed = h.typed
      BY <2>3 DEF PrefixMove, FlowAt
    <3>2. PrefixMove(h1, b, k1)
      BY <2>1, <2>3, <3>1 DEF PrefixMove
    <3> QED BY <3>2 DEF Move, h1, k1
  <2>4. CASE SelectMove(h, b, k)
    <3>1. k.place = b /\ k.avm = h.avm /\ k.asked = h.asked /\ k.typed = h.typed
      BY <2>4 DEF SelectMove, FlowAt
    <3>2. SelectMove(h1, b, k1)
      BY <2>1, <2>4, <3>1 DEF SelectMove
    <3> QED BY <3>2 DEF Move, h1, k1
  <2>5. CASE PipeMove(h, b, k)
    <3>1. k.place = Pipe /\ k.avm = h.avm /\ k.asked = h.asked /\ k.typed = Tail(h.typed)
      BY <2>5 DEF PipeMove, FlowAt
    <3>2. PipeMove(h1, b, k1)
      BY <2>1, <2>5, <3>1 DEF PipeMove
    <3> QED BY <3>2 DEF Move, h1, k1
  <2> QED BY <2>2, <2>3, <2>4, <2>5 DEF Move
<1> DEFINE G == [i \in 0..Len(s) |-> AskMore(F[i], p)]
<1>5. G \in [0..Len(s) -> Flows]
  BY <1>3
<1>6. G[0] = AskMore(f, p) /\ G[Len(s)] = AskMore(g, p)
  BY <1>1, <1>2
<1>7. ASSUME NEW i \in 1..Len(s) PROVE Move(G[i - 1], s[i], G[i])
  <2>1. i - 1 \in 0..Len(s) /\ i \in 0..Len(s) /\ s[i] \in alt_u8
    BY <1>2, ElementOfSeq
  <2>2. Move(F[i - 1], s[i], F[i]) /\ F[i - 1] \in Flows /\ F[i] \in Flows
    BY <1>1, <2>1
  <2>3. Move(AskMore(F[i - 1], p), s[i], AskMore(F[i], p))
    BY <1>4, <2>1, <2>2
  <2>4. G[i - 1] = AskMore(F[i - 1], p) /\ G[i] = AskMore(F[i], p)
    BY <2>1
  <2> HIDE DEF G
  <2> QED BY <2>3, <2>4
<1> HIDE DEF G
<1> QED BY <1>5, <1>6, <1>7 DEF Flow

\* The same when it types more.
LEMMA FlowTypeMore ==
  ASSUME NEW f, NEW g, NEW s \in Seq(alt_u8), NEW x \in PlainBytes, Flow(f, s, g)
  PROVE  Flow(TypeMore(f, x), s, TypeMore(g, x))
<1>1. PICK F \in [0..Len(s) -> Flows] : F[0] = f /\ F[Len(s)] = g /\ \A i \in 1..Len(s) : Move(F[i - 1], s[i], F[i])
  BY DEF Flow
<1>2. Len(s) \in Nat
  BY LenProperties
<1>3. ASSUME NEW h \in Flows
      PROVE  /\ TypeMore(h, x) \in Flows /\ TypeMore(h, x).place = h.place /\ TypeMore(h, x).avm = h.avm
             /\ TypeMore(h, x).asked = h.asked /\ TypeMore(h, x).typed = Append(h.typed, x)
  <2>1. Append(h.typed, x) \in Seq(PlainBytes)
    BY AppendProperties DEF Flows
  <2> QED BY <2>1 DEF Flows, FlowAt, TypeMore
<1>4. ASSUME NEW h \in Flows, NEW k \in Flows, NEW b \in alt_u8, Move(h, b, k)
      PROVE  Move(TypeMore(h, x), b, TypeMore(k, x))
  <2> DEFINE h1 == TypeMore(h, x)
             k1 == TypeMore(k, x)
  <2>1. /\ h1.place = h.place /\ h1.avm = h.avm /\ h1.asked = h.asked /\ h1.typed = Append(h.typed, x)
        /\ k1 = FlowAt(k.place, k.avm, k.asked, Append(k.typed, x)) /\ h.typed \in Seq(PlainBytes)
    BY <1>3 DEF Flows, TypeMore
  <2> HIDE DEF h1, k1
  <2>2. CASE BusMove(h, b, k)
    <3> DEFINE q == IF Ends(h.avm, b) THEN Tail(h.asked) ELSE h.asked
    <3>1. k.place = h.place /\ k.avm = AvmStep(h.avm, b) /\ k.asked = q /\ k.typed = h.typed
      BY <2>2 DEF BusMove, FlowAt
    <3> HIDE DEF q
    <3>2. BusMove(h1, b, k1)
      BY <2>1, <2>2, <3>1 DEF BusMove, q
    <3> QED BY <3>2 DEF Move, h1, k1
  <2>3. CASE PrefixMove(h, b, k)
    <3>1. k.place = AST_CHANNEL_PREFIX /\ k.avm = h.avm /\ k.asked = h.asked /\ k.typed = h.typed
      BY <2>3 DEF PrefixMove, FlowAt
    <3>2. PrefixMove(h1, b, k1)
      BY <2>1, <2>3, <3>1 DEF PrefixMove
    <3> QED BY <3>2 DEF Move, h1, k1
  <2>4. CASE SelectMove(h, b, k)
    <3>1. k.place = b /\ k.avm = h.avm /\ k.asked = h.asked /\ k.typed = h.typed
      BY <2>4 DEF SelectMove, FlowAt
    <3>2. SelectMove(h1, b, k1)
      BY <2>1, <2>4, <3>1 DEF SelectMove
    <3> QED BY <3>2 DEF Move, h1, k1
  <2>5. CASE PipeMove(h, b, k)
    <3>1. k.place = Pipe /\ k.avm = h.avm /\ k.asked = h.asked /\ k.typed = Tail(h.typed) /\ h.typed # <<>>
      BY <2>5 DEF PipeMove, FlowAt
    <3>2. /\ Append(h.typed, x) # <<>> /\ Head(Append(h.typed, x)) = Head(h.typed)
          /\ Tail(Append(h.typed, x)) = Append(Tail(h.typed), x)
      BY <2>1, <3>1, HeadTailAppend, AppendProperties
    <3>3. PipeMove(h1, b, k1)
      BY <2>1, <2>5, <3>1, <3>2 DEF PipeMove
    <3> QED BY <3>3 DEF Move, h1, k1
  <2> QED BY <2>2, <2>3, <2>4, <2>5 DEF Move
<1> DEFINE G == [i \in 0..Len(s) |-> TypeMore(F[i], x)]
<1>5. G \in [0..Len(s) -> Flows]
  BY <1>3
<1>6. G[0] = TypeMore(f, x) /\ G[Len(s)] = TypeMore(g, x)
  BY <1>1, <1>2
<1>7. ASSUME NEW i \in 1..Len(s) PROVE Move(G[i - 1], s[i], G[i])
  <2>1. i - 1 \in 0..Len(s) /\ i \in 0..Len(s) /\ s[i] \in alt_u8
    BY <1>2, ElementOfSeq
  <2>2. Move(F[i - 1], s[i], F[i]) /\ F[i - 1] \in Flows /\ F[i] \in Flows
    BY <1>1, <2>1
  <2>3. Move(TypeMore(F[i - 1], x), s[i], TypeMore(F[i], x))
    BY <1>4, <2>1, <2>2
  <2>4. G[i - 1] = TypeMore(F[i - 1], x) /\ G[i] = TypeMore(F[i], x)
    BY <2>1
  <2> HIDE DEF G
  <2> QED BY <2>3, <2>4
<1> HIDE DEF G
<1> QED BY <1>5, <1>6, <1>7 DEF Flow

-----------------------------------------------------------------------------
(* A packet on its way *)

\* Bus access has k bytes of p.
Told(a, p, k) ==
  IF k < AVM_OFFSET_FULL THEN a.offset = k /\ a.buffer = SubSeq(p, 1, k)
  ELSE a.offset = Transaction(p[1]) /\ a.buffer = SubSeq(p, 1, AVM_OFFSET_FULL)

\* A byte more of it.
LEMMA HeaderTold ==
  ASSUME NEW a, AvmOK(a), NEW p \in Seq(alt_u8), NEW k \in 0..Len(p)-1, Told(a, p, k)
  PROVE  Told(Header(a, p[k + 1]), p, k + 1)
<1> DEFINE x == p[k + 1]
           b == Header(a, x)
           n == AVM_OFFSET_FULL
           full == a.offset >= AVM_OFFSET_FULL
           bytes == IF full THEN a.buffer ELSE Append(a.buffer, x)
<1>1. Len(p) \in Nat /\ k \in Nat /\ k + 1 \in 1..Len(p) /\ 1 \in 1..Len(p) /\ n \in Nat \ {0}
  BY LenProperties, BridgeAssumption
<1>2. x \in alt_u8
  BY <1>1, ElementOfSeq
<1>3. /\ b.buffer = bytes
      /\ b.offset = IF full THEN a.offset
                    ELSE IF a.offset + 1 = n THEN Transaction(bytes[1])
                    ELSE a.offset + 1
  BY <1>2, HeaderForm
<1>4. \A c : Transaction(c) \in Nat /\ Transaction(c) > n
  BY <1>1 DEF Transaction, AVM_OFFSET_WRITE, AVM_OFFSET_READ, AVM_OFFSET_NOTR
<1> HIDE DEF b, x
<1>5. CASE k < n
  <2>1. a.offset = k /\ a.buffer = SubSeq(p, 1, k) /\ ~full
    BY <1>1, <1>5 DEF Told
  <2>2. SubSeq(p, 1, k + 1) = Append(SubSeq(p, 1, k), x)
    <3>1. SubSeq(p, 1, k + 1) = SubSeq(p, 1, (k + 1) - 1) \o <<p[k + 1]>>
      <4>1. 1 \in 1..Len(p) /\ k + 1 \in 1..Len(p) /\ k + 1 \in 1..Len(p)
        BY <1>1
      <4> QED BY <4>1, SubSeqRecursiveSecond
    <3>2. (k + 1) - 1 = k
      BY <1>1
    <3>3. SubSeq(p, 1, k) \in Seq(alt_u8)
      <4>1. \A i \in 1..k : p[i] \in alt_u8
        BY <1>1, ElementOfSeq
      <4> QED BY <1>1, <4>1, SubSeqProperties
    <3> QED BY <1>2, <3>1, <3>2, <3>3, AppendIsConcat DEF x
  <2>3. b.buffer = SubSeq(p, 1, k + 1)
    BY <1>3, <2>1, <2>2
  <2>4. SubSeq(p, 1, k + 1)[1] = p[1]
    <3>1. \A i \in 1..k + 1 : p[i] \in alt_u8
      BY <1>1, ElementOfSeq
    <3>2. \A i \in 1..(k + 1) - 1 + 1 : SubSeq(p, 1, k + 1)[i] = p[1 + i - 1]
      BY <1>1, <3>1, SubSeqProperties
    <3>3. 1 \in 1..(k + 1) - 1 + 1 /\ 1 + 1 - 1 = 1
      BY <1>1
    <3> QED BY <3>2, <3>3
  <2>5. b.offset = IF k + 1 = n THEN Transaction(p[1]) ELSE k + 1
    BY <1>3, <2>1, <2>2, <2>4
  <2>6. ASSUME k + 1 = n PROVE Told(b, p, k + 1)
    BY <1>1, <2>3, <2>5, <2>6 DEF Told
  <2>7. ASSUME k + 1 # n PROVE Told(b, p, k + 1)
    <3>1. k + 1 < n
      BY <1>1, <1>5, <2>7
    <3> QED BY <2>3, <2>5, <2>7, <3>1 DEF Told
  <2> QED BY <2>6, <2>7 DEF b, x
<1>6. CASE ~(k < n)
  <2>1. a.offset = Transaction(p[1]) /\ a.buffer = SubSeq(p, 1, n)
    BY <1>6 DEF Told
  <2>2. full /\ ~(k + 1 < n)
    BY <1>1, <1>4, <1>6, <2>1
  <2>3. b.buffer = a.buffer /\ b.offset = a.offset
    BY <1>3, <2>2
  <2> QED BY <2>1, <2>2, <2>3 DEF Told, b, x
<1> QED BY <1>5, <1>6

\* The answer to a whole packet is what it asks for.
LEMMA AnswerReply ==
  ASSUME NEW a, AvmOK(a), NEW p \in Seq(alt_u8), p # <<>>, Told(a, p, Len(p) - 1)
  PROVE  Answer(a, Header(a, p[Len(p)])) = Reply(p)
<1> DEFINE n == AVM_OFFSET_FULL
           l == Len(p)
           b == Header(a, p[l])
<1>1. l \in Nat \ {0} /\ n \in Nat \ {0}
  BY EmptySeq, LenProperties, BridgeAssumption
<1>2. Told(b, p, l)
  <2>1. l - 1 \in 0..l - 1 /\ (l - 1) + 1 = l
    BY <1>1
  <2> QED BY <2>1, HeaderTold
<1>3. \A c : Transaction(c) \in Nat /\ Transaction(c) > n
  BY <1>1 DEF Transaction, AVM_OFFSET_WRITE, AVM_OFFSET_READ, AVM_OFFSET_NOTR
<1>4. (a.offset < n) <=> l - 1 < n
  BY <1>1, <1>3 DEF Told
<1> DEFINE m == IF l < n THEN l ELSE n
<1>5. b.buffer = SubSeq(p, 1, m)
  BY <1>2 DEF Told
<1>6. b.offset = IF l < n THEN l ELSE Transaction(p[1])
  BY <1>2 DEF Told
<1> HIDE DEF b
<1>7. Head(b.buffer) = p[1] /\ Tail(b.buffer) = SubSeq(p, 2, m)
  <2>1. 1 \in 1..l /\ m \in 1..l /\ 1 + 1 = 2
    BY <1>1
  <2> HIDE DEF m
  <2>2. Head(SubSeq(p, 1, m)) = p[1] /\ Tail(SubSeq(p, 1, m)) = SubSeq(p, 1 + 1, m)
    BY <2>1, HeadTailOfSubSeq
  <2> QED BY <1>5, <2>1, <2>2
<1>8. /\ (b.offset = AVM_OFFSET_READ) <=> (l >= n /\ p[1] \in {16, 20})
      /\ (b.offset = AVM_OFFSET_NOTR /\ p[1] = 127) <=> (l >= n /\ p[1] = 127)
  BY <1>1, <1>6 DEF Transaction, AVM_OFFSET_WRITE, AVM_OFFSET_READ, AVM_OFFSET_NOTR
<1>9. (a.offset < n /\ b.offset = AVM_OFFSET_NOTR /\ Head(b.buffer) = 127) = (l = n /\ p[1] = 127)
  BY <1>1, <1>4, <1>7, <1>8
<1>13. l >= n => Tail(b.buffer) = SubSeq(p, 2, n)
  <2>1. l >= n => m = n
    BY <1>1
  <2> HIDE DEF m
  <2> QED BY <1>7, <2>1
<1> HIDE DEF m, l, n
<1>10. (IF b.offset = AVM_OFFSET_READ THEN Memory(Tail(b.buffer)) ELSE <<InvertTop(Head(b.buffer)), 0, 0, 0>>)
         = (IF l >= n /\ p[1] \in {16, 20} THEN Memory(SubSeq(p, 2, n)) ELSE <<InvertTop(p[1]), 0, 0, 0>>)
  BY <1>7, <1>8, <1>13
<1> USE DEF l, n
<1>11. Answer(a, b) = [channel |-> Avm, packetize |-> TRUE,
                       reset |-> a.offset < n /\ b.offset = AVM_OFFSET_NOTR /\ Head(b.buffer) = 127,
                       data |-> IF b.offset = AVM_OFFSET_READ THEN Memory(Tail(b.buffer))
                                ELSE <<InvertTop(Head(b.buffer)), 0, 0, 0>>]
  BY DEF Answer
<1>12. Reply(p) = [channel |-> Avm, packetize |-> TRUE, reset |-> l = n /\ p[1] = 127,
                   data |-> IF l >= n /\ p[1] \in {16, 20} THEN Memory(SubSeq(p, 2, n))
                            ELSE <<InvertTop(p[1]), 0, 0, 0>>]
  BY DEF Reply
<1> QED BY <1>9, <1>10, <1>11, <1>12, ZenonT(60) DEF b

-----------------------------------------------------------------------------
(* The invariant of the stream *)

\* What the loop of the service has not looked at; what it has looked at and
\* not handed to the channel, without the prefix of a selection.
Rest == Slice(svc.index, svc.read_len) \o wire
Gathered ==
  IF state.channel_prefix /\ svc.index > svc.head THEN Slice(svc.head, svc.index - 1)
  ELSE Slice(svc.head, svc.index)

\* The loop is in its buffer and has begun anew when it waits for bytes.
LoopOK ==
  /\ svc.head <= svc.index /\ svc.index <= svc.read_len
  /\ svc.sink # <<>> => svc.head = svc.index
  /\ svc.pc = "read" => svc.read_len = 0
  /\ state.channel_prefix /\ svc.index > svc.head => svc.buffer[svc.index] = AST_CHANNEL_PREFIX

Listening == IF state.channel_prefix THEN AST_CHANNEL_PREFIX ELSE state.sink_channel

\* The flow at the byte that the loop looks at next.
Due(m) ==
  /\ m.place = Listening
  /\ m.avm.escape_prefix <=> state.escape_prefix
  /\ Listening # Avm => ~m.avm.escape_prefix /\ ~m.avm.inside_packet

\* Bus access gets there by the bytes of s.
BusGets(s, m) == Flow(FlowAt(Sinking, avm, asked, typed), s, FlowAt(Sinking, m.avm, m.asked, m.typed))

\* What has been looked at leads from the state of the sinks to this flow.
Held(m) ==
  /\ svc.sink # <<>> => BusGets(svc.sink, m)
  /\ svc.sink = <<>> /\ state.sink_channel # Pipe => BusGets(Gathered, m)
  /\ svc.sink = <<>> /\ state.sink_channel = Pipe =>
       m.avm = avm /\ m.asked = asked /\ typed = Gathered \o m.typed
  /\ state.sink_channel = NULL => svc.sink = <<>> /\ Gathered = <<>>

\* The flow behind all that the host has sent: nothing is left but the packet
\* that it is sending.
Ended(g) ==
  /\ g.place = selected /\ g.typed = <<>> /\ ~g.avm.escape_prefix
  /\ asking = <<>> => g.asked = <<>> /\ ~g.avm.inside_packet
  /\ asking # <<>> => /\ selected = Avm /\ g.avm.inside_packet /\ ~g.avm.eop_prefix
                      /\ \E p \in Packets : \E k \in 0..Len(p)-1 :
                           g.asked = <<p>> /\ asking = SubSeq(p, k + 1, Len(p)) /\ Told(g.avm, p, k)

StreamInv ==
  /\ BridgeTypeOK /\ LoopOK /\ selected \in {Avm, Pipe, NULL}
  /\ \E m \in Flows, g \in Flows : Due(m) /\ Held(m) /\ Flow(m, Rest, g) /\ Ended(g)

\* The parts of the buffer are bytes.
LEMMA BufferSlices ==
  ASSUME SvcOK(svc), NEW from \in Nat, NEW to \in Int, to <= svc.read_len
  PROVE  Slice(from, to) \in Seq(alt_u8) /\ (to <= from => Slice(from, to) = <<>>)
<1>1. svc.buffer \in Seq(alt_u8) /\ svc.read_len \in Nat /\ svc.read_len <= Len(svc.buffer)
  BY DEF SvcOK, SvcStates
<1>2. \A i \in from + 1..to : svc.buffer[i] \in alt_u8
  <2> SUFFICES ASSUME NEW i \in from + 1..to PROVE svc.buffer[i] \in alt_u8
    OBVIOUS
  <2>1. i \in 1..Len(svc.buffer)
    <3> DEFINE n == Len(svc.buffer)
    <3>1. n \in Nat /\ svc.read_len <= n /\ svc.read_len \in Nat
      BY <1>1, LenProperties
    <3> HIDE DEF n
    <3>2. i \in 1..n
      BY <3>1
    <3> QED BY <3>2 DEF n
  <2> QED BY <1>1, <2>1, ElementOfSeq
<1>3. from + 1 \in Int /\ to \in Int
  OBVIOUS
<1>4. SubSeq(svc.buffer, from + 1, to) \in Seq(alt_u8)
  BY <1>2, <1>3, SubSeqProperties
<1>5. to <= from => SubSeq(svc.buffer, from + 1, to) = <<>>
  BY <1>3, SubSeqEmpty
<1> QED BY <1>4, <1>5 DEF Slice

LEMMA Slices ==
  ASSUME BridgeTypeOK, NEW from \in Nat, NEW to \in Int, to <= svc.read_len
  PROVE  Slice(from, to) \in Seq(alt_u8) /\ (to <= from => Slice(from, to) = <<>>)
BY BufferSlices DEF BridgeTypeOK

\* The types of what is left and of what is gathered.
LEMMA Parts ==
  ASSUME BridgeTypeOK, LoopOK
  PROVE  /\ Slice(svc.index, svc.read_len) \in Seq(alt_u8) /\ Rest \in Seq(alt_u8)
         /\ Gathered \in Seq(alt_u8) /\ (svc.index = svc.head => Gathered = <<>>)
<1>1. svc.index \in Nat /\ svc.read_len \in Nat /\ svc.head \in Nat /\ svc.index <= svc.read_len /\ wire \in Seq(alt_u8)
  BY DEF BridgeTypeOK, SvcOK, SvcStates, LoopOK
<1>2. Slice(svc.index, svc.read_len) \in Seq(alt_u8)
  BY <1>1, Slices
<1>3. /\ Slice(svc.head, svc.index) \in Seq(alt_u8)
      /\ svc.index <= svc.head => Slice(svc.head, svc.index) = <<>>
  BY <1>1, Slices
<1>4. Slice(svc.head, svc.index - 1) \in Seq(alt_u8)
  <2>1. svc.index - 1 \in Int /\ svc.index - 1 <= svc.read_len
    BY <1>1
  <2> QED BY <1>1, <2>1, Slices
<1>5. Rest \in Seq(alt_u8)
  BY <1>1, <1>2, ConcatProperties DEF Rest
<1> QED BY <1>1, <1>2, <1>3, <1>4, <1>5 DEF Gathered

\* The loop looks at the first byte of the rest.
LEMMA NextByte ==
  ASSUME BridgeTypeOK, LoopOK, svc.index < svc.read_len
  PROVE  /\ Rest # <<>> /\ Head(Rest) = Current /\ Current \in alt_u8
         /\ Tail(Rest) = Slice(svc.index + 1, svc.read_len) \o wire
         /\ Slice(svc.head, svc.index + 1) = Slice(svc.head, svc.index) \o <<Current>>
<1> DEFINE buf == svc.buffer
           i == svc.index
           n == svc.read_len
<1>1. buf \in Seq(alt_u8) /\ i \in Nat /\ n \in Nat /\ i < n /\ n <= Len(buf) /\ wire \in Seq(alt_u8)
      /\ Len(buf) \in Nat /\ svc.head \in Nat /\ svc.head <= i
  BY LenProperties DEF BridgeTypeOK, SvcOK, SvcStates, LoopOK
<1> DEFINE L == Len(buf)
<1>2. i + 1 \in 1..L /\ n \in i + 1..L /\ n \in 1..L
  <2> HIDE DEF L, i, n
  <2> QED BY <1>1 DEF L
<1>3. Current \in alt_u8
  BY <1>1, <1>2, ElementOfSeq DEF Current
<1>4. SubSeq(buf, i + 1, n) = <<Current>> \o SubSeq(buf, (i + 1) + 1, n)
  <2> HIDE DEF buf, i, n
  <2>1. SubSeq(buf, i + 1, n) = <<buf[i + 1]>> \o SubSeq(buf, (i + 1) + 1, n)
    <3>1. i + 1 \in 1..Len(buf) /\ n \in (i + 1)..Len(buf)
      BY <1>2
    <3> QED BY <1>1, <3>1, SubSeqRecursiveFirst
  <2> QED BY <2>1 DEF Current, buf, i
<1>5. Slice(i + 1, n) \in Seq(alt_u8)
  <2>1. i + 1 \in Nat /\ n \in Int /\ n <= svc.read_len
    BY <1>1
  <2> QED BY <2>1, Slices
<1>6. Rest = <<Current>> \o (Slice(i + 1, n) \o wire)
  <2> DEFINE r == Slice(i + 1, n)
             c == <<Current>>
  <2>1. Rest = (c \o r) \o wire
    BY <1>4 DEF Rest, Slice
  <2>2. c \in Seq(alt_u8) /\ r \in Seq(alt_u8) /\ wire \in Seq(alt_u8)
    BY <1>1, <1>3, <1>5
  <2> HIDE DEF r, c
  <2>3. (c \o r) \o wire = c \o (r \o wire)
    BY ONLY <2>2, ConcatAssociative, SMTT(30)
  <2>4. Rest = c \o (r \o wire)
    BY <2>1, <2>3
  <2> QED BY <2>4 DEF r, c
<1>7. /\ Rest # <<>> /\ Head(Rest) = Current /\ Tail(Rest) = Slice(i + 1, n) \o wire
  <2> DEFINE z == Slice(i + 1, n) \o wire
             c == Current
  <2>1. z \in Seq(alt_u8) /\ c \in alt_u8
    BY <1>1, <1>3, <1>5, ConcatProperties
  <2> HIDE DEF z, c
  <2>2. <<c>> \o z # <<>> /\ Head(<<c>> \o z) = c /\ Tail(<<c>> \o z) = z
    BY <2>1
  <2> QED BY <1>6, <2>2 DEF z, c
<1>8. Slice(svc.head, i + 1) = Slice(svc.head, i) \o <<Current>>
  <2> DEFINE h == svc.head
  <2> HIDE DEF buf, i, n, h
  <2>1. h + 1 \in 1..Len(buf) /\ i + 1 \in h + 1..Len(buf) /\ (i + 1) - 1 = i /\ i + 1 \in 1..Len(buf)
    BY <1>1, <1>2 DEF h
  <2>2. SubSeq(buf, h + 1, i + 1) = SubSeq(buf, h + 1, (i + 1) - 1) \o <<buf[i + 1]>>
    BY <1>1, <2>1, SubSeqRecursiveSecond
  <2> QED BY <2>1, <2>2 DEF Slice, Current, buf, i, h
<1> QED BY <1>3, <1>7, <1>8

-----------------------------------------------------------------------------
(* The steps of the host *)

\* A step of the host leaves the loop alone and adds its bytes at the end.
LEMMA HostFrame ==
  ASSUME StreamInv, NEW bytes \in Seq(alt_u8), HostSends(bytes)
  PROVE  /\ wire' \in Seq(alt_u8) /\ Rest' = Rest \o bytes /\ Rest \in Seq(alt_u8) /\ Gathered' = Gathered
         /\ Gathered \in Seq(alt_u8) /\ Listening' = Listening /\ LoopOK'
         /\ state' = state /\ svc' = svc /\ avm' = avm
<1>1. wire' = wire \o bytes /\ state' = state /\ svc' = svc /\ avm' = avm /\ BridgeTypeOK /\ LoopOK
  BY DEF HostSends, StreamInv
<1>2. wire \in Seq(alt_u8) /\ wire' \in Seq(alt_u8)
  BY <1>1, ConcatProperties DEF BridgeTypeOK
<1>3. Slice(svc.index, svc.read_len) \in Seq(alt_u8) /\ Rest \in Seq(alt_u8) /\ Gathered \in Seq(alt_u8)
  BY <1>1, Parts
<1>4. Rest' = Rest \o bytes
  <2> DEFINE s == Slice(svc.index, svc.read_len)
  <2>1. Rest = s \o wire /\ Rest' = s \o (wire \o bytes)
    BY <1>1 DEF Rest, Slice
  <2>2. s \in Seq(alt_u8)
    BY <1>3
  <2> HIDE DEF s
  <2>3. (s \o wire) \o bytes = s \o (wire \o bytes)
    BY <1>2, <2>2, ConcatAssociative, SMTT(30)
  <2> QED BY <2>1, <2>3
<1>5. Gathered' = Gathered /\ Listening' = Listening
  BY <1>1 DEF Gathered, Listening, Slice
<1>6. LoopOK'
  BY <1>1 DEF LoopOK
<1> QED BY <1>1, <1>2, <1>3, <1>4, <1>5, <1>6

\* The host selects a channel.
LEMMA HostSelectInv ==
  ASSUME StreamInv, NEW n \in {Avm, Pipe}, HostSelect(n)
  PROVE  StreamInv'
<1> DEFINE bytes == <<AST_CHANNEL_PREFIX>> \o <<n>>
<1>1. asking = <<>> /\ HostSends(bytes) /\ selected' = n
      /\ asked' = asked /\ asking' = asking /\ typed' = typed
  <2>1. Escaped(n) = <<n>>
    BY BridgeAssumption DEF Escaped
  <2> QED BY <2>1 DEF HostSelect
<1>2. n \in alt_u8 /\ AST_CHANNEL_PREFIX \in alt_u8 /\ n # AST_CHANNEL_PREFIX
  BY Bytes
<1>3. bytes \in Seq(alt_u8)
  BY <1>2, ConcatProperties
<1> HIDE DEF bytes
<1>4. /\ wire' \in Seq(alt_u8) /\ Rest' = Rest \o bytes /\ Rest \in Seq(alt_u8) /\ Gathered' = Gathered
      /\ Listening' = Listening /\ LoopOK' /\ state' = state /\ svc' = svc /\ avm' = avm
  BY <1>1, <1>3, HostFrame
<1>5. PICK m \in Flows, g \in Flows : Due(m) /\ Held(m) /\ Flow(m, Rest, g) /\ Ended(g)
  BY DEF StreamInv
<1> DEFINE g1 == FlowAt(AST_CHANNEL_PREFIX, g.avm, g.asked, g.typed)
           g2 == FlowAt(n, g.avm, g.asked, g.typed)
<1>6. Move(g, AST_CHANNEL_PREFIX, g1)
  <2>1. selected \in {Avm, Pipe, NULL} /\ g.place = selected /\ ~g.avm.inside_packet /\ ~g.avm.escape_prefix
    BY <1>1, <1>5 DEF StreamInv, Ended
  <2>2. g.place \notin {Sinking, AST_CHANNEL_PREFIX}
    BY <2>1, Bytes
  <2> QED BY <2>1, <2>2 DEF Move, PrefixMove
<1>7. Move(g1, n, g2)
  BY DEF Move, SelectMove, FlowAt
<1>8. Flow(m, Rest', g2)
  <2>1. Flow(m, Rest \o <<AST_CHANNEL_PREFIX>>, g1)
    <3> HIDE DEF g1
    <3> QED BY <1>2, <1>4, <1>5, <1>6, FlowNext
  <2>2. Rest \o <<AST_CHANNEL_PREFIX>> \in Seq(alt_u8)
    BY <1>2, <1>4, ConcatProperties
  <2> DEFINE r == Rest \o <<AST_CHANNEL_PREFIX>>
  <2> HIDE DEF r, g1, g2
  <2>3. Flow(m, r \o <<n>>, g2)
    BY <1>2, <1>7, <2>1, <2>2, FlowNext DEF r
  <2>4. r \o <<n>> = Rest \o bytes
    <3>1. <<AST_CHANNEL_PREFIX>> \o <<n>> = bytes
      BY DEF bytes
    <3>2. <<AST_CHANNEL_PREFIX>> \in Seq(alt_u8) /\ <<n>> \in Seq(alt_u8)
      BY <1>2
    <3>3. (Rest \o <<AST_CHANNEL_PREFIX>>) \o <<n>> = Rest \o (<<AST_CHANNEL_PREFIX>> \o <<n>>)
      BY <1>4, <3>2, ConcatAssociative, SMTT(30)
    <3> QED BY <3>1, <3>3 DEF r
  <2> QED BY <1>4, <2>3, <2>4
<1>9. g2 \in Flows /\ Ended(g2)'
  <2>1. g2 \in Flows
    BY <1>5 DEF Flows, FlowAt, Places
  <2>2. g2.place = n /\ g2.avm = g.avm /\ g2.asked = g.asked /\ g2.typed = g.typed
    BY DEF FlowAt
  <2> HIDE DEF g2
  <2>3. Ended(g2)'
    BY <1>1, <1>5, <2>2 DEF Ended
  <2> QED BY <2>1, <2>3
<1>10. Due(m)' /\ Held(m)'
  BY <1>1, <1>4, <1>5 DEF Due, Held, BusGets
<1>11. BridgeTypeOK'
  BY <1>1, <1>4 DEF StreamInv, BridgeTypeOK
<1> HIDE DEF g2
<1> QED BY <1>1, <1>4, <1>5, <1>8, <1>9, <1>10, <1>11 DEF StreamInv

\* The host types a byte.
LEMMA HostTypeInv ==
  ASSUME StreamInv, PlainPipe, NEW x \in PlainBytes, HostType(x)
  PROVE  StreamInv'
<1>1. asking = <<>> /\ selected = Pipe /\ HostSends(<<x>>) /\ selected' = selected
      /\ asked' = asked /\ asking' = asking /\ typed' = Append(typed, x)
  <2>1. PICK framing \in PipeFraming : HostSends(framing \o Escaped(x))
    BY DEF HostType
  <2>2. framing = <<>> /\ Escaped(x) = <<x>>
    BY DEF PlainPipe, PlainBytes, Escaped
  <2>3. <<>> \o <<x>> = <<x>>
    OBVIOUS
  <2> QED BY <2>1, <2>2, <2>3 DEF HostType
<1>2. x \in alt_u8 /\ <<x>> \in Seq(alt_u8)
  BY Bytes
<1>3. /\ wire' \in Seq(alt_u8) /\ Rest' = Rest \o <<x>> /\ Rest \in Seq(alt_u8) /\ Gathered' = Gathered
      /\ Gathered \in Seq(alt_u8) /\ Listening' = Listening /\ LoopOK'
      /\ state' = state /\ svc' = svc /\ avm' = avm
  BY <1>1, <1>2, HostFrame
<1>4. PICK m \in Flows, g \in Flows : Due(m) /\ Held(m) /\ Flow(m, Rest, g) /\ Ended(g)
  BY DEF StreamInv
<1> DEFINE m1 == TypeMore(m, x)
           g1 == TypeMore(g, x)
<1>5. /\ m1.place = m.place /\ m1.avm = m.avm /\ m1.asked = m.asked /\ m1.typed = Append(m.typed, x)
      /\ g1.place = g.place /\ g1.avm = g.avm /\ g1.asked = g.asked /\ g1.typed = Append(g.typed, x)
      /\ m1 \in Flows
  <2>1. Append(m.typed, x) \in Seq(PlainBytes)
    BY AppendProperties DEF Flows
  <2> QED BY <2>1 DEF TypeMore, FlowAt, Flows
<1>6. Flow(m1, Rest, g1)
  BY <1>3, <1>4, FlowTypeMore
<1>7. Move(g1, x, g)
  <2>1. g.typed = <<>> /\ g.place = Pipe
    BY <1>1, <1>4 DEF Ended
  <2>2. Append(<<>>, x) # <<>> /\ Head(Append(<<>>, x)) = x /\ Tail(Append(<<>>, x)) = <<>>
    OBVIOUS
  <2>3. g = FlowAt(Pipe, g.avm, g.asked, <<>>)
    BY <2>1 DEF Flows, FlowAt
  <2> HIDE DEF g1
  <2> QED BY <1>5, <2>1, <2>2, <2>3 DEF Move, PipeMove
<1> HIDE DEF m1, g1
<1>8. Flow(m1, Rest', g)
  BY <1>2, <1>3, <1>6, <1>7, FlowNext
<1>9. Due(m1)' /\ Ended(g)'
  BY <1>1, <1>3, <1>4, <1>5 DEF Due, Ended
<1>10. ASSUME NEW s \in Seq(alt_u8), BusGets(s, m) PROVE BusGets(s, m1)'
  <2> DEFINE f == FlowAt(Sinking, avm, asked, typed)
             h == FlowAt(Sinking, m.avm, m.asked, m.typed)
  <2>1. TypeMore(f, x) = FlowAt(Sinking, avm, asked, Append(typed, x))
    BY DEF FlowAt, TypeMore
  <2>2. TypeMore(h, x) = FlowAt(Sinking, m1.avm, m1.asked, m1.typed)
    BY <1>5 DEF FlowAt, TypeMore
  <2>3. Flow(f, s, h)
    BY <1>10 DEF BusGets
  <2> HIDE DEF f, h
  <2>4. Flow(TypeMore(f, x), s, TypeMore(h, x))
    BY <2>3, FlowTypeMore
  <2> QED BY <1>1, <1>3, <2>1, <2>2, <2>4 DEF BusGets
<1>11. Held(m1)'
  <2>1. svc.sink \in Seq(alt_u8)
    BY DEF StreamInv, BridgeTypeOK, SvcOK, SvcStates
  <2>2. svc.sink # <<>> => BusGets(svc.sink, m1)'
    BY <1>3, <1>4, <1>10, <2>1 DEF Held
  <2>3. svc.sink = <<>> /\ state.sink_channel # Pipe => BusGets(Gathered, m1)'
    BY <1>3, <1>4, <1>10 DEF Held
  <2>4. typed = Gathered \o m.typed => Append(typed, x) = Gathered \o Append(m.typed, x)
    <3> SUFFICES ASSUME typed = Gathered \o m.typed PROVE Append(typed, x) = Gathered \o Append(m.typed, x)
      OBVIOUS
    <3> DEFINE t == m.typed
               q == <<x>>
    <3>1. t \in Seq(alt_u8) /\ typed \in Seq(alt_u8) /\ q \in Seq(alt_u8) /\ Gathered \in Seq(alt_u8)
      BY <1>2, <1>3, Bytes DEF Flows, StreamInv, BridgeTypeOK
    <3>2. Append(typed, x) = typed \o q /\ Append(t, x) = t \o q
      BY <1>2, <3>1, AppendIsConcat
    <3> HIDE DEF t, q
    <3>3. (Gathered \o t) \o q = Gathered \o (t \o q)
      BY ONLY <3>1, ConcatAssociative, SMTT(30)
    <3>4. typed = Gathered \o t
      BY DEF t
    <3> QED BY <3>2, <3>3, <3>4 DEF t
  <2>5. svc.sink = <<>> /\ state.sink_channel = Pipe =>
          m1.avm = avm' /\ m1.asked = asked' /\ typed' = Gathered \o m1.typed
    BY <1>1, <1>3, <1>4, <1>5, <2>4 DEF Held
  <2>6. state.sink_channel = NULL => svc.sink = <<>> /\ Gathered = <<>>
    BY <1>4 DEF Held
  <2> QED BY <1>3, <2>2, <2>3, <2>5, <2>6, Zenon DEF Held, BusGets
<1>12. BridgeTypeOK'
  <2>1. Append(typed, x) \in Seq(PlainBytes)
    BY AppendProperties DEF StreamInv, BridgeTypeOK
  <2> QED BY <1>1, <1>3, <2>1 DEF StreamInv, BridgeTypeOK
<1> QED BY <1>1, <1>3, <1>4, <1>5, <1>8, <1>9, <1>11, <1>12 DEF StreamInv

\* The host begins a packet.
LEMMA HostAskInv ==
  ASSUME StreamInv, NEW p \in Packets, HostAsk(p)
  PROVE  StreamInv'
<1>1. asking = <<>> /\ selected = Avm /\ HostSends(<<AST_SOP>>) /\ selected' = selected
      /\ asked' = Append(asked, p) /\ asking' = p /\ typed' = typed
  BY DEF HostAsk
<1>2. AST_SOP \in alt_u8 /\ <<AST_SOP>> \in Seq(alt_u8) /\ AST_SOP # AST_CHANNEL_PREFIX /\ AST_SOP \in Framing
  BY Bytes DEF Framing
<1>3. /\ wire' \in Seq(alt_u8) /\ Rest' = Rest \o <<AST_SOP>> /\ Rest \in Seq(alt_u8) /\ Gathered' = Gathered
      /\ Gathered \in Seq(alt_u8) /\ Listening' = Listening /\ LoopOK'
      /\ state' = state /\ svc' = svc /\ avm' = avm
  BY <1>1, <1>2, HostFrame
<1>4. PICK m \in Flows, g \in Flows : Due(m) /\ Held(m) /\ Flow(m, Rest, g) /\ Ended(g)
  BY DEF StreamInv
<1> DEFINE m1 == AskMore(m, p)
           g1 == AskMore(g, p)
           g2 == FlowAt(Avm, AvmBegin(g.avm), <<p>>, <<>>)
<1>5. /\ m1.place = m.place /\ m1.avm = m.avm /\ m1.typed = m.typed /\ m1.asked = Append(m.asked, p)
      /\ g1.place = g.place /\ g1.avm = g.avm /\ g1.typed = g.typed /\ g1.asked = Append(g.asked, p)
      /\ m1 \in Flows /\ g1 \in Flows
  <2>1. Append(m.asked, p) \in Seq(Packets) /\ Append(g.asked, p) \in Seq(Packets)
    BY AppendProperties DEF Flows
  <2> QED BY <2>1 DEF AskMore, FlowAt, Flows
<1>6. Flow(m1, Rest, g1)
  BY <1>3, <1>4, FlowAskMore
<1>7. g.place = Avm /\ g.typed = <<>> /\ g.asked = <<>> /\ ~g.avm.inside_packet /\ ~g.avm.escape_prefix
  BY <1>1, <1>4 DEF Ended
<1>8. Move(g1, AST_SOP, g2)
  <2>1. Append(<<>>, p) = <<p>>
    OBVIOUS
  <2>2. AvmStep(g.avm, AST_SOP) = AvmBegin(g.avm)
    BY Bytes DEF AvmStep
  <2>3. ~Ends(g.avm, AST_SOP)
    BY <1>2 DEF Ends
  <2>4. AvmLegal(g1.avm, g1.asked, AST_SOP)
    BY <1>2, <1>5, <1>7, <2>3 DEF AvmLegal
  <2> HIDE DEF g1
  <2>5. BusMove(g1, AST_SOP, g2)
    BY <1>2, <1>5, <1>7, <2>1, <2>2, <2>3, <2>4 DEF BusMove
  <2> QED BY <2>5 DEF Move
<1> HIDE DEF m1, g1, g2
<1>9. Flow(m1, Rest', g2)
  BY <1>2, <1>3, <1>6, <1>8, FlowNext
<1>10. g2 \in Flows
  BY <1>2, <1>5, <1>8, MoveType
<1>11. Ended(g2)'
  <2>1. /\ g2.place = Avm /\ g2.typed = <<>> /\ g2.asked = <<p>> /\ g2.avm = AvmBegin(g.avm)
    BY DEF g2, FlowAt
  <2>2. g.avm \in AvmStates
    BY DEF Flows
  <2>3. /\ AvmBegin(g.avm).inside_packet /\ ~AvmBegin(g.avm).eop_prefix /\ ~AvmBegin(g.avm).escape_prefix
        /\ AvmBegin(g.avm).offset = 0 /\ AvmBegin(g.avm).buffer = <<>>
    BY <1>7, <2>2 DEF AvmBegin, AvmStates
  <2>4. p \in Seq(alt_u8) /\ p # <<>> /\ AVM_OFFSET_FULL \in Nat \ {0}
    BY BridgeAssumption
  <2>5. SubSeq(p, 0 + 1, Len(p)) = p /\ SubSeq(p, 1, 0) = <<>>
    BY <2>4, SubSeqFull, SubSeqEmpty
  <2>6. 0 \in 0..Len(p)-1
    BY <2>4, EmptySeq, LenProperties
  <2>7. Told(g2.avm, p, 0)
    BY <2>1, <2>3, <2>4, <2>5 DEF Told
  <2> QED BY <1>1, <2>1, <2>3, <2>4, <2>5, <2>6, <2>7 DEF Ended
<1>12. Due(m1)'
  BY <1>3, <1>4, <1>5 DEF Due
<1>13. ASSUME NEW s \in Seq(alt_u8), BusGets(s, m) PROVE BusGets(s, m1)'
  <2> DEFINE f == FlowAt(Sinking, avm, asked, typed)
             h == FlowAt(Sinking, m.avm, m.asked, m.typed)
  <2>1. AskMore(f, p) = FlowAt(Sinking, avm, Append(asked, p), typed)
    BY DEF FlowAt, AskMore
  <2>2. AskMore(h, p) = FlowAt(Sinking, m1.avm, m1.asked, m1.typed)
    BY <1>5 DEF FlowAt, AskMore
  <2>3. Flow(f, s, h)
    BY <1>13 DEF BusGets
  <2> HIDE DEF f, h
  <2>4. Flow(AskMore(f, p), s, AskMore(h, p))
    BY <2>3, FlowAskMore
  <2> QED BY <1>1, <1>3, <2>1, <2>2, <2>4 DEF BusGets
<1>14. Held(m1)'
  <2>1. svc.sink \in Seq(alt_u8)
    BY DEF StreamInv, BridgeTypeOK, SvcOK, SvcStates
  <2>2. svc.sink # <<>> => BusGets(svc.sink, m1)'
    BY <1>3, <1>4, <1>13, <2>1 DEF Held
  <2>3. svc.sink = <<>> /\ state.sink_channel # Pipe => BusGets(Gathered, m1)'
    BY <1>3, <1>4, <1>13 DEF Held
  <2>4. svc.sink = <<>> /\ state.sink_channel = Pipe =>
          m1.avm = avm' /\ m1.asked = asked' /\ typed' = Gathered \o m1.typed
    BY <1>1, <1>3, <1>4, <1>5 DEF Held
  <2>5. state.sink_channel = NULL => svc.sink = <<>> /\ Gathered = <<>>
    BY <1>4 DEF Held
  <2> QED BY <1>3, <2>2, <2>3, <2>4, <2>5, Zenon DEF Held, BusGets
<1>15. BridgeTypeOK'
  <2>1. Append(asked, p) \in Seq(Packets) /\ p \in Seq(alt_u8)
    BY AppendProperties, BridgeAssumption DEF StreamInv, BridgeTypeOK
  <2> QED BY <1>1, <1>3, <2>1 DEF StreamInv, BridgeTypeOK
<1> QED BY <1>1, <1>3, <1>5, <1>9, <1>10, <1>11, <1>12, <1>14, <1>15 DEF StreamInv

\* The header and the answer look at the bytes and at nothing else.
LEMMA SameHeader ==
  ASSUME NEW a, AvmOK(a), NEW c, AvmOK(c), c.offset = a.offset, c.buffer = a.buffer, NEW x \in alt_u8
  PROVE  /\ Header(c, x).offset = Header(a, x).offset /\ Header(c, x).buffer = Header(a, x).buffer
         /\ Answer(c, Header(c, x)) = Answer(a, Header(a, x))
<1> DEFINE b == Header(a, x)
           d == Header(c, x)
           full == a.offset >= AVM_OFFSET_FULL
           bytes == IF full THEN a.buffer ELSE Append(a.buffer, x)
           offset == IF full THEN a.offset
                     ELSE IF a.offset + 1 = AVM_OFFSET_FULL THEN Transaction(bytes[1])
                     ELSE a.offset + 1
<1>1. b.buffer = bytes /\ b.offset = offset
  BY HeaderForm
<1>2. d.buffer = bytes /\ d.offset = offset
  <2> DEFINE full1 == c.offset >= AVM_OFFSET_FULL
             bytes1 == IF full1 THEN c.buffer ELSE Append(c.buffer, x)
             offset1 == IF full1 THEN c.offset
                        ELSE IF c.offset + 1 = AVM_OFFSET_FULL THEN Transaction(bytes1[1])
                        ELSE c.offset + 1
  <2>1. d.buffer = bytes1 /\ d.offset = offset1
    BY HeaderForm
  <2>2. bytes1 = bytes /\ offset1 = offset
    OBVIOUS
  <2> HIDE DEF bytes1, offset1, bytes, offset, d
  <2> QED BY <2>1, <2>2
<1> HIDE DEF b, d, bytes, offset
<1>3. Answer(c, d) = Answer(a, b)
  <2>1. d.offset = b.offset /\ d.buffer = b.buffer
    BY <1>1, <1>2
  <2> QED BY <2>1, Zenon DEF Answer
<1> QED BY <1>1, <1>2, <1>3 DEF b, d

\* A byte of a packet that may need an escape, and that may be the last one.
LEMMA FlowEscaped ==
  ASSUME NEW f, NEW s \in Seq(alt_u8), NEW x \in alt_u8, NEW a, NEW q \in Seq(Packets), NEW t \in Seq(PlainBytes),
         AvmOK(a), a.inside_packet, ~a.escape_prefix, Flow(f, s, FlowAt(Avm, a, q, t)),
         a.eop_prefix => q # <<>> /\ Answer(a, Header(a, x)) = Reply(Head(q))
  PROVE  \E b : /\ Flow(f, s \o Escaped(x), FlowAt(Avm, b, IF a.eop_prefix THEN Tail(q) ELSE q, t))
                /\ AvmOK(b) /\ b.offset = Header(a, x).offset /\ b.buffer = Header(a, x).buffer
                /\ ~b.escape_prefix /\ ~b.eop_prefix /\ (b.inside_packet <=> ~a.eop_prefix)
<1>1. \A y \in alt_u8 : AST_NEEDS_ESCAPE(y) <=> y \in Framing \cup {AST_CHANNEL_PREFIX}
  BY Bytes DEF Framing
\* The last byte of what stands for x, with c the state before it.
<1>2. ASSUME NEW c, AvmOK(c), c.inside_packet, c.eop_prefix <=> a.eop_prefix,
             c.offset = a.offset, c.buffer = a.buffer,
             NEW y \in alt_u8, ~AST_NEEDS_ESCAPE(y), Meaning(c, y) = x,
             NEW r \in Seq(alt_u8), Flow(f, r, FlowAt(Avm, c, q, t))
      PROVE  \E b : /\ Flow(f, r \o <<y>>, FlowAt(Avm, b, IF a.eop_prefix THEN Tail(q) ELSE q, t))
                    /\ AvmOK(b) /\ b.offset = Header(a, x).offset /\ b.buffer = Header(a, x).buffer
                    /\ ~b.escape_prefix /\ ~b.eop_prefix /\ (b.inside_packet <=> ~a.eop_prefix)
  <2> DEFINE h == Header(c, x)
             b == IF a.eop_prefix THEN [h EXCEPT !.eop_prefix = FALSE, !.inside_packet = FALSE] ELSE h
             q1 == IF a.eop_prefix THEN Tail(q) ELSE q
             g == FlowAt(Avm, c, q, t)
             g1 == FlowAt(Avm, b, q1, t)
  <2>1. y \notin Framing /\ y # AST_CHANNEL_PREFIX
    BY <1>1, <1>2
  <2>2. AST_SOP \in Framing /\ AST_EOP_PREFIX \in Framing /\ AST_ESCAPE_PREFIX \in Framing
    BY DEF Framing
  <2>3. /\ AvmOK(h) /\ h.inside_packet = c.inside_packet /\ h.eop_prefix = c.eop_prefix /\ ~h.escape_prefix
        /\ h.offset = Header(a, x).offset /\ h.buffer = Header(a, x).buffer
        /\ Answer(c, h) = Answer(a, Header(a, x))
    <3>1. /\ AvmOK(h) /\ h.inside_packet = c.inside_packet /\ h.eop_prefix = c.eop_prefix /\ ~h.escape_prefix
      BY <1>2, HeaderForm
    <3>2. /\ h.offset = Header(a, x).offset /\ h.buffer = Header(a, x).buffer
          /\ Answer(c, h) = Answer(a, Header(a, x))
      BY <1>2, SameHeader
    <3> QED BY <3>1, <3>2
  <2>4. AvmStep(c, y) = b
    <3>1. y # AST_SOP /\ y # AST_EOP_PREFIX /\ y # AST_ESCAPE_PREFIX
      BY <2>1, <2>2
    <3> HIDE DEF h
    <3>2. CASE a.eop_prefix
      <4>1. AvmStep(c, y) = [Header(c, Meaning(c, y)) EXCEPT !.eop_prefix = FALSE, !.inside_packet = FALSE]
        BY <1>2, <3>1, <3>2 DEF AvmStep
      <4> QED BY <1>2, <3>2, <4>1 DEF h
    <3>3. CASE ~a.eop_prefix
      <4>1. AvmStep(c, y) = Header(c, Meaning(c, y))
        BY <1>2, <3>1, <3>3 DEF AvmStep
      <4> QED BY <1>2, <3>3, <4>1 DEF h
    <3> QED BY <3>2, <3>3
  <2>5. Ends(c, y) <=> a.eop_prefix
    BY <1>2, <2>1 DEF Ends
  <2>6. AvmLegal(c, q, y)
    BY <1>2, <2>1, <2>3, <2>5 DEF AvmLegal
  <2>7. /\ AvmOK(b) /\ b.offset = h.offset /\ b.buffer = h.buffer /\ ~b.escape_prefix /\ ~b.eop_prefix
        /\ b.inside_packet <=> ~a.eop_prefix
    <3> HIDE DEF h
    <3>1. CASE a.eop_prefix
      <4> DEFINE e == [h EXCEPT !.eop_prefix = FALSE, !.inside_packet = FALSE]
      <4>1. AvmOK(e) /\ e.offset = h.offset /\ e.buffer = h.buffer /\ ~e.escape_prefix /\ ~e.eop_prefix /\ ~e.inside_packet
        BY <2>3 DEF AvmOK, AvmStates
      <4>2. b = e
        BY <3>1
      <4> HIDE DEF e, b
      <4> QED BY <3>1, <4>1, <4>2
    <3>2. CASE ~a.eop_prefix
      <4>1. b = h
        BY <3>2
      <4> HIDE DEF b
      <4> QED BY <1>2, <2>3, <3>2, <4>1
    <3> QED BY <3>1, <3>2
  <2> HIDE DEF h, b, q1
  <2>8. Move(g, y, g1)
    <3>1. g.place = Avm /\ g.avm = c /\ g.asked = q /\ g.typed = t
      BY DEF FlowAt
    <3>2. (IF Ends(g.avm, y) THEN Tail(g.asked) ELSE g.asked) = q1
      BY <2>5, <3>1 DEF q1
    <3> HIDE DEF g
    <3>3. BusMove(g, y, g1)
      BY <2>1, <2>4, <2>6, <3>1, <3>2 DEF BusMove
    <3> QED BY <3>3 DEF Move
  <2> HIDE DEF g1
  <2>9. Flow(f, r \o <<y>>, g1)
    BY <1>2, <2>8, FlowNext
  <2> QED BY <2>3, <2>7, <2>9 DEF g1, q1
<1>3. CASE ~AST_NEEDS_ESCAPE(x)
  <2>1. Escaped(x) = <<x>>
    BY <1>3 DEF Escaped
  <2>2. Meaning(a, x) = x
    BY DEF Meaning
  <2> QED BY <1>2, <1>3, <2>1, <2>2
<1>4. CASE AST_NEEDS_ESCAPE(x)
  <2> DEFINE y == EscapeXor(x)
             c == [a EXCEPT !.escape_prefix = TRUE]
             r == s \o <<AST_ESCAPE_PREFIX>>
             g == FlowAt(Avm, a, q, t)
             g1 == FlowAt(Avm, c, q, t)
  <2>1. y \in alt_u8 /\ ~AST_NEEDS_ESCAPE(y) /\ EscapeXor(y) = x /\ AST_ESCAPE_PREFIX \in alt_u8
        /\ AST_ESCAPE_PREFIX # AST_CHANNEL_PREFIX
    BY <1>4, EscapeFacts, Bytes
  <2>2. /\ AvmOK(c) /\ c.inside_packet /\ (c.eop_prefix <=> a.eop_prefix) /\ c.escape_prefix
        /\ c.offset = a.offset /\ c.buffer = a.buffer
    BY DEF AvmOK, AvmStates
  <2>3. Escaped(x) = <<AST_ESCAPE_PREFIX>> \o <<y>>
    BY <1>4 DEF Escaped
  <2>4. Move(g, AST_ESCAPE_PREFIX, g1)
    <3>1. AvmStep(a, AST_ESCAPE_PREFIX) = c
      BY Bytes DEF AvmStep
    <3>2. ~Ends(a, AST_ESCAPE_PREFIX)
      BY DEF Ends, Framing
    <3>3. AvmLegal(a, q, AST_ESCAPE_PREFIX)
      BY <2>1, <3>2 DEF AvmLegal
    <3>4. g.place = Avm /\ g.avm = a /\ g.asked = q /\ g.typed = t
      BY DEF FlowAt
    <3> HIDE DEF g, c
    <3>5. BusMove(g, AST_ESCAPE_PREFIX, g1)
      BY <2>1, <3>1, <3>2, <3>3, <3>4 DEF BusMove
    <3> QED BY <3>5 DEF Move
  <2> HIDE DEF c, y
  <2>5. r \in Seq(alt_u8) /\ Flow(f, r, g1)
    <3>1. r \in Seq(alt_u8)
      BY <2>1, ConcatProperties
    <3> HIDE DEF g1, g
    <3> QED BY <2>1, <2>4, <3>1, FlowNext DEF g
  <2>6. Meaning(c, y) = x
    BY <2>1, <2>2 DEF Meaning
  <2>7. r \o <<y>> = s \o Escaped(x)
    <3>1. <<AST_ESCAPE_PREFIX>> \in Seq(alt_u8) /\ <<y>> \in Seq(alt_u8)
      BY <2>1
    <3> QED BY <2>3, <3>1, ConcatAssociative, SMTT(30)
  <2> HIDE DEF r, g1
  <2>8. \E b : /\ Flow(f, r \o <<y>>, FlowAt(Avm, b, IF a.eop_prefix THEN Tail(q) ELSE q, t))
              /\ AvmOK(b) /\ b.offset = Header(a, x).offset /\ b.buffer = Header(a, x).buffer
              /\ ~b.escape_prefix /\ ~b.eop_prefix /\ (b.inside_packet <=> ~a.eop_prefix)
    <3>1. Flow(f, r, FlowAt(Avm, c, q, t))
      BY <2>5 DEF g1
    <3> QED BY <1>2, <2>1, <2>2, <2>5, <2>6, <3>1
  <2> QED BY <2>7, <2>8
<1> QED BY <1>3, <1>4

\* The host sends a byte of a packet.
LEMMA HostTellInv ==
  ASSUME StreamInv, HostTell
  PROVE  StreamInv'
<1> DEFINE x == Head(asking)
           bytes == (IF Len(asking) = 1 THEN <<AST_EOP_PREFIX>> ELSE <<>>) \o Escaped(x)
<1>1. asking # <<>> /\ HostSends(bytes) /\ asking' = Tail(asking)
      /\ selected' = selected /\ asked' = asked /\ typed' = typed
  BY DEF HostTell
<1>2. asking \in Seq(alt_u8) /\ x \in alt_u8 /\ Tail(asking) \in Seq(alt_u8)
  <2>1. asking \in Seq(alt_u8)
    BY DEF StreamInv, BridgeTypeOK
  <2> QED BY <1>1, <2>1, HeadTailProperties
<1>3. Escaped(x) \in Seq(alt_u8) /\ AST_EOP_PREFIX \in alt_u8 /\ <<AST_EOP_PREFIX>> \in Seq(alt_u8)
  <2>1. AST_EOP_PREFIX \in alt_u8 /\ AST_ESCAPE_PREFIX \in alt_u8
    BY Bytes
  <2>2. EscapeXor(x) \in alt_u8
    BY <1>2, EscapeFacts
  <2> QED BY <1>2, <2>1, <2>2, ConcatProperties DEF Escaped
<1>4. bytes \in Seq(alt_u8)
  BY <1>3, ConcatProperties
<1> HIDE DEF bytes
<1>5. /\ wire' \in Seq(alt_u8) /\ Rest' = Rest \o bytes /\ Rest \in Seq(alt_u8) /\ Gathered' = Gathered
      /\ Listening' = Listening /\ LoopOK' /\ state' = state /\ svc' = svc /\ avm' = avm
  BY <1>1, <1>4, HostFrame
<1>6. PICK m \in Flows, g \in Flows : Due(m) /\ Held(m) /\ Flow(m, Rest, g) /\ Ended(g)
  BY DEF StreamInv
<1>7. /\ selected = Avm /\ g.avm.inside_packet /\ ~g.avm.eop_prefix /\ ~g.avm.escape_prefix
      /\ g.place = Avm /\ g.typed = <<>> /\ AvmOK(g.avm)
  BY <1>1, <1>6 DEF Ended, Flows
<1>7a. PICK p \in Packets : \E k \in 0..Len(p)-1 :
         g.asked = <<p>> /\ asking = SubSeq(p, k + 1, Len(p)) /\ Told(g.avm, p, k)
  BY <1>1, <1>6 DEF Ended
<1>8. PICK k \in 0..Len(p)-1 : g.asked = <<p>> /\ asking = SubSeq(p, k + 1, Len(p)) /\ Told(g.avm, p, k)
  BY <1>7a
<1> DEFINE l == Len(p)
<1>9. p \in Seq(alt_u8) /\ p # <<>> /\ l \in Nat \ {0} /\ k \in Nat /\ k + 1 \in 1..l /\ l \in (k + 1)..l
  <2>1. p \in Seq(alt_u8) /\ p # <<>>
    BY BridgeAssumption
  <2>2. l \in Nat \ {0}
    BY <2>1, EmptySeq, LenProperties
  <2>3. k \in 0..l-1
    BY <1>8
  <2> HIDE DEF l
  <2> QED BY <2>1, <2>2, <2>3
<1>10. x = p[k + 1] /\ Tail(asking) = SubSeq(p, (k + 1) + 1, l) /\ Len(asking) = l - k
  <2>1. Head(SubSeq(p, k + 1, l)) = p[k + 1] /\ Tail(SubSeq(p, k + 1, l)) = SubSeq(p, (k + 1) + 1, l)
    BY <1>9, HeadTailOfSubSeq
  <2>2. Len(asking) = l - k
    <3>1. \A i \in k + 1..l : p[i] \in alt_u8
      BY <1>9, ElementOfSeq
    <3>2. Len(SubSeq(p, k + 1, l)) = IF k + 1 <= l THEN l - (k + 1) + 1 ELSE 0
      BY <1>9, <3>1, SubSeqProperties
    <3> HIDE DEF l
    <3> QED BY <1>8, <1>9, <3>2 DEF l
  <2> QED BY <1>8, <2>1, <2>2
<1> HIDE DEF x, l
<1> DEFINE last == k + 1 = l
           e == IF last THEN <<AST_EOP_PREFIX>> ELSE <<>>
           a == IF last THEN [g.avm EXCEPT !.eop_prefix = TRUE] ELSE g.avm
           s == Rest \o e
<1>11. bytes = e \o Escaped(x)
  <2>1. (Len(asking) = 1) <=> last
    BY <1>9, <1>10
  <2> QED BY <2>1 DEF bytes
<1>12. /\ AvmOK(a) /\ a.inside_packet /\ ~a.escape_prefix /\ a.eop_prefix = last
       /\ a.offset = g.avm.offset /\ a.buffer = g.avm.buffer
  <2>1. CASE last
    <3> DEFINE c == [g.avm EXCEPT !.eop_prefix = TRUE]
    <3>1. AvmOK(c) /\ c.inside_packet /\ ~c.escape_prefix /\ c.eop_prefix /\ c.offset = g.avm.offset /\ c.buffer = g.avm.buffer
      BY <1>7 DEF AvmOK, AvmStates
    <3>2. c.eop_prefix = TRUE
      BY <1>7 DEF AvmOK, AvmStates
    <3>3. a = c
      BY <2>1
    <3> HIDE DEF a, c
    <3> QED BY <2>1, <3>1, <3>2, <3>3
  <2>2. CASE ~last
    <3>1. a = g.avm
      BY <2>2
    <3>2. g.avm.eop_prefix = FALSE
      BY <1>7 DEF AvmOK, AvmStates
    <3> HIDE DEF a
    <3> QED BY <1>7, <2>2, <3>1, <3>2
  <2> QED BY <2>1, <2>2
<1>13. s \in Seq(alt_u8) /\ e \in Seq(alt_u8)
  BY <1>3, <1>5, ConcatProperties
<1>14. Flow(m, s, FlowAt(Avm, a, <<p>>, <<>>))
  <2>1. CASE last
    <3> DEFINE h == FlowAt(Avm, a, <<p>>, <<>>)
    <3>1. AvmStep(g.avm, AST_EOP_PREFIX) = a
      BY <2>1, Bytes DEF AvmStep
    <3>2. ~Ends(g.avm, AST_EOP_PREFIX)
      BY DEF Ends, Framing
    <3>3. AvmLegal(g.avm, g.asked, AST_EOP_PREFIX) /\ AST_EOP_PREFIX # AST_CHANNEL_PREFIX
      BY <1>7, <3>2, Bytes DEF AvmLegal
    <3> HIDE DEF a
    <3>4. BusMove(g, AST_EOP_PREFIX, h)
      BY <1>7, <1>8, <3>1, <3>2, <3>3 DEF BusMove
    <3>5. Move(g, AST_EOP_PREFIX, h)
      BY <3>4 DEF Move
    <3> HIDE DEF h
    <3>6. Flow(m, Rest \o <<AST_EOP_PREFIX>>, h)
      BY <1>3, <1>5, <1>6, <3>5, FlowNext
    <3>7. s = Rest \o <<AST_EOP_PREFIX>>
      BY <2>1
    <3> HIDE DEF s
    <3> QED BY <3>6, <3>7 DEF h
  <2>2. CASE ~last
    <3>1. s = Rest
      BY <1>5, <2>2, ConcatEmptySeq
    <3>2. g = FlowAt(Avm, g.avm, <<p>>, <<>>)
      BY <1>7, <1>8 DEF Flows, FlowAt
    <3>3. a = g.avm
      BY <2>2
    <3> HIDE DEF a, s
    <3> QED BY <1>6, <3>1, <3>2, <3>3
  <2> QED BY <2>1, <2>2
<1>15. Told(a, p, k)
  BY <1>8, <1>12 DEF Told
<1>16. last => Answer(a, Header(a, x)) = Reply(p)
  <2> SUFFICES ASSUME last PROVE Answer(a, Header(a, x)) = Reply(p)
    OBVIOUS
  <2>1. k = l - 1 /\ k + 1 = l
    BY <1>9
  <2> HIDE DEF a, last
  <2>2. Told(a, p, Len(p) - 1) /\ x = p[Len(p)]
    BY <1>10, <1>15, <2>1 DEF l
  <2>3. AvmOK(a) /\ p \in Seq(alt_u8) /\ p # <<>>
    BY <1>9, <1>12
  <2> QED BY <2>2, <2>3, AnswerReply
<1> HIDE DEF a, s, e, last
<1>17. <<p>> \in Seq(Packets) /\ <<>> \in Seq(PlainBytes) /\ <<p>> # <<>> /\ Head(<<p>>) = p /\ Tail(<<p>>) = <<>>
  OBVIOUS
<1>18. PICK b : /\ Flow(m, s \o Escaped(x), FlowAt(Avm, b, IF a.eop_prefix THEN Tail(<<p>>) ELSE <<p>>, <<>>))
                /\ AvmOK(b) /\ b.offset = Header(a, x).offset /\ b.buffer = Header(a, x).buffer
                /\ ~b.escape_prefix /\ ~b.eop_prefix /\ (b.inside_packet <=> ~a.eop_prefix)
  <2> DEFINE q0 == <<p>>
             t0 == <<>>
  <2>1. q0 \in Seq(Packets) /\ t0 \in Seq(PlainBytes)
    BY <1>17
  <2>2. a.eop_prefix => q0 # <<>> /\ Answer(a, Header(a, x)) = Reply(Head(q0))
    BY <1>12, <1>16, <1>17
  <2>3. Flow(m, s, FlowAt(Avm, a, q0, t0))
    BY <1>14
  <2> HIDE DEF q0, t0
  <2>4. \E b : /\ Flow(m, s \o Escaped(x), FlowAt(Avm, b, IF a.eop_prefix THEN Tail(q0) ELSE q0, t0))
              /\ AvmOK(b) /\ b.offset = Header(a, x).offset /\ b.buffer = Header(a, x).buffer
              /\ ~b.escape_prefix /\ ~b.eop_prefix /\ (b.inside_packet <=> ~a.eop_prefix)
    BY <1>2, <1>12, <1>13, <2>1, <2>2, <2>3, FlowEscaped
  <2> QED BY <2>4 DEF q0, t0
<1> DEFINE q == IF last THEN <<>> ELSE <<p>>
           g2 == FlowAt(Avm, b, q, <<>>)
<1>19. Flow(m, Rest', g2)
  <2>1. s \o Escaped(x) = Rest'
    <3> DEFINE z == Escaped(x)
               r == Rest
    <3>1. z \in Seq(alt_u8) /\ r \in Seq(alt_u8) /\ e \in Seq(alt_u8)
      BY <1>3, <1>5, <1>13
    <3>2. bytes = e \o z /\ s = r \o e /\ Rest' = r \o bytes
      BY <1>5, <1>11 DEF s
    <3> HIDE DEF z, r
    <3>3. (r \o e) \o z = r \o (e \o z)
      BY ONLY <3>1, ConcatAssociative, SMTT(30)
    <3>4. s \o z = Rest'
      BY <3>2, <3>3
    <3> QED BY <3>4 DEF z
  <2>2. (IF a.eop_prefix THEN Tail(<<p>>) ELSE <<p>>) = q
    BY <1>12, <1>17
  <2> QED BY <1>18, <2>1, <2>2
<1>20. Told(b, p, k + 1)
  <2>1. Told(Header(a, x), p, k + 1)
    BY <1>8, <1>9, <1>10, <1>12, <1>15, HeaderTold
  <2> QED BY <1>18, <2>1 DEF Told
<1>21. g2 \in Flows
  <2>1. b \in AvmStates /\ q \in Seq(Packets) /\ <<>> \in Seq(PlainBytes)
    BY <1>17, <1>18 DEF AvmOK
  <2> HIDE DEF q
  <2> QED BY <1>18, <2>1 DEF Flows, FlowAt, Places
<1>22. /\ g2.place = Avm /\ g2.typed = <<>> /\ g2.asked = q /\ g2.avm = b
  BY DEF FlowAt
<1> HIDE DEF g2
<1>23. asking' = SubSeq(p, (k + 1) + 1, l)
  BY <1>1, <1>10
<1>24. Ended(g2)'
  <2>1. CASE last
    <3>1. asking' = <<>>
      <4>1. (k + 1) + 1 > l
        BY <1>9, <2>1 DEF last
      <4> QED BY <1>9, <1>23, <4>1, SubSeqEmpty
    <3> QED BY <1>1, <1>7, <1>12, <1>18, <1>22, <2>1, <3>1 DEF Ended
  <2>2. CASE ~last
    <3>1. k + 1 \in 0..l-1
      BY <1>9, <2>2 DEF last
    <3>2. g2.asked = <<p>>
      BY <1>22, <2>2
    <3>3. \E p1 \in Packets : \E k1 \in 0..Len(p1)-1 :
            g2.asked = <<p1>> /\ asking' = SubSeq(p1, k1 + 1, Len(p1)) /\ Told(g2.avm, p1, k1)
      BY <1>20, <1>22, <1>23, <3>1, <3>2 DEF l
    <3>4. asking' # <<>>
      <4>1. Len(asking') = l - k - 1
        BY <1>1, <1>2, <1>10, HeadTailProperties
      <4>2. Len(asking') # 0
        BY <1>9, <2>2, <4>1 DEF last
      <4> QED BY <4>2, EmptySeq
    <3> QED BY <1>1, <1>7, <1>12, <1>18, <1>22, <2>2, <3>3, <3>4 DEF Ended
  <2> QED BY <2>1, <2>2
<1>25. Due(m)' /\ Held(m)'
  BY <1>1, <1>5, <1>6 DEF Due, Held, BusGets
<1>26. BridgeTypeOK'
  BY <1>1, <1>2, <1>5 DEF StreamInv, BridgeTypeOK
<1> QED BY <1>1, <1>5, <1>6, <1>19, <1>21, <1>24, <1>25, <1>26 DEF StreamInv

-----------------------------------------------------------------------------
(* The steps of the service *)

\* A step of the service leaves the end of the flow alone.
LEMMA EndedFrame ==
  ASSUME NEW g, Ended(g), UNCHANGED <<selected, asking>>
  PROVE  Ended(g)'
BY DEF Ended

\* A piece of what is on the wire is read.
LEMMA ServiceReadInv ==
  ASSUME StreamInv, ServiceRead
  PROVE  StreamInv'
<1> PICK n \in 1..Len(wire) :
      /\ svc' = [pc |-> "loop", buffer |-> SubSeq(wire, 1, n), read_len |-> n,
                 index |-> 0, head |-> 0, sink |-> <<>>]
      /\ wire' = SubSeq(wire, n + 1, Len(wire))
  BY DEF ServiceRead
<1>1. /\ svc.pc = "read" /\ svc.sink = <<>> /\ state' = state /\ avm' = avm
      /\ asked' = asked /\ typed' = typed /\ asking' = asking /\ selected' = selected
      /\ BridgeTypeOK /\ LoopOK
  BY DEF ServiceRead, Looping, StreamInv
<1>2. wire \in Seq(alt_u8) /\ Len(wire) \in Nat /\ n \in Nat \ {0} /\ n \in 0..Len(wire)
  <2>1. wire \in Seq(alt_u8) /\ Len(wire) \in Nat
    BY <1>1, LenProperties DEF BridgeTypeOK
  <2> QED BY <2>1
<1> DEFINE b == SubSeq(wire, 1, n)
<1>3. svc'.buffer = b /\ svc'.read_len = n /\ svc'.index = 0 /\ svc'.head = 0 /\ svc'.sink = <<>> /\ svc'.pc = "loop"
  OBVIOUS
<1>4. b \in Seq(alt_u8) /\ Len(b) = n /\ wire' \in Seq(alt_u8)
  <2>1. \A i \in 1..n : wire[i] \in alt_u8
    <3>1. \A i \in 1..n : i \in 1..Len(wire)
      BY <1>2
    <3> QED BY <1>2, <3>1, ElementOfSeq
  <2>2. SubSeq(wire, 1, n) \in Seq(alt_u8) /\ Len(SubSeq(wire, 1, n)) = n
    <3>1. 1 \in Int /\ n \in Int /\ 1 <= n /\ n - 1 + 1 = n
      BY <1>2
    <3> QED BY <2>1, <3>1, SubSeqProperties
  <2>3. \A i \in n + 1..Len(wire) : wire[i] \in alt_u8
    <3>1. \A i \in n + 1..Len(wire) : i \in 1..Len(wire)
      BY <1>2
    <3> QED BY <1>2, <3>1, ElementOfSeq
  <2>4. SubSeq(wire, n + 1, Len(wire)) \in Seq(alt_u8)
    <3>1. n + 1 \in Int /\ Len(wire) \in Int
      BY <1>2
    <3> QED BY <2>3, <3>1, SubSeqProperties
  <2> QED BY <2>2, <2>4
<1>5. Rest' = wire
  <2>1. Rest' = SubSeq(b, 1, n) \o wire'
    <3>1. Rest' = SubSeq(svc'.buffer, svc'.index + 1, svc'.read_len) \o wire'
      BY DEF Rest, Slice
    <3> QED BY <1>3, <3>1
  <2>2. SubSeq(b, 1, n) = b
    <3> HIDE DEF b
    <3> QED BY <1>4, SubSeqFull
  <2>3. SubSeq(wire, 1, n) \o SubSeq(wire, n + 1, Len(wire)) = SubSeq(wire, 1, Len(wire))
    <3>1. 1 \in 1..Len(wire) + 1 /\ n \in 1 - 1..Len(wire) /\ Len(wire) \in n..Len(wire)
      BY <1>2
    <3> QED BY <1>2, <3>1, ConcatAdjacentSubSeq
  <2> QED BY <1>2, <2>1, <2>2, <2>3, SubSeqFull
<1>6. Rest = wire /\ Gathered = <<>>
  <2>1. svc.read_len = 0 /\ svc.index = 0 /\ svc.head = 0
    BY <1>1 DEF LoopOK, BridgeTypeOK, SvcOK, SvcStates
  <2>2. Slice(svc.index, svc.read_len) = <<>>
    BY <1>1, <2>1, Slices
  <2>3. Gathered = <<>>
    BY <1>1, <2>1, Parts
  <2> QED BY <1>2, <2>2, <2>3, ConcatEmptySeq DEF Rest
<1>7. BridgeTypeOK'
  <2>1. svc' \in SvcStates
    BY <1>2, <1>4 DEF SvcStates
  <2>2. SvcOK(svc')
    BY <1>2, <1>3, <1>4, <2>1 DEF SvcOK
  <2> QED BY <1>1, <1>4, <2>2 DEF BridgeTypeOK
<1>8. LoopOK'
  BY <1>2, <1>3 DEF LoopOK
<1>9. Gathered' = <<>>
  <2>1. Slice(0, 0)' = <<>>
    BY SubSeqEmpty DEF Slice
  <2> QED BY <1>3, <2>1 DEF Gathered
<1>10. PICK m \in Flows, g \in Flows : Due(m) /\ Held(m) /\ Flow(m, Rest, g) /\ Ended(g)
  BY DEF StreamInv
<1>11. Due(m)'
  BY <1>1, <1>10 DEF Due, Listening
<1>12. Held(m)'
  BY <1>1, <1>3, <1>6, <1>9, <1>10 DEF Held, BusGets
<1>13. Ended(g)'
  BY <1>1, <1>10, EndedFrame
<1> QED BY <1>1, <1>5, <1>6, <1>7, <1>8, <1>10, <1>11, <1>12, <1>13 DEF StreamInv

\* The next byte of the buffer leads from the flow that is due to the next one.
LEMMA ServiceMove ==
  ASSUME StreamInv, svc.index < svc.read_len
  PROVE  \E m \in Flows, h \in Flows, g \in Flows :
           Due(m) /\ Held(m) /\ Move(m, Current, h) /\ Flow(h, Tail(Rest), g) /\ Ended(g)
<1>1. BridgeTypeOK /\ LoopOK
  BY DEF StreamInv
<1>2. PICK m \in Flows, g \in Flows : Due(m) /\ Held(m) /\ Flow(m, Rest, g) /\ Ended(g)
  BY DEF StreamInv
<1>3. Rest # <<>> /\ Head(Rest) = Current /\ Rest \in Seq(alt_u8)
  BY <1>1, NextByte, Parts
<1>4. PICK h \in Flows : Move(m, Head(Rest), h) /\ Flow(h, Tail(Rest), g)
  BY <1>2, <1>3, FlowFirst
<1> QED BY <1>2, <1>3, <1>4

\* The loop goes on to the next byte.
LEMMA Advance ==
  ASSUME StreamInv, svc.index < svc.read_len, svc.sink = <<>>, svc.pc = "loop", svc' = Next1(svc),
         UNCHANGED <<wire, selected, asked, asking, typed, avm>>
  PROVE  /\ Rest' = Tail(Rest) /\ SvcOK(svc)' /\ svc'.sink = <<>>
         /\ svc'.index = svc.index + 1 /\ svc'.head = svc.head /\ svc'.buffer = svc.buffer
         /\ svc.head <= svc.index /\ svc.index \in Nat /\ svc.head \in Nat
         /\ ~state.channel_prefix => Gathered = Slice(svc.head, svc.index)
         /\ Slice(svc.head, svc.index)' = Slice(svc.head, svc.index) \o <<Current>>
         /\ Slice(svc.head, svc.index - 1)' = Slice(svc.head, svc.index)
         /\ ~state'.channel_prefix \/ Current = AST_CHANNEL_PREFIX => LoopOK'
<1>1. BridgeTypeOK /\ LoopOK
  BY DEF StreamInv
<1>2. /\ svc'.sink = <<>> /\ svc'.index = svc.index + 1 /\ svc'.head = svc.head /\ svc'.buffer = svc.buffer
      /\ svc'.read_len = svc.read_len /\ svc'.pc = "loop" /\ svc' \in SvcStates
      /\ svc.index \in Nat /\ svc.head \in Nat /\ svc.read_len \in Nat /\ svc.head <= svc.index
  <2>1. svc \in SvcStates /\ svc.head <= svc.index
    BY <1>1 DEF BridgeTypeOK, SvcOK, LoopOK
  <2>2. svc.index \in Nat /\ svc.head \in Nat /\ svc.read_len \in Nat
    BY <2>1 DEF SvcStates
  <2>3. svc' = [svc EXCEPT !.index = svc.index + 1]
    BY DEF Next1
  <2>4. svc' \in SvcStates
    BY <2>1, <2>2, <2>3 DEF SvcStates
  <2> QED BY <2>1, <2>2, <2>3, <2>4 DEF SvcStates
<1>3. SvcOK(svc)'
  BY <1>1, <1>2 DEF BridgeTypeOK, SvcOK
<1>4. Rest' = Tail(Rest)
  BY <1>1, <1>2, NextByte DEF Rest, Slice
<1>5. Slice(svc.head, svc.index)' = Slice(svc.head, svc.index) \o <<Current>>
  <2>1. Slice(svc.head, svc.index)' = Slice(svc.head, svc.index + 1)
    BY <1>2 DEF Slice
  <2> QED BY <1>1, <2>1, NextByte
<1>6. Slice(svc.head, svc.index - 1)' = Slice(svc.head, svc.index)
  <2>1. (svc.index + 1) - 1 = svc.index
    BY <1>2
  <2> QED BY <1>2, <2>1 DEF Slice
<1>7. ~state'.channel_prefix \/ Current = AST_CHANNEL_PREFIX => LoopOK'
  BY <1>1, <1>2 DEF LoopOK, Current
<1> QED BY <1>2, <1>3, <1>4, <1>5, <1>6, <1>7 DEF Gathered

\* What bus access has yet to do of the bytes that the loop has looked at.
LEMMA SinkMove ==
  ASSUME NEW m \in Flows, NEW b \in alt_u8, NEW h \in Flows, BusMove(m, b, h), NEW s \in Seq(alt_u8), BusGets(s, m),
         UNCHANGED <<asked, typed, avm>>
  PROVE  BusGets(s \o <<b>>, h)'
<1> DEFINE f == FlowAt(Sinking, avm, asked, typed)
           f0 == FlowAt(Sinking, m.avm, m.asked, m.typed)
           f1 == FlowAt(Sinking, h.avm, h.asked, h.typed)
<1>1. f0.place = Sinking /\ f0.avm = m.avm /\ f0.asked = m.asked /\ f0.typed = m.typed
  BY DEF FlowAt
<1>2. /\ h.avm = AvmStep(m.avm, b) /\ h.asked = (IF Ends(m.avm, b) THEN Tail(m.asked) ELSE m.asked)
      /\ h.typed = m.typed
  BY DEF BusMove, FlowAt
<1>3. Flow(f, s, f0)
  BY DEF BusGets
<1> HIDE DEF f, f0
<1>4. BusMove(f0, b, f1)
  BY <1>1, <1>2 DEF BusMove
<1> HIDE DEF f1
<1>5. Flow(f, s \o <<b>>, f1)
  BY <1>3, <1>4, FlowNext DEF Move
<1> QED BY <1>5 DEF BusGets, f, f1

\* Only the prefix of an escape is waited upon.
LEMMA AvmEscape ==
  ASSUME NEW a, AvmOK(a), NEW b \in alt_u8, a.escape_prefix => ~AST_NEEDS_ESCAPE(b)
  PROVE  AvmStep(a, b).escape_prefix <=> b = AST_ESCAPE_PREFIX
<1> DEFINE x == Meaning(a, b)
<1>1. a \in AvmStates
  BY DEF AvmOK
<1>2. x \in alt_u8
  BY EscapeFacts DEF Meaning
<1> DEFINE h == Header(a, x)
<1>3. AvmOK(h) /\ ~h.escape_prefix
  BY <1>2, HeaderForm
<1>4. h \in AvmStates
  BY <1>3 DEF AvmOK
<1> HIDE DEF h
<1>5. b \in {AST_SOP, AST_EOP_PREFIX} => ~a.escape_prefix
  BY Bytes
<1>6. CASE b = AST_SOP
  <2>1. AvmStep(a, b) = AvmBegin(a) /\ b # AST_ESCAPE_PREFIX
    BY <1>6, Bytes DEF AvmStep
  <2>2. AvmBegin(a).escape_prefix = a.escape_prefix
    BY <1>1 DEF AvmBegin, AvmStates
  <2> QED BY <1>5, <1>6, <2>1, <2>2
<1>7. CASE b = AST_EOP_PREFIX
  <2>1. AvmStep(a, b) = [a EXCEPT !.eop_prefix = TRUE] /\ b # AST_ESCAPE_PREFIX
    BY <1>7, Bytes DEF AvmStep
  <2>2. [a EXCEPT !.eop_prefix = TRUE].escape_prefix = a.escape_prefix
    BY <1>1 DEF AvmStates
  <2> QED BY <1>5, <1>7, <2>1, <2>2
<1>8. CASE b = AST_ESCAPE_PREFIX
  <2>1. AvmStep(a, b) = [a EXCEPT !.escape_prefix = TRUE]
    BY <1>8, Bytes DEF AvmStep
  <2>2. [a EXCEPT !.escape_prefix = TRUE].escape_prefix
    BY <1>1 DEF AvmStates
  <2> QED BY <1>8, <2>1, <2>2
<1>9. CASE b \notin {AST_SOP, AST_EOP_PREFIX, AST_ESCAPE_PREFIX}
  <2>1. AvmStep(a, b) = IF ~a.inside_packet THEN [a EXCEPT !.escape_prefix = FALSE]
                        ELSE IF ~a.eop_prefix THEN h
                        ELSE [h EXCEPT !.eop_prefix = FALSE, !.inside_packet = FALSE]
    BY <1>9 DEF AvmStep, h
  <2>2. ~[a EXCEPT !.escape_prefix = FALSE].escape_prefix
    BY <1>1 DEF AvmStates
  <2>3. ~[h EXCEPT !.eop_prefix = FALSE, !.inside_packet = FALSE].escape_prefix
    BY <1>3, <1>4 DEF AvmStates
  <2> QED BY <1>3, <1>9, <2>1, <2>2, <2>3
<1> QED BY <1>6, <1>7, <1>8, <1>9

\* A prefix is remembered.
LEMMA ServicePrefixInv ==
  ASSUME StreamInv, ServicePrefix
  PROVE  StreamInv'
<1> DEFINE b == Current
<1>1. /\ svc.index < svc.read_len /\ svc.sink = <<>> /\ svc.pc = "loop"
      /\ UNCHANGED <<wire, selected, asked, asking, typed, avm>>
      /\ BridgeTypeOK /\ LoopOK /\ state \in States /\ selected \in {Avm, Pipe, NULL}
  BY DEF ServicePrefix, Looping, StreamInv, BridgeTypeOK
<1>2. PICK m \in Flows, h \in Flows, g \in Flows :
        Due(m) /\ Held(m) /\ Move(m, b, h) /\ Flow(h, Tail(Rest), g) /\ Ended(g)
  BY <1>1, ServiceMove
<1>3. b \in alt_u8 /\ Slice(svc.head, svc.index) \in Seq(alt_u8)
  <2>1. svc.index \in Nat /\ svc.head \in Nat /\ svc.index <= svc.read_len
    BY <1>1 DEF BridgeTypeOK, SvcOK, SvcStates, LoopOK
  <2>2. b \in alt_u8
    BY <1>1, NextByte
  <2>3. Slice(svc.head, svc.index) \in Seq(alt_u8)
    BY <1>1, <2>1, Slices
  <2> QED BY <2>2, <2>3
<1>4. m.place = IF state.channel_prefix THEN AST_CHANNEL_PREFIX ELSE state.sink_channel
  BY <1>2 DEF Due, Listening
<1>5. state.sink_channel \in {Avm, Pipe, NULL}
  BY <1>1 DEF States
<1>6. CASE b = AST_CHANNEL_PREFIX
  <2>1. svc' = Next1(svc) /\ state' = [state EXCEPT !.channel_prefix = TRUE]
    BY <1>6, Bytes DEF ServicePrefix
  <2>2. /\ m.place \notin {Sinking, AST_CHANNEL_PREFIX} /\ ~m.avm.inside_packet /\ ~m.avm.escape_prefix
        /\ h = FlowAt(AST_CHANNEL_PREFIX, m.avm, m.asked, m.typed)
    <3>1. ~BusMove(m, b, h)
      BY <1>4, <1>5, <1>6, Bytes DEF BusMove
    <3>2. ~SelectMove(m, b, h) /\ ~PipeMove(m, b, h)
      BY <1>6, Bytes DEF SelectMove, PipeMove
    <3> QED BY <1>2, <3>1, <3>2 DEF Move, PrefixMove
  <2>3. ~state.channel_prefix /\ state'.channel_prefix /\ state'.escape_prefix = state.escape_prefix
        /\ state'.sink_channel = state.sink_channel /\ state' \in States
    BY <1>1, <1>4, <2>1, <2>2 DEF States
  <2>4. h.place = AST_CHANNEL_PREFIX /\ h.avm = m.avm /\ h.asked = m.asked /\ h.typed = m.typed
    BY <2>2 DEF FlowAt
  <2>5. /\ Rest' = Tail(Rest) /\ SvcOK(svc)' /\ svc'.sink = <<>> /\ LoopOK' /\ Gathered' = Gathered
    <3>1. /\ Rest' = Tail(Rest) /\ SvcOK(svc)' /\ svc'.sink = <<>> /\ LoopOK'
          /\ svc'.index = svc.index + 1 /\ svc'.head = svc.head
          /\ svc.head <= svc.index /\ svc.index \in Nat /\ svc.head \in Nat
          /\ Gathered = Slice(svc.head, svc.index)
          /\ Slice(svc.head, svc.index - 1)' = Slice(svc.head, svc.index)
      BY <1>1, <1>6, <2>1, <2>3, Advance
    <3>2. (svc.index > svc.head)'
      BY <3>1
    <3> QED BY <2>3, <3>1, <3>2 DEF Gathered
  <2>6. Due(h)'
    BY <1>2, <2>2, <2>3, <2>4 DEF Due, Listening
  <2>7. Held(h)'
    BY <1>1, <1>2, <2>3, <2>4, <2>5 DEF Held, BusGets
  <2>8. Ended(g)'
    BY <1>1, <1>2, EndedFrame
  <2>9. BridgeTypeOK'
    BY <1>1, <2>3, <2>5 DEF BridgeTypeOK
  <2> QED BY <1>1, <1>2, <2>5, <2>6, <2>7, <2>8, <2>9 DEF StreamInv
<1>7. CASE b = AST_ESCAPE_PREFIX
  <2>1. BusMove(m, b, h) /\ m.place = Avm
    <3>1. ~PrefixMove(m, b, h) /\ ~SelectMove(m, b, h) /\ ~PipeMove(m, b, h)
      BY <1>7, Bytes DEF PrefixMove, SelectMove, PipeMove
    <3>2. BusMove(m, b, h)
      BY <1>2, <3>1 DEF Move
    <3>3. m.place # Sinking
      BY <1>4, <1>5, Bytes
    <3> QED BY <3>2, <3>3 DEF BusMove
  <2>2. ~state.channel_prefix /\ state.sink_channel = Avm
    BY <1>4, <2>1, Bytes
  <2>3. ~Plain
    BY <2>2, Bytes DEF Plain
  <2>4. svc' = Next1(svc) /\ state' = [state EXCEPT !.escape_prefix = TRUE]
    BY <1>7, <2>3, Bytes DEF ServicePrefix
  <2>5. ~state'.channel_prefix /\ state'.escape_prefix /\ state'.sink_channel = Avm /\ state' \in States
    BY <1>1, <2>2, <2>4 DEF States
  <2>6. /\ Rest' = Tail(Rest) /\ SvcOK(svc)' /\ svc'.sink = <<>> /\ LoopOK'
        /\ Gathered = Slice(svc.head, svc.index) /\ Gathered' = Gathered \o <<b>>
    <3>1. /\ Rest' = Tail(Rest) /\ SvcOK(svc)' /\ svc'.sink = <<>> /\ LoopOK'
          /\ Gathered = Slice(svc.head, svc.index)
          /\ Slice(svc.head, svc.index)' = Slice(svc.head, svc.index) \o <<b>>
      BY <1>1, <2>2, <2>4, <2>5, Advance
    <3> QED BY <2>5, <3>1 DEF Gathered
  <2>7. h.place = Avm /\ h.avm = AvmStep(m.avm, b)
    BY <2>1 DEF BusMove, FlowAt
  <2>8. h.avm.escape_prefix
    <3>1. AvmOK(m.avm) /\ (m.avm.escape_prefix => ~AST_NEEDS_ESCAPE(b))
      BY <2>1 DEF BusMove, AvmLegal, Flows
    <3> QED BY <1>3, <1>7, <2>7, <3>1, AvmEscape
  <2>9. Due(h)'
    BY <2>5, <2>7, <2>8 DEF Due, Listening
  <2>10. Held(h)'
    <3>1. BusGets(Gathered, m)
      BY <1>1, <1>2, <2>2, Bytes DEF Held
    <3>2. PICK s \in Seq(alt_u8), c \in alt_u8 : s = Gathered /\ c = b
      BY <1>3, <2>6
    <3>3. BusGets(s \o <<c>>, h)'
      BY <1>1, <2>1, <3>1, <3>2, SinkMove
    <3>4. Gathered' = s \o <<c>>
      BY <2>6, <3>2
    <3>5. BusGets(Gathered, h)'
      BY <3>3, <3>4 DEF BusGets
    <3>6. Avm # Pipe /\ Avm # NULL
      BY Bytes
    <3> QED BY <2>5, <2>6, <3>5, <3>6 DEF Held
  <2>11. Ended(g)'
    BY <1>1, <1>2, EndedFrame
  <2>12. BridgeTypeOK'
    BY <1>1, <2>5, <2>6 DEF BridgeTypeOK
  <2> QED BY <1>1, <1>2, <2>6, <2>9, <2>10, <2>11, <2>12 DEF StreamInv
<1> QED BY <1>6, <1>7 DEF ServicePrefix

\* What stands for itself is not replaced.
LEMMA Replaced ==
  ASSUME svc \in SvcStates, NEW i \in 1..Len(svc.buffer)
  PROVE  [svc EXCEPT !.buffer[i] = svc.buffer[i]] = svc
<1> DEFINE w == svc.buffer
<1>1. w \in Seq(alt_u8)
  BY DEF SvcStates
<1>2. [w EXCEPT ![i] = w[i]] = w
  <2> HIDE DEF w
  <2>1. w \in [1..Len(w) -> alt_u8]
    BY <1>1, LenProperties
  <2> QED BY <2>1
<1> DEFINE v == [w EXCEPT ![i] = w[i]]
<1>3. [svc EXCEPT !.buffer = v] = svc
  <2> HIDE DEF v
  <2>1. v = svc.buffer
    BY <1>2 DEF v
  <2> QED BY <2>1 DEF SvcStates
<1> QED BY <1>3

\* A byte that is no prefix.
LEMMA ServiceByteInv ==
  ASSUME StreamInv, ServiceByte
  PROVE  StreamInv'
<1> DEFINE b == Current
<1>1. /\ svc.index < svc.read_len /\ svc.sink = <<>> /\ svc.pc = "loop"
      /\ UNCHANGED <<wire, selected, asked, asking, typed, avm>>
      /\ b # AST_CHANNEL_PREFIX /\ b # AST_ESCAPE_PREFIX /\ ~state.channel_prefix
      /\ state' = [state EXCEPT !.escape_prefix = FALSE]
      /\ BridgeTypeOK /\ LoopOK /\ state \in States /\ selected \in {Avm, Pipe, NULL} /\ svc \in SvcStates
  BY DEF ServiceByte, Looping, NotData, StreamInv, BridgeTypeOK, SvcOK
<1>2. PICK m \in Flows, h \in Flows, g \in Flows :
        Due(m) /\ Held(m) /\ Move(m, b, h) /\ Flow(h, Tail(Rest), g) /\ Ended(g)
  BY <1>1, ServiceMove
<1>3. b \in alt_u8 /\ Slice(svc.head, svc.index) \in Seq(alt_u8)
  <2>1. svc.index \in Nat /\ svc.head \in Nat /\ svc.index <= svc.read_len
    BY <1>1 DEF SvcStates, LoopOK
  <2>2. b \in alt_u8
    BY <1>1, NextByte
  <2>3. Slice(svc.head, svc.index) \in Seq(alt_u8)
    BY <1>1, <2>1, Slices
  <2> QED BY <2>2, <2>3
<1>4. m.place = state.sink_channel /\ (m.avm.escape_prefix <=> state.escape_prefix)
      /\ (m.place # Avm => ~m.avm.escape_prefix /\ ~m.avm.inside_packet)
  BY <1>1, <1>2 DEF Due, Listening
<1>5. /\ state.sink_channel \in {Avm, Pipe, NULL} /\ ~state'.channel_prefix /\ ~state'.escape_prefix
      /\ state'.sink_channel = state.sink_channel /\ state' \in States
  BY <1>1 DEF States
<1>6. ASSUME svc' = Next1(svc)
      PROVE  /\ Rest' = Tail(Rest) /\ SvcOK(svc)' /\ svc'.sink = <<>> /\ LoopOK'
             /\ Gathered = Slice(svc.head, svc.index) /\ Gathered' = Gathered \o <<b>>
  <2>1. /\ Rest' = Tail(Rest) /\ SvcOK(svc)' /\ svc'.sink = <<>> /\ LoopOK'
        /\ Gathered = Slice(svc.head, svc.index)
        /\ Slice(svc.head, svc.index)' = Slice(svc.head, svc.index) \o <<b>>
    BY <1>1, <1>5, <1>6, Advance
  <2> QED BY <1>5, <2>1 DEF Gathered
<1>7. ASSUME svc' = Next1(svc), Due(h)', Held(h)' PROVE StreamInv'
  <2>1. Rest' = Tail(Rest) /\ SvcOK(svc)' /\ LoopOK'
    BY <1>6, <1>7
  <2>2. Ended(g)'
    BY <1>1, <1>2, EndedFrame
  <2>3. BridgeTypeOK'
    BY <1>1, <1>5, <2>1 DEF BridgeTypeOK
  <2> QED BY <1>1, <1>2, <1>7, <2>1, <2>2, <2>3 DEF StreamInv
<1>8. CASE BusMove(m, b, h)
  <2>1. m.place = Avm
    <3>1. m.place # Sinking
      BY <1>4, <1>5, Bytes
    <3> QED BY <1>8, <3>1 DEF BusMove
  <2>2. ~Plain /\ state.sink_channel = Avm
    BY <1>4, <2>1, Bytes DEF Plain
  <2>3. svc' = Next1(svc)
    BY <2>2 DEF ServiceByte
  <2>4. h.place = Avm /\ h.avm = AvmStep(m.avm, b)
    BY <1>8, <2>1 DEF BusMove, FlowAt
  <2>5. ~h.avm.escape_prefix
    <3>1. AvmOK(m.avm) /\ (m.avm.escape_prefix => ~AST_NEEDS_ESCAPE(b))
      BY <1>8 DEF BusMove, AvmLegal, Flows
    <3> QED BY <1>1, <1>3, <2>4, <3>1, AvmEscape
  <2>6. Due(h)'
    BY <1>5, <2>2, <2>4, <2>5 DEF Due, Listening
  <2>7. Held(h)'
    <3>1. BusGets(Gathered, m)
      BY <1>1, <1>2, <2>2, Bytes DEF Held
    <3>2. PICK s \in Seq(alt_u8), c \in alt_u8 : s = Gathered /\ c = b
      BY <1>3, <1>6, <2>3
    <3>3. BusGets(s \o <<c>>, h)'
      BY <1>1, <1>8, <3>1, <3>2, SinkMove
    <3>4. Gathered' = s \o <<c>> /\ svc'.sink = <<>>
      BY <1>6, <2>3, <3>2
    <3>5. BusGets(Gathered, h)'
      BY <3>3, <3>4 DEF BusGets
    <3>6. Avm # Pipe /\ Avm # NULL
      BY Bytes
    <3> QED BY <1>5, <2>2, <3>4, <3>5, <3>6 DEF Held
  <2> QED BY <1>7, <2>3, <2>6, <2>7
<1>9. CASE PipeMove(m, b, h)
  <2>1. /\ state.sink_channel = Pipe /\ Pipe # Avm /\ Pipe # NULL /\ b \in PlainBytes
        /\ m.typed # <<>> /\ b = Head(m.typed)
        /\ h.place = Pipe /\ h.avm = m.avm /\ h.asked = m.asked /\ h.typed = Tail(m.typed)
    BY <1>4, <1>9, Bytes DEF PipeMove, FlowAt
  <2>2. ~m.avm.escape_prefix /\ ~m.avm.inside_packet /\ ~state.escape_prefix
    BY <1>4, <2>1
  <2>3. svc' = Next1(svc)
    <3>1. Unescaped(b) = b /\ b \notin {AST_SOP, AST_EOP_PREFIX}
      BY <2>1, <2>2, Bytes DEF Unescaped
    <3>2. svc.index + 1 \in 1..Len(svc.buffer)
      <4> DEFINE n == Len(svc.buffer)
      <4>1. n \in Nat /\ svc.index \in Nat /\ svc.read_len \in Nat /\ svc.read_len <= n
        BY <1>1, LenProperties DEF BridgeTypeOK, SvcOK, SvcStates
      <4> HIDE DEF n
      <4>2. svc.index + 1 \in 1..n
        BY <1>1, <4>1
      <4> QED BY <4>2 DEF n
    <3>3. [svc EXCEPT !.buffer[svc.index + 1] = Unescaped(b)] = svc
      BY <1>1, <3>1, <3>2, Replaced DEF Current
    <3>4. svc' = Next1([svc EXCEPT !.buffer[svc.index + 1] = Unescaped(b)])
      BY <2>1, <3>1 DEF ServiceByte, Plain
    <3> QED BY <3>3, <3>4
  <2>4. Due(h)'
    BY <1>5, <2>1, <2>2 DEF Due, Listening
  <2>5. Held(h)'
    <3>1. m.avm = avm /\ m.asked = asked /\ typed = Gathered \o m.typed
      BY <1>1, <1>2, <2>1 DEF Held
    <3>2. Gathered' = Gathered \o <<b>> /\ svc'.sink = <<>> /\ Gathered \in Seq(alt_u8)
      BY <1>3, <1>6, <2>3
    <3>3. m.typed \in Seq(PlainBytes) /\ m.typed = <<b>> \o Tail(m.typed) /\ Tail(m.typed) \in Seq(PlainBytes)
      <4> DEFINE t == m.typed
      <4>1. t \in Seq(PlainBytes) /\ t # <<>> /\ b = Head(t)
        BY <2>1 DEF Flows
      <4> HIDE DEF t
      <4>2. Tail(t) \in Seq(PlainBytes) /\ t = <<Head(t)>> \o Tail(t)
        BY <4>1, HeadTailProperties
      <4> QED BY <4>1, <4>2 DEF t
    <3>4. Gathered \o m.typed = (Gathered \o <<b>>) \o Tail(m.typed)
      <4> DEFINE z == <<b>>
                 t == Tail(m.typed)
      <4>1. z \in Seq(alt_u8) /\ t \in Seq(alt_u8)
        BY <1>3, <3>3, Bytes
      <4>2. m.typed = z \o t
        BY <3>3
      <4> HIDE DEF z, t
      <4>3. (Gathered \o z) \o t = Gathered \o (z \o t)
        BY <3>2, <4>1, ConcatAssociative, SMTT(30)
      <4> QED BY <4>2, <4>3 DEF z, t
    <3> QED BY <1>1, <1>5, <2>1, <3>1, <3>2, <3>4 DEF Held
  <2> QED BY <1>7, <2>3, <2>4, <2>5
<1>10. ~PrefixMove(m, b, h)
  BY <1>1 DEF PrefixMove
<1>11. ~SelectMove(m, b, h)
  <2>1. m.place # AST_CHANNEL_PREFIX
    BY <1>4, <1>5, Bytes
  <2> QED BY <2>1 DEF SelectMove
<1> QED BY <1>2, <1>8, <1>9, <1>10, <1>11 DEF Move

\* The longest common prefix of two sequences is as long as one that no other
\* exceeds.
LEMMA CommonLength ==
  ASSUME NEW s \in Seq(alt_u8), NEW z \in Seq(alt_u8), NEW w \in Seq(alt_u8),
         IsPrefix(s, z), IsPrefix(s, w),
         \A p : IsPrefix(p, z) /\ IsPrefix(p, w) /\ Len(p) \in Nat => Len(p) <= Len(s)
  PROVE  Len(LongestCommonPrefix({z, w})) = Len(s)
<1> DEFINE C == CommonPrefixes({z, w})
           P == LongestCommonPrefix({z, w})
           l == Len(s)
<1>1. l \in Nat /\ l <= Len(z) /\ SubSeq(z, 1, l) = s
  BY LenProperties, SubSeqFull DEF IsPrefix
<1>2. s \in C
  <2>1. l \in 0..Len(z)
    BY <1>1, LenProperties
  <2> HIDE DEF l
  <2>2. s \in {SubSeq(z, 1, i) : i \in 0..Len(z)}
    BY <1>1, <2>1
  <2> QED BY <2>2 DEF CommonPrefixes, Prefixes
<1>3. ASSUME NEW p \in C PROVE Len(p) \in Nat /\ Len(p) <= l
  <2>1. IsPrefix(p, z) /\ IsPrefix(p, w)
    BY DEF CommonPrefixes
  <2>2. PICK t \in {z, w} : \E i \in 0..Len(t) : p = SubSeq(t, 1, i)
    BY DEF CommonPrefixes, Prefixes
  <2>3. t \in Seq(alt_u8)
    BY <2>2
  <2>4. Len(p) \in Nat
    BY <2>2, <2>3
  <2> QED BY <2>1, <2>4
<1>4. P \in C /\ \A other \in C : Len(other) <= Len(P)
  <2>1. \E longest \in C : \A other \in C : Len(other) <= Len(longest)
    BY <1>1, <1>2, <1>3
  <2> QED BY <2>1 DEF LongestCommonPrefix
<1> HIDE DEF C, P
<1>5. Len(P) \in Nat /\ Len(P) <= l /\ l <= Len(P)
  BY <1>2, <1>3, <1>4
<1> QED BY <1>1, <1>5 DEF P

\* The bytes of a pipe at the beginning of what was sent to it.
LEMMA PipeTakes ==
  ASSUME NEW s \in Seq(alt_u8), NEW w \in Seq(PlainBytes), NEW t \in Seq(PlainBytes), w = s \o t
  PROVE  /\ SubSeq(w, 1 + Len(s), Len(w)) = t
         /\ Len(LongestCommonPrefix({s, w})) = Len(s)
         /\ Len(LongestCommonPrefix({s \o <<AST_CHANNEL_PREFIX>>, w})) = Len(s)
<1> DEFINE l == Len(s)
           k == Len(t)
<1>1. t \in Seq(alt_u8) /\ w \in Seq(alt_u8) /\ l \in Nat /\ k \in Nat
  <2>1. \A i \in 1..Len(t) : t[i] \in alt_u8
    BY ElementOfSeq, Bytes
  <2>2. \A i \in 1..Len(w) : w[i] \in alt_u8
    BY ElementOfSeq, Bytes
  <2> QED BY <2>1, <2>2, LenProperties, Bytes
<1>2. Len(w) = l + k /\ \A i \in 1..l + k : w[i] = IF i <= l THEN s[i] ELSE t[i - l]
  BY <1>1, ConcatProperties
<1>3. SubSeq(w, 1 + l, Len(w)) = t
  <2>1. CASE k = 0
    <3>1. t = <<>>
      BY <1>1, <2>1, EmptySeq
    <3>2. SubSeq(w, 1 + l, l + k) = <<>>
      BY <1>1, <2>1, SubSeqEmpty
    <3> QED BY <1>2, <3>1, <3>2
  <2>2. CASE k # 0
    <3>1. 1 + l \in l + 1..l + k /\ l + k \in l + 1..l + k /\ 1 + l - l = 1 /\ l + k - l = k
      BY <1>1, <2>2
    <3>2. SubSeq(w, 1 + l, l + k) = SubSeq(t, 1 + l - l, l + k - l)
      BY <1>1, <3>1, SubSeqOfConcat2
    <3> QED BY <1>1, <1>2, <3>1, <3>2, SubSeqFull
  <2> QED BY <2>1, <2>2
<1>4. IsPrefix(s, w)
  <2>1. SubSeq(s, 1, l) = SubSeq(w, 1, l)
    <3>1. CASE l = 0
      BY <3>1, SubSeqEmpty
    <3>2. CASE l # 0
      <4>1. 1 \in 1..l /\ l \in 1..l
        BY <1>1, <3>2
      <4> QED BY <1>1, <4>1, SubSeqOfConcat1
    <3> QED BY <3>1, <3>2
  <2> HIDE DEF l, k
  <2>2. l <= Len(w)
    BY <1>1, <1>2
  <2> QED BY <2>1, <2>2 DEF IsPrefix, l
<1>5. k # 0 => w[l + 1] # AST_CHANNEL_PREFIX
  <2>1. k # 0 => l + 1 \in 1..Len(w)
    BY <1>1, <1>2
  <2>2. k # 0 => w[l + 1] \in PlainBytes
    BY <2>1, ElementOfSeq
  <2> QED BY <2>2, Bytes
<1> DEFINE c == AST_CHANNEL_PREFIX
           z == s \o <<c>>
<1>6. z \in Seq(alt_u8) /\ Len(z) = l + 1 /\ z[l + 1] = c /\ IsPrefix(s, z) /\ IsPrefix(s, s)
  <2>1. c \in alt_u8
    BY Bytes
  <2> HIDE DEF c
  <2>2. <<c>> \in Seq(alt_u8) /\ z = Append(s, c) /\ Len(Append(s, c)) = l + 1 /\ Append(s, c)[l + 1] = c
    BY <2>1, AppendIsConcat, AppendProperties
  <2>3. SubSeq(s, 1, l) = SubSeq(z, 1, l)
    <3>1. CASE l = 0
      BY <3>1, SubSeqEmpty
    <3>2. CASE l # 0
      <4>1. 1 \in 1..l /\ l \in 1..l
        BY <1>1, <3>2
      <4> QED BY <2>2, <4>1, SubSeqOfConcat1
    <3> QED BY <3>1, <3>2
  <2> HIDE DEF z, l
  <2>4. l <= l + 1 /\ l <= l
    BY <1>1
  <2>5. z \in Seq(alt_u8)
    BY <2>1, <2>2, AppendProperties
  <2> QED BY <2>2, <2>3, <2>4, <2>5 DEF IsPrefix, l
<1> HIDE DEF z, l, k, c
<1>7. Len(LongestCommonPrefix({s, w})) = l
  <2>1. ASSUME NEW p, IsPrefix(p, s), Len(p) \in Nat PROVE Len(p) <= l
    BY <1>1, <2>1 DEF IsPrefix, l
  <2> QED BY <1>1, <1>4, <1>6, <2>1, CommonLength DEF l
<1>8. Len(LongestCommonPrefix({z, w})) = l
  <2>1. ASSUME NEW p, IsPrefix(p, z), IsPrefix(p, w), Len(p) \in Nat PROVE Len(p) <= l
    <3> SUFFICES ASSUME Len(p) > l PROVE FALSE
      BY <1>1, <2>1
    <3>1. Len(p) = l + 1 /\ k # 0
      BY <1>1, <1>2, <1>6, <2>1 DEF IsPrefix
    <3>2. SubSeq(z, 1, l + 1) = SubSeq(w, 1, l + 1)
      BY <2>1, <3>1 DEF IsPrefix
    <3>3. SubSeq(z, 1, l + 1)[l + 1] = z[l + 1] /\ SubSeq(w, 1, l + 1)[l + 1] = w[l + 1]
      BY <1>1, <1>2, <1>6, <3>1
    <3> QED BY <1>5, <1>6, <3>1, <3>2, <3>3 DEF c
  <2> QED BY <1>1, <1>4, <1>6, <2>1, CommonLength DEF l
<1> QED BY <1>3, <1>7, <1>8 DEF z, c, l

\* With no bytes to do bus access is where the loop is.
LEMMA NothingToDo ==
  ASSUME NEW m \in Flows, NEW a, AvmOK(a), NEW q \in Seq(Packets), NEW t \in Seq(PlainBytes)
  PROVE  Flow(FlowAt(Sinking, a, q, t), <<>>, FlowAt(Sinking, m.avm, m.asked, m.typed))
           <=> m.avm = a /\ m.asked = q /\ m.typed = t
<1> DEFINE f == FlowAt(Sinking, a, q, t)
           h == FlowAt(Sinking, m.avm, m.asked, m.typed)
<1>1. /\ f.avm = a /\ f.asked = q /\ f.typed = t
      /\ h.avm = m.avm /\ h.asked = m.asked /\ h.typed = m.typed
  BY DEF FlowAt
<1>2. f \in Flows
  BY DEF Flows, FlowAt, Places, AvmOK
<1>3. m.avm = a /\ m.asked = q /\ m.typed = t => f = h
  OBVIOUS
<1> HIDE DEF f, h
<1>4. Flow(f, <<>>, h) <=> f = h
  BY <1>2, FlowNothing
<1> QED BY <1>1, <1>3, <1>4 DEF f, h

\* The bytes are handed to the channel: the pipe gets them, and bus access has
\* them to do.
LEMMA HandOver ==
  ASSUME StreamInv, svc.sink = <<>>, NEW m \in Flows, Held(m),
         NEW s \in Seq(alt_u8), s = Gathered, NEW bytes,
         \/ bytes = s
         \/ bytes = s \o <<AST_CHANNEL_PREFIX>> /\ ~m.avm.inside_packet /\ ~m.avm.escape_prefix,
         WriteToChannel(bytes), svc'.sink = ToAvm(bytes), Gathered' = <<>>, UNCHANGED <<avm, asked>>,
         NEW h \in Flows, h.avm = m.avm, h.asked = m.asked, h.typed = m.typed,
         state'.sink_channel = NULL => state.sink_channel = NULL
  PROVE  Held(h)' /\ typed' \in Seq(PlainBytes) /\ svc'.sink \in Seq(alt_u8)
<1>1. BridgeTypeOK /\ AvmOK(avm) /\ asked \in Seq(Packets) /\ typed \in Seq(PlainBytes)
      /\ state.sink_channel \in {Avm, Pipe, NULL} /\ Avm # Pipe /\ Avm # NULL /\ Pipe # NULL
  BY Bytes DEF StreamInv, BridgeTypeOK, States
<1>2. m.typed \in Seq(PlainBytes)
  BY DEF Flows
<1>3. AST_CHANNEL_PREFIX \in alt_u8 /\ <<AST_CHANNEL_PREFIX>> \in Seq(alt_u8)
  BY Bytes
<1>4. bytes \in Seq(alt_u8) /\ svc'.sink \in Seq(alt_u8)
  <2>1. bytes \in Seq(alt_u8)
    BY <1>3, ConcatProperties
  <2> QED BY <2>1 DEF ToAvm
<1>5. ASSUME m.avm = avm', m.asked = asked', m.typed = typed', typed' \in Seq(PlainBytes), svc'.sink = <<>>
      PROVE  Held(h)'
  <2>1. PICK a \in {c \in AvmStates : AvmOK(c)}, q \in Seq(Packets), t \in Seq(PlainBytes) :
              a = avm' /\ q = asked' /\ t = typed'
    BY <1>1, <1>5 DEF AvmOK
  <2>2. Flow(FlowAt(Sinking, a, q, t), <<>>, FlowAt(Sinking, h.avm, h.asked, h.typed))
    BY <1>5, <2>1, NothingToDo
  <2>3. BusGets(Gathered, h)'
    BY <2>1, <2>2 DEF BusGets
  <2>4. typed' = <<>> \o h.typed
    <3>1. h.typed \in Seq(PlainBytes) /\ h.typed = typed'
      BY <1>2, <1>5
    <3> QED BY <3>1, ConcatEmptySeq
  <2> QED BY <1>5, <2>3, <2>4 DEF Held
<1>6. CASE state.sink_channel = Pipe
  <2>1. m.avm = avm /\ m.asked = asked /\ typed = s \o m.typed
    BY <1>6 DEF Held
  <2>2. PICK w \in Seq(PlainBytes) : w = typed
    BY <1>1
  <2>3. /\ SubSeq(w, 1 + Len(s), Len(w)) = m.typed
        /\ Len(LongestCommonPrefix({s, w})) = Len(s)
        /\ Len(LongestCommonPrefix({s \o <<AST_CHANNEL_PREFIX>>, w})) = Len(s)
    BY <1>2, <2>1, <2>2, PipeTakes
  <2>4. svc'.sink = <<>>
    BY <1>1, <1>6 DEF ToAvm
  <2>5. Len(LongestCommonPrefix({bytes, w})) = Len(s)
    BY <2>3
  <2>6. typed' = m.typed
    <3>1. CASE bytes # <<>>
      BY <1>6, <2>2, <2>3, <2>5, <3>1 DEF WriteToChannel, NotYet
    <3>2. CASE bytes = <<>>
      <4>1. typed' = typed
        BY <3>2 DEF WriteToChannel
      <4>2. s = <<>>
        <5> DEFINE z == <<AST_CHANNEL_PREFIX>>
        <5>1. z \in Seq(alt_u8)
          BY <1>3
        <5> HIDE DEF z
        <5>2. s \o z = <<>> => s = <<>>
          BY <5>1, ConcatEqualIffEmpty
        <5> QED BY <3>2, <5>2 DEF z
      <4> QED BY <1>2, <2>1, <4>1, <4>2, ConcatEmptySeq
    <3> QED BY <3>1, <3>2
  <2>7. Held(h)'
    BY <1>2, <1>5, <2>1, <2>4, <2>6
  <2> QED BY <1>2, <1>4, <2>6, <2>7
<1>7. CASE state.sink_channel = NULL
  <2>1. s = <<>> /\ BusGets(<<>>, m)
    BY <1>1, <1>7 DEF Held
  <2>2. m.avm = avm /\ m.asked = asked /\ m.typed = typed
    BY <1>1, <2>1, NothingToDo DEF BusGets
  <2>3. typed' = typed /\ svc'.sink = <<>>
    BY <1>1, <1>7 DEF WriteToChannel, ToAvm
  <2>4. Held(h)'
    BY <1>1, <1>5, <2>2, <2>3
  <2> QED BY <1>1, <1>4, <1>7, <2>3, <2>4
<1>8. CASE state.sink_channel = Avm
  <2>1. typed' = typed /\ svc'.sink = bytes
    BY <1>1, <1>8 DEF WriteToChannel, ToAvm
  <2>2. BusGets(s, m)
    BY <1>1, <1>8 DEF Held
  <2>3. BusGets(bytes, h)'
    <3>1. CASE bytes = s
      BY <2>1, <2>2, <3>1 DEF BusGets
    <3>2. CASE bytes # s
      <4> DEFINE c == AST_CHANNEL_PREFIX
                 f == FlowAt(Avm, m.avm, m.asked, m.typed)
                 f0 == FlowAt(Sinking, m.avm, m.asked, m.typed)
      <4>1. bytes = s \o <<c>> /\ ~m.avm.inside_packet /\ ~m.avm.escape_prefix
        BY <3>2
      <4>2. AvmStep(m.avm, c) = m.avm
        <5>1. AvmStep(m.avm, c) = [m.avm EXCEPT !.escape_prefix = FALSE]
          BY <4>1, Bytes DEF AvmStep
        <5>2. m.avm \in AvmStates
          BY DEF Flows
        <5>3. m.avm.escape_prefix = FALSE
          BY <4>1, <5>2 DEF AvmStates
        <5> HIDE DEF c
        <5>4. [m.avm EXCEPT !.escape_prefix = FALSE] = m.avm
          BY <5>2, <5>3, Zenon DEF AvmStates
        <5> QED BY <5>1, <5>4
      <4>3. ~Ends(m.avm, c)
        BY <4>1 DEF Ends
      <4>4. AvmLegal(m.avm, m.asked, c)
        BY <4>1, <4>3 DEF AvmLegal
      <4>5. f0.place = Sinking /\ f0.avm = m.avm /\ f0.asked = m.asked /\ f0.typed = m.typed
        BY DEF FlowAt
      <4> HIDE DEF c, f0
      <4>6. BusMove(f0, c, f0)
        BY <4>2, <4>3, <4>4, <4>5 DEF BusMove, f0
      <4>7. Flow(FlowAt(Sinking, avm, asked, typed), s, f0)
        BY <2>2 DEF BusGets, f0
      <4>8. Flow(FlowAt(Sinking, avm, asked, typed), s \o <<c>>, f0)
        BY <1>3, <4>6, <4>7, FlowNext DEF Move, c
      <4> QED BY <2>1, <4>1, <4>8 DEF BusGets, f0
    <3> QED BY <3>1, <3>2
  <2>4. CASE bytes # <<>>
    <3>1. svc'.sink # <<>> /\ state'.sink_channel # NULL
      BY <1>1, <1>8, <2>1, <2>4
    <3>2. BusGets(svc.sink, h)'
      BY <2>1, <2>3 DEF BusGets
    <3>3. Held(h)'
      BY <3>1, <3>2 DEF Held
    <3> QED BY <1>1, <1>4, <1>8, <2>1, <3>3
  <2>5. CASE bytes = <<>>
    <3>1. PICK a \in {c \in AvmStates : AvmOK(c)}, q \in Seq(Packets), t \in Seq(PlainBytes) :
              a = avm' /\ q = asked' /\ t = typed'
      BY <1>1, <2>1 DEF AvmOK
    <3>2. Flow(FlowAt(Sinking, a, q, t), <<>>, FlowAt(Sinking, h.avm, h.asked, h.typed))
      BY <2>3, <2>5, <3>1 DEF BusGets
    <3>3. h.avm = a /\ h.asked = q /\ h.typed = t
      BY <3>1, <3>2, NothingToDo
    <3>4. Held(h)'
      BY <1>5, <2>1, <2>5, <3>1, <3>3
    <3> QED BY <1>1, <1>4, <1>8, <2>1, <3>4
  <2> QED BY <2>4, <2>5
<1> QED BY <1>1, <1>6, <1>7, <1>8

\* What came before a prefix is all that the loop has gathered.
LEMMA BeforePrefix ==
  ASSUME BridgeTypeOK, LoopOK
  PROVE  /\ state.channel_prefix => Slice(svc.head, svc.index - 1) = Gathered
         /\ \/ Slice(svc.head, svc.index) = Gathered
            \/ Slice(svc.head, svc.index) = Gathered \o <<AST_CHANNEL_PREFIX>> /\ state.channel_prefix
<1> DEFINE h == svc.head
           i == svc.index
<1>1. h \in Nat /\ i \in Nat /\ h <= i /\ i <= svc.read_len /\ svc.read_len \in Nat
  BY DEF BridgeTypeOK, SvcOK, SvcStates, LoopOK
<1>2. CASE state.channel_prefix /\ i > h
  <2>1. Gathered = Slice(h, i - 1)
    BY <1>2 DEF Gathered
  <2>2. svc.buffer[i] = AST_CHANNEL_PREFIX
    BY <1>2 DEF LoopOK
  <2>3. Slice(h, i) = Slice(h, i - 1) \o <<svc.buffer[i]>>
    <3> DEFINE buf == svc.buffer
               l == Len(buf)
    <3>1. buf \in Seq(alt_u8) /\ l \in Nat /\ svc.read_len <= l
      BY LenProperties DEF BridgeTypeOK, SvcOK, SvcStates
    <3> HIDE DEF buf, h, i, l
    <3>2. h + 1 \in 1..l /\ i \in h + 1..l
      BY <1>1, <1>2, <3>1
    <3>3. SubSeq(buf, h + 1, i) = SubSeq(buf, h + 1, i - 1) \o <<buf[i]>>
      BY <3>1, <3>2, SubSeqRecursiveSecond DEF l
    <3> QED BY <3>3 DEF Slice, buf
  <2> QED BY <1>2, <2>1, <2>2, <2>3
<1>3. CASE ~(state.channel_prefix /\ i > h)
  <2>1. Gathered = Slice(h, i)
    BY <1>3 DEF Gathered
  <2>2. state.channel_prefix => Slice(h, i - 1) = <<>> /\ Slice(h, i) = <<>>
    <3> SUFFICES ASSUME state.channel_prefix PROVE Slice(h, i - 1) = <<>> /\ Slice(h, i) = <<>>
      OBVIOUS
    <3> HIDE DEF h, i
    <3>1. i = h
      BY <1>1, <1>3
    <3>2. i - 1 \in Int /\ i \in Int /\ i - 1 <= svc.read_len /\ i - 1 <= h /\ i <= h
      BY <1>1, <3>1
    <3> QED BY <1>1, <3>2, Slices
  <2> QED BY <2>1, <2>2
<1> QED BY <1>2, <1>3

\* The byte after a prefix selects the channel that the host has selected there.
LEMMA ServiceSelectInv ==
  ASSUME StreamInv, ServiceSelect
  PROVE  StreamInv'
<1> DEFINE b == Current
<1>1. /\ svc.index < svc.read_len /\ svc.sink = <<>> /\ svc.pc = "loop" /\ state.channel_prefix
      /\ UNCHANGED <<wire, selected, asked, asking, avm>>
      /\ BridgeTypeOK /\ LoopOK /\ state \in States /\ selected \in {Avm, Pipe, NULL} /\ svc \in SvcStates
  BY DEF ServiceSelect, Looping, StreamInv, BridgeTypeOK, SvcOK
<1>2. PICK m \in Flows, h \in Flows, g \in Flows :
        Due(m) /\ Held(m) /\ Move(m, b, h) /\ Flow(h, Tail(Rest), g) /\ Ended(g)
  BY <1>1, ServiceMove
<1>3. m.place = AST_CHANNEL_PREFIX /\ ~m.avm.escape_prefix /\ ~m.avm.inside_packet /\ ~state.escape_prefix
  BY <1>1, <1>2, Bytes DEF Due, Listening
<1>4. SelectMove(m, b, h)
  <2>1. ~BusMove(m, b, h) /\ ~PrefixMove(m, b, h) /\ ~PipeMove(m, b, h)
    BY <1>3, Bytes DEF BusMove, PrefixMove, PipeMove
  <2> QED BY <1>2, <2>1 DEF Move
<1>5. b \in {Avm, Pipe} /\ h.place = b /\ h.avm = m.avm /\ h.asked = m.asked /\ h.typed = m.typed
  BY <1>4 DEF SelectMove, FlowAt
<1>6. state' = [sink_channel |-> b, channel_prefix |-> FALSE, escape_prefix |-> FALSE]
  <2>1. find_channel(Unescaped(b)) = b
    BY <1>3, <1>5 DEF find_channel, Unescaped
  <2> QED BY <2>1 DEF ServiceSelect
<1>7. state'.sink_channel = b /\ ~state'.channel_prefix /\ ~state'.escape_prefix /\ state' \in States
  BY <1>5, <1>6 DEF States
<1>8. svc.index \in Nat /\ svc.head \in Nat /\ svc.read_len \in Nat
  BY <1>1 DEF SvcStates
<1>9. PICK s \in Seq(alt_u8) : s = Gathered
  BY <1>1, Parts
<1>10. Slice(svc.head, svc.index - 1) = s
  BY <1>1, <1>9, BeforePrefix
<1>11. WriteToChannel(s)
  BY <1>10 DEF ServiceSelect, WriteToChannel
<1>12. svc' = [Next1(svc) EXCEPT !.head = svc.index + 1, !.sink = ToAvm(s)]
  BY <1>10 DEF ServiceSelect, ToAvm
<1>13. ToAvm(s) \in Seq(alt_u8)
  <2>1. <<>> \in Seq(alt_u8)
    OBVIOUS
  <2> QED BY <2>1 DEF ToAvm
<1>14. /\ svc'.sink = ToAvm(s) /\ svc'.index = svc.index + 1 /\ svc'.head = svc.index + 1
       /\ svc'.read_len = svc.read_len /\ svc'.buffer = svc.buffer /\ svc'.pc = "loop" /\ svc' \in SvcStates
  <2> DEFINE z == ToAvm(s)
             i == svc.index + 1
  <2>1. i \in Nat /\ z \in Seq(alt_u8)
    BY <1>8, <1>13
  <2>2. svc' = [[[svc EXCEPT !.index = i] EXCEPT !.head = i] EXCEPT !.sink = z]
    BY <1>12 DEF Next1
  <2> HIDE DEF z, i
  <2>3. /\ svc' \in SvcStates /\ svc'.sink = z /\ svc'.index = i /\ svc'.head = i /\ svc'.read_len = svc.read_len
        /\ svc'.buffer = svc.buffer /\ svc'.pc = svc.pc
    BY <1>1, <2>1, <2>2 DEF SvcStates
  <2> QED BY <1>1, <2>3 DEF z, i
<1>15. Gathered' = <<>>
  <2>1. Gathered' = SubSeq(svc.buffer, (svc.index + 1) + 1, svc.index + 1)
    BY <1>7, <1>14 DEF Gathered, Slice
  <2>2. svc.index + 1 < (svc.index + 1) + 1 /\ svc.index + 1 \in Int /\ (svc.index + 1) + 1 \in Int
    BY <1>8
  <2> QED BY <2>1, <2>2, SubSeqEmpty
<1>16. Rest' = Tail(Rest)
  <2>1. Rest' = Slice(svc.index + 1, svc.read_len) \o wire
    BY <1>1, <1>14 DEF Rest, Slice
  <2> QED BY <1>1, <2>1, NextByte
<1>17. Held(h)' /\ typed' \in Seq(PlainBytes) /\ svc'.sink \in Seq(alt_u8)
  <2>1. state'.sink_channel # NULL
    BY <1>5, <1>7, Bytes
  <2> QED BY <1>1, <1>2, <1>5, <1>9, <1>11, <1>14, <1>15, <2>1, HandOver
<1>18. Due(h)'
  <2>1. Listening' = h.place
    BY <1>5, <1>7 DEF Listening
  <2> QED BY <1>3, <1>5, <1>7, <2>1 DEF Due
<1>19. LoopOK'
  BY <1>1, <1>7, <1>8, <1>14 DEF LoopOK
<1>20. BridgeTypeOK'
  <2>1. SvcOK(svc')
    BY <1>1, <1>14 DEF SvcOK, BridgeTypeOK
  <2> QED BY <1>1, <1>7, <1>17, <2>1 DEF BridgeTypeOK
<1>21. Ended(g)'
  BY <1>1, <1>2, EndedFrame
<1> QED BY <1>1, <1>2, <1>16, <1>17, <1>18, <1>19, <1>20, <1>21 DEF StreamInv

\* The rest of the buffer.
LEMMA ServiceRestInv ==
  ASSUME StreamInv, ServiceRest
  PROVE  StreamInv'
<1>1. /\ svc.index >= svc.read_len /\ svc.sink = <<>> /\ svc.pc = "loop"
      /\ UNCHANGED <<wire, selected, asked, asking, avm, state>>
      /\ BridgeTypeOK /\ LoopOK /\ state \in States /\ selected \in {Avm, Pipe, NULL} /\ svc \in SvcStates
  BY DEF ServiceRest, Looping, StreamInv, BridgeTypeOK, SvcOK
<1>2. PICK m \in Flows, g \in Flows : Due(m) /\ Held(m) /\ Flow(m, Rest, g) /\ Ended(g)
  BY DEF StreamInv
<1>3. svc.index = svc.read_len /\ svc.index \in Nat /\ svc.head \in Nat
  BY <1>1 DEF LoopOK, SvcStates
<1>4. PICK s \in Seq(alt_u8) : s = Gathered
  BY <1>1, Parts
<1>5. PICK bytes : bytes = Slice(svc.head, svc.index)
  OBVIOUS
<1>6. /\ WriteToChannel(bytes) /\ svc' = [NoBuffer EXCEPT !.sink = ToAvm(bytes)]
  BY <1>3, <1>5 DEF ServiceRest, WriteToChannel, ToAvm
<1>7. \/ bytes = s
      \/ bytes = s \o <<AST_CHANNEL_PREFIX>> /\ ~m.avm.inside_packet /\ ~m.avm.escape_prefix
  <2>1. state.channel_prefix => ~m.avm.inside_packet /\ ~m.avm.escape_prefix
    BY <1>2, Bytes DEF Due, Listening
  <2> QED BY <1>1, <1>4, <1>5, <2>1, BeforePrefix
<1>8. /\ svc'.sink = ToAvm(bytes) /\ svc'.index = 0 /\ svc'.head = 0
      /\ svc'.read_len = 0 /\ svc'.buffer = <<>> /\ svc'.pc = "read"
  BY <1>6 DEF NoBuffer
<1>9. Gathered' = <<>> /\ Slice(svc.index, svc.read_len)' = <<>>
  <2>1. SubSeq(<<>>, 0 + 1, 0) = <<>>
    BY SubSeqEmpty
  <2>2. Slice(svc.index, svc.read_len)' = <<>> /\ Slice(svc.head, svc.index)' = <<>>
    BY <1>8, <2>1 DEF Slice
  <2>3. ~(svc.index > svc.head)'
    BY <1>8
  <2> QED BY <2>2, <2>3 DEF Gathered
<1>10. Rest' = Rest
  <2>1. Slice(svc.index, svc.read_len) = <<>>
    BY <1>1, <1>3, Slices
  <2> QED BY <1>1, <1>9, <2>1 DEF Rest
<1>11. Held(m)' /\ typed' \in Seq(PlainBytes) /\ svc'.sink \in Seq(alt_u8)
  BY <1>1, <1>2, <1>4, <1>6, <1>7, <1>8, <1>9, HandOver
<1>12. Due(m)'
  BY <1>1, <1>2 DEF Due, Listening
<1>13. LoopOK'
  BY <1>8 DEF LoopOK
<1>14. BridgeTypeOK'
  <2>1. svc' = [pc |-> "read", buffer |-> <<>>, read_len |-> 0, index |-> 0, head |-> 0, sink |-> svc'.sink]
    BY <1>6 DEF NoBuffer
  <2>2. svc' \in SvcStates
    <3> DEFINE z == svc'.sink
    <3>1. z \in Seq(alt_u8) /\ <<>> \in Seq(alt_u8) /\ 0 \in Nat
      BY <1>11
    <3>2. svc' = [pc |-> "read", buffer |-> <<>>, read_len |-> 0, index |-> 0, head |-> 0, sink |-> z]
      BY <2>1
    <3> HIDE DEF z
    <3> QED BY <3>1, <3>2 DEF SvcStates
  <2>3. svc'.read_len <= Len(svc'.buffer)
    BY <1>8
  <2>4. SvcOK(svc')
    BY <2>2, <2>3 DEF SvcOK
  <2> QED BY <1>1, <1>11, <2>4 DEF BridgeTypeOK
<1>15. Ended(g)'
  BY <1>1, <1>2, EndedFrame
<1> QED BY <1>1, <1>2, <1>10, <1>11, <1>12, <1>13, <1>14, <1>15 DEF StreamInv

-----------------------------------------------------------------------------
(* A step of bus access *)

\* It does what the byte does, and answers at the end of a packet.
LEMMA AvmByteEffect ==
  ASSUME AvmByte, NEW b, b = Head(svc.sink)
  PROVE  /\ avm' = AvmStep(avm, b)
         /\ asked' = (IF Ends(avm, b) /\ asked # <<>> THEN Tail(asked) ELSE asked)
         /\ ~Ends(avm, b) => call' = call
         /\ Ends(avm, b) => SourceCall(Service, Answer(avm, Header(avm, Meaning(avm, b))))
         /\ svc' = [svc EXCEPT !.sink = Tail(svc.sink)]
<1>1. CASE AvmFraming(b)
  <2>1. b \in Framing /\ call' = call /\ asked' = asked
    BY <1>1 DEF AvmFraming, Framing
  <2>2. avm' = AvmStep(avm, b)
    BY <1>1, Bytes DEF AvmFraming, AvmStep
  <2>3. svc' = [svc EXCEPT !.sink = Tail(svc.sink)]
    BY DEF AvmByte
  <2> QED BY <2>1, <2>2, <2>3 DEF Ends
<1>2. CASE AvmData(b)
  <2> DEFINE x == Meaning(avm, b)
             r == Answer(avm, Header(avm, x))
  <2>1. b \notin Framing
    BY <1>2 DEF AvmData, Framing
  <2>2. AvmStep(avm, b) = IF ~avm.inside_packet THEN [avm EXCEPT !.escape_prefix = FALSE]
                          ELSE IF ~avm.eop_prefix THEN Header(avm, x)
                          ELSE [Header(avm, x) EXCEPT !.eop_prefix = FALSE, !.inside_packet = FALSE]
    BY <2>1 DEF AvmStep, Framing
  <2>3. \/ ~avm.inside_packet /\ avm' = [avm EXCEPT !.escape_prefix = FALSE] /\ call' = call /\ asked' = asked
        \/ avm.inside_packet /\ ~avm.eop_prefix /\ avm' = Header(avm, x) /\ call' = call /\ asked' = asked
        \/ /\ avm.inside_packet /\ avm.eop_prefix
           /\ avm' = [Header(avm, x) EXCEPT !.eop_prefix = FALSE, !.inside_packet = FALSE]
           /\ call' = [call EXCEPT ![Service] = Pending(r)]
           /\ asked' = IF asked = <<>> THEN asked ELSE Tail(asked)
    BY <1>2 DEF AvmData, Meaning
  <2>4. svc' = [svc EXCEPT !.sink = Tail(svc.sink)] /\ At(Service, "idle")
        /\ UNCHANGED <<lock, source_channel_number, host>>
    BY DEF AvmByte, AvmTurn
  <2> HIDE DEF x, r
  <2>5. Ends(avm, b) <=> avm.inside_packet /\ avm.eop_prefix
    BY <2>1 DEF Ends
  <2>6. Ends(avm, b) => SourceCall(Service, r)
    BY <2>3, <2>4, <2>5 DEF SourceCall
  <2> QED BY <2>2, <2>3, <2>4, <2>5, <2>6 DEF x, r
<1> QED BY <1>1, <1>2 DEF AvmByte

\* It does what the byte does, and answers the oldest packet at its end.
LEMMA AvmByteDoes ==
  ASSUME StreamInv, AvmByte, NEW b, b = Head(svc.sink)
  PROVE  /\ b \in alt_u8 /\ svc.sink # <<>> /\ Tail(svc.sink) \in Seq(alt_u8)
         /\ AvmLegal(avm, asked, b)
         /\ avm' = AvmStep(avm, b) /\ asked' = (IF Ends(avm, b) THEN Tail(asked) ELSE asked)
         /\ ~Ends(avm, b) => call' = call
         /\ Ends(avm, b) => SourceCall(Service, Answer(avm, Header(avm, Meaning(avm, b))))
         /\ svc' = [svc EXCEPT !.sink = Tail(svc.sink)]
         /\ \A m \in Flows : Held(m) =>
              Flow(FlowAt(Sinking, avm', asked', typed'), Tail(svc.sink), FlowAt(Sinking, m.avm, m.asked, m.typed))
<1>1. svc.sink \in Seq(alt_u8) /\ svc.sink # <<>> /\ BridgeTypeOK /\ typed' = typed
  BY DEF AvmByte, AvmTurn, StreamInv, BridgeTypeOK, SvcOK, SvcStates
<1>2. b \in alt_u8 /\ Tail(svc.sink) \in Seq(alt_u8)
  BY <1>1, HeadTailProperties
<1> DEFINE f == FlowAt(Sinking, avm, asked, typed)
<1>3. f.place = Sinking /\ f.avm = avm /\ f.asked = asked /\ f.typed = typed
  BY DEF FlowAt
<1>4. ASSUME NEW m \in Flows, Held(m)
      PROVE  \E h \in Flows : BusMove(f, b, h) /\ Flow(h, Tail(svc.sink), FlowAt(Sinking, m.avm, m.asked, m.typed))
  <2>1. Flow(f, svc.sink, FlowAt(Sinking, m.avm, m.asked, m.typed))
    BY <1>1, <1>4 DEF Held, BusGets
  <2> HIDE DEF f
  <2>2. PICK h \in Flows : Move(f, b, h) /\ Flow(h, Tail(svc.sink), FlowAt(Sinking, m.avm, m.asked, m.typed))
    BY <1>1, <2>1, FlowFirst
  <2>3. ~PrefixMove(f, b, h) /\ ~SelectMove(f, b, h) /\ ~PipeMove(f, b, h)
    BY <1>3, Bytes DEF PrefixMove, SelectMove, PipeMove
  <2> QED BY <2>2, <2>3 DEF Move
<1>5. \E m \in Flows : Held(m)
  BY DEF StreamInv
<1>6. AvmLegal(avm, asked, b)
  <2>1. PICK h \in Flows : BusMove(f, b, h)
    BY <1>4, <1>5
  <2> HIDE DEF f
  <2> QED BY <1>3, <2>1 DEF BusMove
<1>7. /\ avm' = AvmStep(avm, b) /\ asked' = (IF Ends(avm, b) THEN Tail(asked) ELSE asked)
      /\ ~Ends(avm, b) => call' = call
      /\ Ends(avm, b) => SourceCall(Service, Answer(avm, Header(avm, Meaning(avm, b))))
      /\ svc' = [svc EXCEPT !.sink = Tail(svc.sink)]
  BY <1>6, AvmByteEffect DEF AvmLegal
<1>10. ASSUME NEW m \in Flows, Held(m)
       PROVE  Flow(FlowAt(Sinking, avm', asked', typed'), Tail(svc.sink), FlowAt(Sinking, m.avm, m.asked, m.typed))
  <2>1. PICK h \in Flows : BusMove(f, b, h) /\ Flow(h, Tail(svc.sink), FlowAt(Sinking, m.avm, m.asked, m.typed))
    BY <1>4, <1>10
  <2>2. h = FlowAt(Sinking, avm', asked', typed')
    <3> HIDE DEF f
    <3> QED BY <1>1, <1>3, <1>7, <2>1 DEF BusMove
  <2> QED BY <2>1, <2>2
<1> QED BY <1>1, <1>2, <1>6, <1>7, <1>10

\* The bytes that are left lead where all of them led.
LEMMA AvmByteInv ==
  ASSUME StreamInv, AvmByte
  PROVE  StreamInv'
<1>1. PICK b : b = Head(svc.sink)
  OBVIOUS
<1>2. /\ b \in alt_u8 /\ svc.sink # <<>> /\ Tail(svc.sink) \in Seq(alt_u8)
      /\ AvmLegal(avm, asked, b)
      /\ avm' = AvmStep(avm, b) /\ asked' = (IF Ends(avm, b) THEN Tail(asked) ELSE asked)
      /\ svc' = [svc EXCEPT !.sink = Tail(svc.sink)]
      /\ \A m \in Flows : Held(m) =>
           Flow(FlowAt(Sinking, avm', asked', typed'), Tail(svc.sink), FlowAt(Sinking, m.avm, m.asked, m.typed))
  BY <1>1, AvmByteDoes
<1>3. /\ UNCHANGED <<wire, selected, asking, typed, state>>
      /\ BridgeTypeOK /\ LoopOK /\ AvmOK(avm) /\ asked \in Seq(Packets) /\ typed \in Seq(PlainBytes)
      /\ svc \in SvcStates
  BY DEF AvmByte, StreamInv, BridgeTypeOK, SvcOK
<1>4. PICK m \in Flows, g \in Flows : Due(m) /\ Held(m) /\ Flow(m, Rest, g) /\ Ended(g)
  BY DEF StreamInv
<1>5. /\ svc'.sink = Tail(svc.sink) /\ svc'.pc = svc.pc /\ svc'.buffer = svc.buffer /\ svc'.index = svc.index
      /\ svc'.head = svc.head /\ svc'.read_len = svc.read_len /\ svc' \in SvcStates
  BY <1>2, <1>3 DEF SvcStates
<1>6. svc.head = svc.index /\ LoopOK'
  BY <1>2, <1>3, <1>5 DEF LoopOK
<1>7. Rest' = Rest /\ Gathered' = Gathered /\ Gathered = <<>>
  BY <1>3, <1>5, <1>6, Parts DEF Rest, Gathered, Slice
<1>8. AvmOK(avm') /\ asked' \in Seq(Packets)
  <2>1. AvmOK(avm')
    BY <1>2, <1>3, AvmStepOK
  <2>2. Ends(avm, b) => asked # <<>>
    BY <1>2 DEF AvmLegal
  <2> QED BY <1>2, <1>3, <2>1, <2>2, HeadTailProperties
<1>9. BridgeTypeOK'
  BY <1>3, <1>5, <1>8 DEF BridgeTypeOK, SvcOK
<1>10. Due(m)'
  BY <1>3, <1>4 DEF Due, Listening
<1>11. Held(m)'
  <2>1. state.sink_channel # NULL
    BY <1>2, <1>4 DEF Held
  <2>2. PICK s \in Seq(alt_u8) : s = Tail(svc.sink)
    BY <1>2
  <2>3. BusGets(s, m)'
    BY <1>2, <1>4, <2>2 DEF BusGets
  <2>4. CASE s # <<>>
    <3>1. svc'.sink = s
      BY <1>5, <2>2
    <3> QED BY <1>3, <2>1, <2>3, <2>4, <3>1 DEF Held, BusGets
  <2>5. CASE s = <<>>
    <3>1. PICK a \in {c \in AvmStates : AvmOK(c)}, q \in Seq(Packets), t \in Seq(PlainBytes) :
            a = avm' /\ q = asked' /\ t = typed'
      BY <1>3, <1>8 DEF AvmOK
    <3>2. m.avm = a /\ m.asked = q /\ m.typed = t
      BY <2>3, <2>5, <3>1, NothingToDo DEF BusGets
    <3>3. typed' = <<>> \o m.typed
      BY <3>1, <3>2, ConcatEmptySeq
    <3>4. svc'.sink = <<>>
      BY <1>5, <2>2, <2>5
    <3> QED BY <1>3, <1>7, <2>1, <2>3, <2>5, <3>1, <3>2, <3>3, <3>4 DEF Held, BusGets
  <2> QED BY <2>4, <2>5
<1>12. Ended(g)'
  BY <1>3, <1>4, EndedFrame
<1> QED BY <1>3, <1>4, <1>6, <1>7, <1>9, <1>10, <1>11, <1>12 DEF StreamInv

-----------------------------------------------------------------------------
(* Whatever the host sends *)

\* The service and bus access have bytes, of any meaning.
BytesOK ==
  /\ wire \in Seq(alt_u8) /\ asking \in Seq(alt_u8)
  /\ SvcOK(svc) /\ AvmOK(avm)

LineInv == SourceInv /\ BytesOK

\* The host sends bytes.
LEMMA HostBytes ==
  ASSUME BytesOK, HostStep
  PROVE  BytesOK'
<1>1. /\ {AST_SOP, AST_EOP_PREFIX, AST_CHANNEL_PREFIX} \subseteq alt_u8
      /\ {Avm, Pipe} \subseteq alt_u8 /\ Packets \subseteq Seq(alt_u8) /\ PipeBytes \subseteq alt_u8
      /\ PipeFraming \subseteq Seq(alt_u8)
  <2>1. PipeFraming \subseteq Seq({AST_SOP, AST_EOP_PREFIX}) /\ {AST_SOP, AST_EOP_PREFIX} \subseteq alt_u8
    BY Bytes, BridgeAssumption
  <2> QED BY <2>1, Bytes, BridgeAssumption
<1>2. ASSUME NEW s \in Seq(alt_u8), NEW z \in Seq(alt_u8), HostSends(s \o z), asking' \in Seq(alt_u8)
      PROVE  BytesOK'
  <2>1. wire \in Seq(alt_u8) /\ wire' = wire \o (s \o z) /\ svc' = svc /\ avm' = avm
    BY <1>2 DEF BytesOK, HostSends
  <2>2. wire' \in Seq(alt_u8)
    BY <1>2, <2>1, ConcatProperties
  <2> QED BY <1>2, <2>1, <2>2 DEF BytesOK
<1>3. <<>> \in Seq(alt_u8)
  OBVIOUS
<1>4. ASSUME NEW n \in {Avm, Pipe}, HostSelect(n) PROVE BytesOK'
  <2>1. <<AST_CHANNEL_PREFIX>> \in Seq(alt_u8) /\ Escaped(n) \in Seq(alt_u8)
    BY <1>1, EscapeFacts
  <2>2. HostSends(<<AST_CHANNEL_PREFIX>> \o Escaped(n)) /\ asking' \in Seq(alt_u8)
    BY <1>4 DEF HostSelect, BytesOK
  <2> QED BY <1>2, <2>1, <2>2
<1>5. ASSUME NEW p \in Packets, HostAsk(p) PROVE BytesOK'
  <2>1. <<AST_SOP>> \in Seq(alt_u8) /\ <<AST_SOP>> \o <<>> = <<AST_SOP>>
    BY <1>1
  <2>2. HostSends(<<AST_SOP>>) /\ asking' \in Seq(alt_u8)
    BY <1>1, <1>5 DEF HostAsk
  <2> QED BY <1>2, <1>3, <2>1, <2>2
<1>6. CASE HostTell
  <2>1. asking # <<>> /\ asking \in Seq(alt_u8)
    BY <1>6 DEF HostTell, BytesOK
  <2>2. Head(asking) \in alt_u8 /\ Tail(asking) \in Seq(alt_u8)
    BY <2>1, HeadTailProperties
  <2> DEFINE f == IF Len(asking) = 1 THEN <<AST_EOP_PREFIX>> ELSE <<>>
  <2>3. f \in Seq(alt_u8) /\ Escaped(Head(asking)) \in Seq(alt_u8)
    BY <1>1, <1>3, <2>2, EscapeFacts
  <2>4. HostSends(f \o Escaped(Head(asking))) /\ asking' = Tail(asking)
    BY <1>6 DEF HostTell
  <2> QED BY <1>2, <2>2, <2>3, <2>4
<1>7. ASSUME NEW x \in PipeBytes, HostType(x) PROVE BytesOK'
  <2>1. PICK f \in PipeFraming : HostSends(f \o Escaped(x))
    BY <1>7 DEF HostType
  <2>2. f \in Seq(alt_u8) /\ Escaped(x) \in Seq(alt_u8) /\ asking' \in Seq(alt_u8)
    BY <1>1, <1>7, <2>1, EscapeFacts DEF HostType, BytesOK
  <2> QED BY <1>2, <2>1, <2>2
<1> QED BY <1>4, <1>5, <1>6, <1>7 DEF HostStep

\* Next1 and Drop stay in the buffer.
LEMMA DropOK ==
  ASSUME NEW s, SvcOK(s), s.index < s.read_len
  PROVE  SvcOK(Next1(s)) /\ SvcOK(Next1(Drop(s)))
<1> DEFINE n == s.read_len - 1 - s.index
           b == [i \in DOMAIN s.buffer |-> IF i <= n THEN s.buffer[i + 1] ELSE s.buffer[i]]
           l == Len(s.buffer)
           r == s.read_len - 1
           j == s.index + 1
<1>1. /\ s \in SvcStates /\ s.buffer \in Seq(alt_u8) /\ s.read_len \in Nat /\ s.index \in Nat
      /\ s.read_len <= l /\ l \in Nat /\ DOMAIN s.buffer = 1..l
  BY LenProperties DEF SvcOK, SvcStates
<1>2. n + 1 <= l /\ r \in Nat /\ r <= l /\ n \in Nat /\ j \in Nat
  <2> HIDE DEF l
  <2> QED BY <1>1
<1>3. b \in Seq(alt_u8) /\ Len(b) = l
  <2>1. \A i \in 1..l : b[i] \in alt_u8
    <3> SUFFICES ASSUME NEW i \in 1..l PROVE b[i] \in alt_u8
      OBVIOUS
    <3>1. i <= n => i + 1 \in 1..l
      <4> HIDE DEF l, n
      <4> QED BY <1>1, <1>2
    <3>2. s.buffer[i] \in alt_u8 /\ (i <= n => s.buffer[i + 1] \in alt_u8)
      BY <1>1, <3>1, ElementOfSeq
    <3> QED BY <1>1, <3>2
  <2>2. b = [i \in 1..l |-> b[i]] /\ DOMAIN b = 1..l
    BY <1>1
  <2> HIDE DEF b, l
  <2>3. b \in [1..l -> alt_u8]
    BY <2>1, <2>2
  <2> QED BY <1>1, <2>3, SeqDef, LenProperties
<1>4. Drop(s) = [s EXCEPT !.read_len = r, !.buffer = b]
  BY DEF Drop
<1> HIDE DEF n, b, l, r
<1>5. SvcOK(Next1(s))
  <2>1. Next1(s) = [s EXCEPT !.index = j]
    BY DEF Next1
  <2> HIDE DEF j
  <2> QED BY <1>1, <1>2, <2>1 DEF SvcOK, SvcStates, l
<1>6. SvcOK(Next1(Drop(s)))
  <2>1. Drop(s) \in SvcStates /\ Drop(s).index = s.index /\ Drop(s).read_len = r /\ Drop(s).buffer = b
    BY <1>1, <1>2, <1>3, <1>4 DEF SvcStates
  <2>2. Next1(Drop(s)) = [Drop(s) EXCEPT !.index = j]
    BY <2>1 DEF Next1
  <2> HIDE DEF j
  <2> QED BY <1>2, <1>3, <2>1, <2>2 DEF SvcOK, SvcStates
<1> QED BY <1>5, <1>6

\* The service works on bytes.
LEMMA ServiceBytes ==
  ASSUME BytesOK, ServiceStep
  PROVE  BytesOK'
<1>1. wire \in Seq(alt_u8) /\ SvcOK(svc) /\ svc \in SvcStates /\ svc.buffer \in Seq(alt_u8)
  BY DEF BytesOK, SvcOK, SvcStates
<1>2. asking' \in Seq(alt_u8) /\ AvmOK(avm)'
  BY DEF BytesOK, ServiceStep, ServiceRead, ServicePrefix, ServiceSelect, ServiceByte, ServiceRest
<1>3. CASE ServiceRead
  <2>1. PICK n \in 1..Len(wire) :
          /\ svc' = [pc |-> "loop", buffer |-> SubSeq(wire, 1, n), read_len |-> n,
                     index |-> 0, head |-> 0, sink |-> <<>>]
          /\ wire' = SubSeq(wire, n + 1, Len(wire))
    BY <1>3 DEF ServiceRead
  <2> DEFINE b == SubSeq(wire, 1, n)
  <2>2. b \in Seq(alt_u8) /\ Len(b) = n /\ wire' \in Seq(alt_u8) /\ n \in Nat
    BY <1>1, <2>1
  <2> HIDE DEF b
  <2>3. svc' = [pc |-> "loop", buffer |-> b, read_len |-> n, index |-> 0, head |-> 0, sink |-> <<>>]
    BY <2>1 DEF b
  <2>4. SvcOK(svc)'
    <3>1. <<>> \in Seq(alt_u8) /\ 0 \in Nat
      OBVIOUS
    <3> QED BY <2>2, <2>3, <3>1 DEF SvcOK, SvcStates
  <2> QED BY <1>2, <2>2, <2>4 DEF BytesOK
<1>4. CASE ServicePrefix
  <2>1. wire' = wire /\ svc.index < svc.read_len /\ svc' \in {Next1(svc), Next1(Drop(svc))}
    BY <1>4 DEF ServicePrefix
  <2>2. SvcOK(svc)'
    BY <1>1, <2>1, DropOK
  <2> QED BY <1>1, <1>2, <2>1, <2>2 DEF BytesOK
<1>5. CASE ServiceByte
  <2> DEFINE c == svc.index + 1
             x == Unescaped(Current)
             v == [svc.buffer EXCEPT ![c] = x]
             w == [svc EXCEPT !.buffer = v]
  <2>1. wire' = wire /\ svc.index < svc.read_len /\ svc' \in {Next1(svc), Next1(w), Next1(Drop(w))}
    BY <1>5 DEF ServiceByte
  <2>2. c \in 1..Len(svc.buffer) /\ x \in alt_u8
    <3>1. svc.index \in Nat /\ svc.read_len \in Nat /\ svc.read_len <= Len(svc.buffer) /\ Len(svc.buffer) \in Nat
      BY <1>1, LenProperties DEF SvcOK, SvcStates
    <3>2. c \in 1..Len(svc.buffer)
      BY <2>1, <3>1
    <3>3. Current \in alt_u8
      BY <1>1, <3>2, ElementOfSeq DEF Current
    <3> QED BY <3>2, <3>3, EscapeFacts DEF Unescaped
  <2> HIDE DEF c, x
  <2>3. v \in Seq(alt_u8) /\ Len(v) = Len(svc.buffer)
    BY <1>1, <2>2, ExceptSeq
  <2> HIDE DEF v
  <2>4. SvcOK(w) /\ w.index = svc.index /\ w.read_len = svc.read_len
    BY <1>1, <2>3 DEF SvcOK, SvcStates
  <2> HIDE DEF w
  <2>5. SvcOK(svc)'
    BY <1>1, <2>1, <2>4, DropOK
  <2> QED BY <1>1, <1>2, <2>1, <2>5 DEF BytesOK
<1>6. ASSUME NEW s \in Seq(alt_u8) PROVE ToAvm(s) \in Seq(alt_u8)
  BY DEF ToAvm
<1>7. CASE ServiceSelect
  <2> DEFINE s == Slice(svc.head, svc.index - 1)
             z == ToAvm(s)
             j == svc.index + 1
  <2>1. svc.index < svc.read_len /\ wire' = wire /\ svc' = [Next1(svc) EXCEPT !.head = j, !.sink = z]
    BY <1>7 DEF ServiceSelect
  <2>2. svc.index \in Nat /\ svc.head \in Nat /\ svc.read_len \in Nat
    BY <1>1 DEF SvcStates
  <2>3. svc.index - 1 \in Int /\ svc.index - 1 <= svc.read_len /\ j \in Nat
    BY <2>1, <2>2
  <2>4. s \in Seq(alt_u8)
    BY <1>1, <2>2, <2>3, BufferSlices
  <2> HIDE DEF s
  <2>5. z \in Seq(alt_u8)
    BY <1>6, <2>4
  <2> HIDE DEF z
  <2>6. SvcOK(Next1(svc))
    BY <1>1, <2>1, DropOK
  <2> HIDE DEF j
  <2>7. SvcOK(svc)'
    <3> DEFINE w == Next1(svc)
    <3>1. svc' = [w EXCEPT !.head = j, !.sink = z] /\ SvcOK(w)
      BY <2>1, <2>6
    <3> HIDE DEF w
    <3> QED BY <2>3, <2>5, <3>1 DEF SvcOK, SvcStates
  <2> QED BY <1>1, <1>2, <2>1, <2>7 DEF BytesOK
<1>8. CASE ServiceRest
  <2> DEFINE s == Slice(svc.head, svc.read_len)
             z == ToAvm(s)
  <2>1. wire' = wire /\ svc' = [NoBuffer EXCEPT !.sink = z]
    BY <1>8 DEF ServiceRest
  <2>2. svc.head \in Nat /\ svc.read_len \in Nat
    BY <1>1 DEF SvcStates
  <2>3. s \in Seq(alt_u8)
    BY <1>1, <2>2, BufferSlices
  <2> HIDE DEF s
  <2>4. z \in Seq(alt_u8)
    BY <1>6, <2>3
  <2> HIDE DEF z
  <2>5. NoBuffer \in SvcStates /\ NoBuffer.read_len = 0 /\ NoBuffer.buffer = <<>> /\ Len(<<>>) = 0
    <3>1. <<>> \in Seq(alt_u8) /\ 0 \in Nat
      OBVIOUS
    <3> QED BY <3>1 DEF NoBuffer, SvcStates
  <2>6. SvcOK(svc)'
    BY <2>1, <2>4, <2>5 DEF SvcOK, SvcStates
  <2> QED BY <1>1, <1>2, <2>1, <2>6 DEF BytesOK
<1> QED BY <1>3, <1>4, <1>5, <1>7, <1>8 DEF ServiceStep

\* Bus access takes a byte.
LEMMA AvmBytes ==
  ASSUME BytesOK, AvmByte, NEW b, b = Head(svc.sink)
  PROVE  BytesOK' /\ b \in alt_u8
<1>1. svc.sink # <<>> /\ svc \in SvcStates /\ svc.sink \in Seq(alt_u8) /\ wire' = wire /\ asking' = asking
  BY DEF AvmByte, AvmTurn, BytesOK, SvcOK, SvcStates
<1>2. b \in alt_u8 /\ Tail(svc.sink) \in Seq(alt_u8)
  BY <1>1, HeadTailProperties
<1>3. avm' = AvmStep(avm, b) /\ svc' = [svc EXCEPT !.sink = Tail(svc.sink)]
  BY AvmByteEffect
<1>4. AvmOK(avm)'
  BY <1>2, <1>3, AvmStepOK DEF BytesOK
<1>5. SvcOK(svc)'
  <2> DEFINE z == Tail(svc.sink)
  <2> HIDE DEF z
  <2>1. z \in Seq(alt_u8) /\ svc' = [svc EXCEPT !.sink = z] /\ SvcOK(svc)
    BY <1>2, <1>3 DEF z, BytesOK
  <2> QED BY <2>1 DEF SvcOK, SvcStates
<1> QED BY <1>1, <1>2, <1>4, <1>5 DEF BytesOK

\* Whoever calls the source brings a message.
LEMMA OtherSendsInv ==
  ASSUME SourceInv, NEW t \in Thread, NEW m \in Message[t], SourceCall(t, m)
  PROVE  SourceInv'
<1>1. m \in Messages
  BY DEF Messages
<1>2. m \in AnyMessage
  BY <1>1 DEF AnyMessage
<1>3. IsMessage(m)
  BY SourceAssumption DEF IsMessage
<1> QED BY <1>2, <1>3, SourceCallInv

\* The steps of a call.
LEMMA SourceStepInv ==
  ASSUME SourceInv, NEW t \in Thread, SourceStep(t)
  PROVE  SourceInv'
BY SourcePendInv, SourceChannelInv, SourceFrameInv, WriteToHostInv, SourcePostInv DEF SourceStep

\* The host and the service do not touch the source.
LEMMA SourceAlone ==
  ASSUME SourceInv, UNCHANGED sourceVars
  PROVE  SourceInv'
BY DEF sourceVars, SourceInv, SourceTypeOK, OneInside, Inside, HostWaits, Fresh, BufferOK, Halfway, Sending, At

\* The calls of the source do not touch the stream from the host.
LEMMA StreamAlone ==
  ASSUME StreamInv, UNCHANGED <<wire, selected, asked, asking, typed, state, svc, avm>>
  PROVE  StreamInv'
<1>1. PICK m \in Flows, g \in Flows : Due(m) /\ Held(m) /\ Flow(m, Rest, g) /\ Ended(g)
  BY DEF StreamInv
<1>2. Rest' = Rest /\ Gathered' = Gathered /\ LoopOK' /\ BridgeTypeOK'
  BY DEF StreamInv, Rest, Gathered, Slice, LoopOK, BridgeTypeOK
<1>3. Due(m)' /\ Held(m)'
  BY <1>1, <1>2 DEF Due, Listening, Held, BusGets
<1>4. Ended(g)'
  BY <1>1, EndedFrame
<1> QED BY <1>1, <1>2, <1>3, <1>4 DEF StreamInv

\* Bus access answers with a message.
LEMMA AvmByteSource ==
  ASSUME SourceInv, BytesOK, AvmByte
  PROVE  SourceInv'
<1>1. PICK b : b = Head(svc.sink)
  OBVIOUS
<1> DEFINE x == Meaning(avm, b)
           m == Answer(avm, Header(avm, x))
<1>2. /\ b \in alt_u8
      /\ ~Ends(avm, b) => call' = call
      /\ Ends(avm, b) => SourceCall(Service, m)
  BY <1>1, AvmBytes, AvmByteEffect
<1>3. AvmOK(avm) /\ x \in alt_u8 /\ Service \in Thread
  BY <1>2, EscapeFacts, BridgeAssumption DEF Meaning, BytesOK
<1>4. m \in AnyMessage /\ IsMessage(m)
  BY <1>3, AnswerOK
<1>5. CASE Ends(avm, b)
  <2>1. PICK n \in AnyMessage : n = m /\ IsMessage(n)
    BY <1>4
  <2> HIDE DEF m
  <2>2. SourceCall(Service, n)
    BY <1>2, <1>5, <2>1
  <2> QED BY <1>3, <2>1, <2>2, SourceCallInv
<1>6. CASE ~Ends(avm, b)
  <2>1. UNCHANGED sourceVars
    BY <1>2, <1>6 DEF AvmByte, sourceVars
  <2> QED BY <2>1, SourceAlone
<1> QED BY <1>5, <1>6

\* Every step keeps what does not depend on the host.
LEMMA LineStep ==
  ASSUME LineInv, [BridgeNext]_bridgeVars
  PROVE  LineInv'
<1> USE DEF LineInv
<1>1. CASE HostStep
  <2>1. UNCHANGED sourceVars
    BY <1>1 DEF HostStep, HostSelect, HostAsk, HostTell, HostType, HostSends
  <2> QED BY <1>1, <2>1, HostBytes, SourceAlone
<1>2. CASE ServiceStep
  <2>1. UNCHANGED sourceVars
    BY <1>2 DEF ServiceStep, ServiceRead, ServicePrefix, ServiceSelect, ServiceByte, ServiceRest
  <2> QED BY <1>2, <2>1, ServiceBytes, SourceAlone
<1>3. CASE AvmByte
  BY <1>3, AvmByteSource, AvmBytes
<1>4. ASSUME UNCHANGED <<wire, asking, svc, avm>> PROVE BytesOK'
  BY <1>4 DEF BytesOK
<1>5. ASSUME NEW t \in Thread, OtherSends(t) PROVE LineInv'
  <2>1. PICK m \in Message[t] : SourceCall(t, m)
    BY <1>5 DEF OtherSends
  <2>2. BytesOK'
    BY <1>4, <1>5 DEF OtherSends
  <2> QED BY <2>1, <2>2, OtherSendsInv
<1>6. ASSUME NEW t \in Thread, Sends(t) PROVE LineInv'
  BY <1>4, <1>6, SourceStepInv DEF Sends
<1>7. CASE UNCHANGED bridgeVars
  <2>1. UNCHANGED sourceVars /\ UNCHANGED <<wire, asking, svc, avm>>
    BY <1>7 DEF bridgeVars, sourceVars
  <2> QED BY <1>4, <2>1, SourceAlone
<1> QED BY <1>1, <1>2, <1>3, <1>5, <1>6, <1>7 DEF BridgeNext

\* The invariant, of a host that sends the pipe no byte that looks like framing.
BridgeInv == LineInv /\ StreamInv

\* Every step keeps the invariant.
LEMMA BridgeStep ==
  ASSUME PlainPipe, BridgeInv, [BridgeNext]_bridgeVars
  PROVE  BridgeInv'
<1>1. LineInv' /\ StreamInv
  BY LineStep DEF BridgeInv
<1>2. CASE HostStep
  <2>1. \A x \in PipeBytes : x \in PlainBytes
    BY DEF PlainPipe, PlainBytes
  <2>2. StreamInv'
    BY <1>1, <1>2, <2>1, HostSelectInv, HostAskInv, HostTellInv, HostTypeInv DEF HostStep
  <2> QED BY <1>1, <2>2 DEF BridgeInv
<1>3. CASE ServiceStep
  <2>1. StreamInv'
    BY <1>1, <1>3, ServiceReadInv, ServicePrefixInv, ServiceSelectInv, ServiceByteInv, ServiceRestInv DEF ServiceStep
  <2> QED BY <1>1, <2>1 DEF BridgeInv
<1>4. CASE AvmByte
  BY <1>1, <1>4, AvmByteInv DEF BridgeInv
<1>5. CASE UNCHANGED <<wire, selected, asked, asking, typed, state, svc, avm>>
  BY <1>1, <1>5, StreamAlone DEF BridgeInv
<1>6. ASSUME NEW t \in Thread, OtherSends(t) \/ Sends(t) PROVE BridgeInv'
  BY <1>5, <1>6 DEF OtherSends, Sends
<1>7. CASE UNCHANGED bridgeVars
  BY <1>5, <1>7 DEF bridgeVars
<1> QED BY <1>2, <1>3, <1>4, <1>6, <1>7 DEF BridgeNext

\* Nothing is on its way at first.
LEMMA BridgeStart ==
  ASSUME BridgeInit
  PROVE  BridgeInv
<1>1. SourceInv
  <2>1. /\ lock = 1 /\ source_channel_number = -1 /\ call = [t \in Thread |-> Idle]
        /\ host = [channel |-> -1, prefix |-> FALSE, escape |-> FALSE, sop |-> FALSE, eop |-> FALSE, heard |-> <<>>]
    BY DEF BridgeInit, SourceInit
  <2>2. Idle \in Calls /\ Idle.pc = "idle" /\ Idle.out = <<>>
    <3>1. <<>> \in Seq(alt_u8)
      OBVIOUS
    <3> QED BY <3>1 DEF Idle, Calls, AnyMessage
  <2>3. call \in [Thread -> Calls] /\ \A t \in Thread : call[t].pc = "idle" /\ call[t].out = <<>>
    BY <2>1, <2>2
  <2>4. host = Heard(source_channel_number, <<>>)
    BY <2>1, Zenon DEF Heard, HostAt, No
  <2>5. SourceTypeOK
    BY <2>1, <2>3 DEF SourceTypeOK
  <2>6. OneInside /\ HostWaits /\ Fresh /\ BufferOK /\ Halfway
    BY <2>3, <2>4 DEF OneInside, Inside, HostWaits, Fresh, BufferOK, Halfway, At
  <2> QED BY <2>5, <2>6 DEF SourceInv
<1>2. StreamInv
  <2>1. /\ wire = <<>> /\ selected = NULL /\ asked = <<>> /\ asking = <<>> /\ typed = <<>>
        /\ svc = [pc |-> "read", buffer |-> <<>>, read_len |-> 0, index |-> 0, head |-> 0, sink |-> <<>>]
    BY DEF BridgeInit, NoBuffer
  <2>2. state \in States /\ state.sink_channel = NULL /\ ~state.channel_prefix /\ ~state.escape_prefix
    BY DEF BridgeInit, States
  <2>3. AvmOK(avm) /\ ~avm.escape_prefix /\ ~avm.inside_packet
    <3>1. <<>> \in Seq(alt_u8) /\ Len(<<>>) = 0 /\ 0 \in Nat
      OBVIOUS
    <3>2. avm \in AvmStates /\ avm.offset = 0 /\ avm.buffer = <<>> /\ ~avm.escape_prefix /\ ~avm.inside_packet
      BY <3>1 DEF BridgeInit, AvmIdle, AvmStates
    <3>3. 0 < AVM_OFFSET_FULL
      BY BridgeAssumption
    <3> QED BY <3>1, <3>2, <3>3 DEF AvmOK
  <2>4. <<>> \in Seq(alt_u8) /\ <<>> \in Seq(Packets) /\ <<>> \in Seq(PlainBytes) /\ Len(<<>>) = 0 /\ 0 \in Nat
    OBVIOUS
  <2>5. svc \in SvcStates /\ svc.read_len = 0 /\ svc.buffer = <<>> /\ svc.index = 0 /\ svc.head = 0 /\ svc.sink = <<>>
    BY <2>1, <2>4 DEF SvcStates
  <2>6. BridgeTypeOK /\ LoopOK
    BY <2>1, <2>2, <2>3, <2>4, <2>5 DEF BridgeTypeOK, SvcOK, LoopOK
  <2>7. Rest = <<>> /\ Gathered = <<>>
    <3>1. Slice(svc.index, svc.read_len) = <<>> /\ Gathered = <<>>
      BY <2>5, <2>6, Slices, Parts
    <3> QED BY <2>1, <3>1 DEF Rest
  <2> DEFINE m == FlowAt(NULL, avm, <<>>, <<>>)
  <2>8. m \in Flows /\ m.place = NULL /\ m.avm = avm /\ m.asked = <<>> /\ m.typed = <<>>
    BY <2>3, <2>4 DEF FlowAt, Flows, Places, AvmOK
  <2> HIDE DEF m
  <2>9. Flow(m, Rest, m)
    BY <2>7, <2>8, FlowNothing
  <2>10. Due(m)
    BY <2>2, <2>3, <2>8 DEF Due, Listening
  <2>11. Held(m)
    <3>1. BusGets(Gathered, m)
      BY <2>1, <2>3, <2>4, <2>7, <2>8, NothingToDo DEF BusGets
    <3>2. Pipe # NULL
      BY Bytes
    <3> QED BY <2>2, <2>5, <2>7, <3>1, <3>2 DEF Held
  <2>12. Ended(m)
    BY <2>1, <2>3, <2>8 DEF Ended
  <2> QED BY <2>1, <2>6, <2>8, <2>9, <2>10, <2>11, <2>12 DEF StreamInv
<1>3. BytesOK
  BY <1>2 DEF StreamInv, BridgeTypeOK, BytesOK
<1> QED BY <1>1, <1>2, <1>3 DEF BridgeInv, LineInv

\* What does not depend on the host holds.
LEMMA LineInvariant == BridgeSpec => []LineInv
<1>1. BridgeInit => LineInv
  BY BridgeStart DEF BridgeInv
<1>2. LineInv /\ [BridgeNext]_bridgeVars => LineInv'
  BY LineStep
<1> QED BY <1>1, <1>2, PTL DEF BridgeSpec

\* The invariant of the bridge holds: the lock admits one call, the host has
\* heard what is encoded and not in the buffer, and the bytes on their way from
\* the host lead to the packets and bytes that are waited for.
THEOREM BridgeCorrect == ASSUME PlainPipe PROVE BridgeSpec => []BridgeInv
<1>1. BridgeInit => BridgeInv
  BY BridgeStart
<1>2. BridgeInv /\ [BridgeNext]_bridgeVars => BridgeInv'
  BY BridgeStep
<1> QED BY <1>1, <1>2, PTL DEF BridgeSpec

\* When a call of the source is done, the host has heard the whole message, in
\* its channel and framed as the packet it is, whatever other threads sent
\* (peridot_sw_hostbridge_gen2_source).
THEOREM MessagesHeardWhole == BridgeSpec => []HostHears
<1>1. LineInv => HostHears
  <2> SUFFICES ASSUME LineInv, NEW t \in Thread, At(t, "frame"), call[t].left = <<>>
               PROVE  host.heard = Meant(call[t].message)
    BY DEF HostHears
  <2>1. host = Heard(source_channel_number, Meant(call[t].message))
    BY SourceDone DEF LineInv
  <2> QED BY <2>1 DEF Heard, HostAt
<1> QED BY <1>1, LineInvariant, PTL

\* The loop of the source never puts more into its buffer than the two bytes
\* beyond WRITE_BUFFER_LEN that it has for them.
THEOREM OutputNeverTooLong == BridgeSpec => []OutputFits
<1>1. LineInv => OutputFits
  <2> SUFFICES ASSUME LineInv, NEW t \in Thread PROVE Len(call[t].out) <= WRITE_BUFFER_LEN + 2
    BY DEF OutputFits
  <2>1. SourceTypeOK /\ Fresh /\ BufferOK
    BY DEF LineInv, SourceInv
  <2>2. /\ call[t].pc \in {"idle", "pend", "channel", "frame", "write"} /\ call[t].out \in Seq(alt_u8)
        /\ WRITE_BUFFER_LEN \in Nat
    BY <2>1, SourceAssumption DEF SourceTypeOK, Calls
  <2> DEFINE n == Len(call[t].out)
  <2>3. n \in Nat /\ (call[t].out = <<>> => n = 0)
    BY <2>2, LenProperties
  <2>4. call[t].pc \in {"idle", "pend", "channel"} => n = 0
    BY <2>1, <2>3 DEF Fresh
  <2>5. call[t].pc = "frame" => n < WRITE_BUFFER_LEN
    BY <2>1 DEF BufferOK, At
  <2>6. call[t].pc = "write" => n <= WRITE_BUFFER_LEN + 2
    BY <2>1 DEF BufferOK, At
  <2> HIDE DEF n
  <2>7. n <= WRITE_BUFFER_LEN + 2
    BY <2>2, <2>3, <2>4, <2>5, <2>6
  <2> QED BY <2>7 DEF n
<1> QED BY <1>1, LineInvariant, PTL

\* When the service waits for bytes and none are on the wire, each packet has
\* been answered and each byte of the pipe has arrived.
THEOREM NothingStaysBehind == ASSUME PlainPipe PROVE BridgeSpec => []NothingLost
<1>1. BridgeInv => NothingLost
  <2> SUFFICES ASSUME BridgeInv, wire = <<>>, asking = <<>>, svc.pc = "read", svc.sink = <<>>
               PROVE  asked = <<>> /\ typed = <<>>
    BY DEF NothingLost, Looping
  <2>1. StreamInv /\ BridgeTypeOK /\ LoopOK
    BY DEF BridgeInv, StreamInv
  <2>2. PICK m \in Flows, g \in Flows : Due(m) /\ Held(m) /\ Flow(m, Rest, g) /\ Ended(g)
    BY <2>1 DEF StreamInv
  <2>3. svc.read_len = 0 /\ svc.index = 0 /\ svc.head = 0
    BY <2>1 DEF LoopOK, BridgeTypeOK, SvcOK, SvcStates
  <2>4. Rest = <<>> /\ Gathered = <<>>
    <3>1. Slice(svc.index, svc.read_len) = <<>> /\ Gathered = <<>>
      BY <2>1, <2>3, Slices, Parts
    <3> QED BY <3>1 DEF Rest
  <2>5. m.asked = <<>> /\ m.typed = <<>>
    <3>1. m = g
      BY <2>2, <2>4, FlowNothing
    <3> QED BY <2>2, <3>1 DEF Ended
  <2>6. CASE state.sink_channel = Pipe
    BY <2>2, <2>4, <2>5, <2>6 DEF Held
  <2>7. CASE state.sink_channel # Pipe
    <3>1. BusGets(<<>>, m)
      BY <2>2, <2>4, <2>7 DEF Held
    <3>2. AvmOK(avm) /\ asked \in Seq(Packets) /\ typed \in Seq(PlainBytes)
      BY <2>1 DEF BridgeTypeOK
    <3> QED BY <2>5, <3>1, <3>2, NothingToDo DEF BusGets
  <2> QED BY <2>6, <2>7
<1> QED BY <1>1, BridgeCorrect, PTL

\* Whenever bus access answers (avm_sink), it sends what the oldest packet that
\* is not answered asks for.
THEOREM AnswersAreAsked == ASSUME PlainPipe PROVE BridgeSpec => AvmAnswersAsked
<1> DEFINE A == At(Service, "idle") /\ ~At(Service, "idle")' =>
                  asked # <<>> /\ call'[Service].message = Reply(Head(asked))
<1>1. BridgeInv /\ [BridgeNext]_bridgeVars => A
  <2> SUFFICES ASSUME BridgeInv, [BridgeNext]_bridgeVars, At(Service, "idle"), ~At(Service, "idle")'
               PROVE  asked # <<>> /\ call'[Service].message = Reply(Head(asked))
    OBVIOUS
  <2>1. call'[Service] # call[Service]
    BY DEF At
  <2>2. SourceInv /\ StreamInv /\ call \in [Thread -> Calls] /\ Service \in Thread
    BY BridgeAssumption DEF BridgeInv, LineInv, SourceInv, SourceTypeOK
  <2>3. ~HostStep
    BY <2>1 DEF HostStep, HostSelect, HostAsk, HostTell, HostType, HostSends, sourceVars
  <2>4. ~ServiceStep
    BY <2>1 DEF ServiceStep, ServiceRead, ServicePrefix, ServiceSelect, ServiceByte, ServiceRest, sourceVars
  <2>5. ASSUME NEW t \in Thread PROVE ~OtherSends(t)
    <3> SUFFICES ASSUME OtherSends(t) PROVE FALSE
      OBVIOUS
    <3>1. PICK m \in Message[t] : SourceCall(t, m)
      BY DEF OtherSends
    <3>2. t = Service
      BY <2>1, <2>2, <3>1 DEF SourceCall
    <3> QED BY <3>2, BridgeAssumption
  <2>6. ASSUME NEW t \in Thread PROVE ~Sends(t)
    <3> SUFFICES ASSUME Sends(t) PROVE FALSE
      OBVIOUS
    <3>1. call[t].pc # "idle"
      BY DEF Sends, SourceStep, SourcePend, SourceChannel, SourceFrame, WriteToHost, SourcePost, At
    <3>2. t # Service
      BY <3>1 DEF At
    <3>3. call'[Service] = call[Service]
      BY <2>2, <3>2 DEF Sends, SourceStep, SourcePend, SourceChannel, SourceFrame, WriteToHost, SourcePost
    <3> QED BY <2>1, <3>3
  <2>7. AvmByte
    BY <2>1, <2>3, <2>4, <2>5, <2>6 DEF BridgeNext, bridgeVars
  <2>8. PICK b : b = Head(svc.sink)
    OBVIOUS
  <2> DEFINE n == Answer(avm, Header(avm, Meaning(avm, b)))
  <2>9. /\ AvmLegal(avm, asked, b)
        /\ ~Ends(avm, b) => call' = call
        /\ Ends(avm, b) => SourceCall(Service, n)
    BY <2>2, <2>7, <2>8, AvmByteDoes
  <2>10. asked # <<>> /\ n = Reply(Head(asked))
    BY <2>1, <2>9 DEF AvmLegal
  <2> HIDE DEF n
  <2>11. call'[Service].message = n
    BY <2>1, <2>2, <2>9 DEF SourceCall, Pending
  <2> QED BY <2>10, <2>11
<1>2. BridgeSpec => [][A]_bridgeVars
  BY <1>1, BridgeCorrect, PTL DEF BridgeSpec
<1> QED BY <1>2 DEF AvmAnswersAsked
=============================================================================
