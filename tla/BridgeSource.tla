---------------------------- MODULE BridgeSource -----------------------------
(***************************************************************************)
(* The way to the host (peridot_sw_hostbridge_gen2.c): the threads that    *)
(* answer or print call peridot_sw_hostbridge_gen2_source with a channel   *)
(* and some bytes.  One stream carries all channels, in the framing of     *)
(* Avalon-ST: a prefix selects the channel for all that follows, a packet  *)
(* begins with AST_SOP and has AST_EOP_PREFIX before its last byte, and    *)
(* bytes that look like these are escaped.                                 *)
(***************************************************************************)
EXTENDS Integers, SequencesExt

AST_SOP == 122
AST_EOP_PREFIX == 123
AST_CHANNEL_PREFIX == 124
AST_ESCAPE_PREFIX == 125

alt_u8 == 0..255
AST_NEEDS_ESCAPE(x) == AST_SOP <= x /\ x <= AST_ESCAPE_PREFIX
EscapeXor(x) == IF (x \div 32) % 2 = 1 THEN x - 32 ELSE x + 32     \* ^ 0x20

CONSTANTS
  Thread,            \* the threads that call the source
  Message,           \* of each thread: what it may send
  WRITE_BUFFER_LEN,
  NULL

ASSUME SourceAssumption ==
  /\ WRITE_BUFFER_LEN \in Nat \ {0, 1}
  /\ \A t \in Thread : \A m \in Message[t] :
       m.channel \in alt_u8 /\ m.packetize \in BOOLEAN /\ m.reset \in BOOLEAN
         /\ m.data \in Seq(alt_u8)

VARIABLES
  lock,                    \* state.lock, a semaphore
  source_channel_number,   \* -1 before the first call
  call,                    \* each thread's call and how far it is
  host                     \* what the host has made of the stream

sourceVars == <<lock, source_channel_number, call, host>>

-----------------------------------------------------------------------------
(* The host takes the stream apart as the framing says.  heard is what it   *)
(* has got since the lock was last taken.                                   *)

Deliver(h, byte) ==
  LET x == IF h.escape THEN EscapeXor(byte) ELSE byte
      item == [channel |-> h.channel, byte |-> x, first |-> h.sop, last |-> h.eop]
  IN  IF h.prefix THEN [h EXCEPT !.channel = x, !.prefix = FALSE, !.escape = FALSE]
      ELSE [h EXCEPT !.heard = Append(@, item),
              !.escape = FALSE, !.sop = FALSE, !.eop = FALSE]

Decode(h, byte) ==
  CASE byte = AST_CHANNEL_PREFIX -> [h EXCEPT !.prefix = TRUE]
    [] byte = AST_ESCAPE_PREFIX  -> [h EXCEPT !.escape = TRUE]
    [] byte = AST_SOP            -> [h EXCEPT !.sop = TRUE]
    [] byte = AST_EOP_PREFIX     -> [h EXCEPT !.eop = TRUE]
    [] OTHER                     -> Deliver(h, byte)

\* What the host should hear of a message: its bytes, in their channel, and
\* which one begins and which one ends a packet.
Meant(m) ==
  [i \in 1..Len(m.data) |->
     [channel |-> m.channel, byte |-> m.data[i],
      first |-> m.packetize /\ i = 1, last |-> m.packetize /\ i = Len(m.data)]]

-----------------------------------------------------------------------------
(* peridot_sw_hostbridge_gen2_source *)

Idle == [pc |-> "idle", message |-> NULL, left |-> <<>>, begun |-> FALSE, out |-> <<>>]
Pending(m) == [pc |-> "pend", message |-> m, left |-> m.data, begun |-> FALSE, out |-> <<>>]
At(t, pc) == call[t].pc = pc

Escaped(x) == IF AST_NEEDS_ESCAPE(x) THEN <<AST_ESCAPE_PREFIX, EscapeXor(x)>> ELSE <<x>>

SourceCall(t, m) ==
  /\ At(t, "idle")
  /\ call' = [call EXCEPT ![t] = Pending(m)]
  /\ UNCHANGED <<lock, source_channel_number, host>>

\* A faulty variant: the lock is not taken.
SourceEnter(t) ==
  /\ At(t, "pend")
  /\ call' = [call EXCEPT ![t].pc = "channel"]
  /\ host' = [host EXCEPT !.heard = <<>>]
  /\ UNCHANGED <<lock, source_channel_number>>

SourcePend(t) ==
  /\ At(t, "pend") /\ lock > 0
  /\ lock' = lock - 1
  /\ call' = [call EXCEPT ![t].pc = "channel"]
  /\ host' = [host EXCEPT !.heard = <<>>]
  /\ UNCHANGED source_channel_number

\* The channel is selected unless it is already.
SourceChannel(t) ==
  LET m == call[t].message
      select == m.channel # source_channel_number \/ m.reset
  IN  /\ At(t, "channel")
      /\ source_channel_number' = m.channel
      /\ call' = [call EXCEPT ![t].pc = IF select THEN "write" ELSE "frame",
                    ![t].out = IF select THEN <<AST_CHANNEL_PREFIX>> \o Escaped(m.channel) ELSE <<>>]
      /\ UNCHANGED <<lock, host>>

\* What the next byte of the message puts into the buffer: up to three bytes,
\* after the beginning of the packet.
Begin(t) == IF call[t].message.packetize /\ ~call[t].begun THEN <<AST_SOP>> ELSE <<>>
End(t) == IF call[t].message.packetize /\ Len(call[t].left) = 1 THEN <<AST_EOP_PREFIX>> ELSE <<>>
Encoded(t) == Begin(t) \o End(t) \o Escaped(Head(call[t].left))

\* A faulty variant: the loop looks one byte too late.
BufferFullLate(buffer) == Len(buffer) > WRITE_BUFFER_LEN

BufferFull(buffer) == Len(buffer) >= WRITE_BUFFER_LEN

\* The buffer takes bytes of the message while it is not full; then it is
\* written.
SourceFrame(t) ==
  LET buffer == call[t].out \o Encoded(t)
      ready == BufferFull(buffer) \/ Len(call[t].left) = 1
  IN  /\ At(t, "frame") /\ call[t].left # <<>>
      /\ call' = [call EXCEPT ![t].pc = IF ready THEN "write" ELSE "frame",
                    ![t].out = buffer, ![t].begun = TRUE, ![t].left = Tail(@)]
      /\ UNCHANGED <<lock, source_channel_number, host>>

\* write_to_host, whose writes may take less than all: byte by byte, which
\* nobody can tell from longer writes.
WriteToHost(t) ==
  /\ At(t, "write")
  /\ host' = Decode(host, Head(call[t].out))
  /\ call' = [call EXCEPT ![t].pc = IF Len(call[t].out) = 1 THEN "frame" ELSE "write",
                ![t].out = Tail(@)]
  /\ UNCHANGED <<lock, source_channel_number>>

SourcePost(t) ==
  /\ At(t, "frame") /\ call[t].out = <<>> /\ call[t].left = <<>>
  /\ lock' = lock + 1
  /\ call' = [call EXCEPT ![t] = Idle]
  /\ UNCHANGED <<source_channel_number, host>>

SourceInit ==
  /\ lock = 1
  /\ source_channel_number = -1
  /\ call = [t \in Thread |-> Idle]
  /\ host = [channel |-> -1, prefix |-> FALSE, escape |-> FALSE, sop |-> FALSE,
             eop |-> FALSE, heard |-> <<>>]

\* The rest of a call.
SourceStep(t) ==
  SourcePend(t) \/ SourceChannel(t) \/ SourceFrame(t) \/ WriteToHost(t) \/ SourcePost(t)

-----------------------------------------------------------------------------
(* Properties *)

\* Whatever threads send at the same time, and however their bytes are split
\* among buffers and writes, the host hears each message whole, in its channel
\* and as the packet it is.
HostHears ==
  \A t \in Thread :
    At(t, "frame") /\ call[t].left = <<>> /\ call[t].out = <<>> =>
      host.heard = Meant(call[t].message)

\* A buffer that is one byte short of full still takes an end of packet and an
\* escaped byte ("alt_u8 buffer[WRITE_BUFFER_LEN + 2]",
\* peridot_sw_hostbridge_gen2.c:291).
OutputFits == \A t \in Thread : Len(call[t].out) <= WRITE_BUFFER_LEN + 2
=============================================================================
