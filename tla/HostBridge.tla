----------------------------- MODULE HostBridge ------------------------------
(***************************************************************************)
(* The way from the host (peridot_sw_hostbridge_gen2.c) and the bus-access *)
(* channel at the end of it (peridot_sw_hostbridge_gen2_avm.c).  The       *)
(* service thread reads bytes in pieces of any length, splits them up by   *)
(* channel, and hands them to the sinks: bus access gets the bytes as they *)
(* are, framing included, a pipe the bytes the framing stands for.  Bus    *)
(* access answers each packet at once, through the source.                 *)
(*                                                                         *)
(* The host switches channels between packets only.  What it sends to the  *)
(* pipe is escaped, and may be framed, as on every channel; the properties *)
(* of a run with PlainPipe are about hosts that have nothing to escape and *)
(* frame nothing there.                                                    *)
(***************************************************************************)
EXTENDS BridgeSource

CONSTANTS
  Service,          \* the thread that runs ..._gen2_worker, one of Thread
  Avm, Pipe,        \* the numbers of the two channels
  Packets,          \* what the host may ask bus access
  PipeBytes,        \* what it may send to the pipe
  PipeFraming,      \* and with what framing before a byte
  AVM_OFFSET_FULL,  \* the bytes of a header
  Memory(_),        \* what there is to read, by the rest of the header
  READ_BUFFER_LEN,
  WireBound         \* the host sends more while there is less on the wire

ASSUME BridgeAssumption ==
  /\ Service \in Thread /\ Message[Service] = {}
  /\ Avm \in alt_u8 /\ Pipe \in alt_u8 /\ Avm # Pipe
  /\ ~AST_NEEDS_ESCAPE(Avm) /\ ~AST_NEEDS_ESCAPE(Pipe)
  /\ Packets \subseteq Seq(alt_u8) \ {<<>>}
  /\ PipeBytes \subseteq alt_u8 /\ PipeFraming \subseteq Seq({AST_SOP, AST_EOP_PREFIX})
  /\ NULL \notin alt_u8 \cup {-1}
  /\ AVM_OFFSET_FULL \in Nat \ {0} /\ READ_BUFFER_LEN \in Nat \ {0}
  /\ \A header \in [1..AVM_OFFSET_FULL - 1 -> alt_u8] : Memory(header) \in Seq(alt_u8)

VARIABLES
  wire,      \* what the host has sent and nobody has read
  selected,  \* the channel the host has selected
  asked,     \* the packets bus access has not answered
  asking,    \* the bytes of the last one that the host has not sent
  typed,     \* what the host has sent to the pipe and the pipe has not got
  taken,     \* what the last call of the pipe's sink took, since the last read
  state,     \* peridot_sw_hostbridge_gen2_state: prefixes, sink_channel
  svc,       \* the locals of ..._gen2_service, and what the sink has to do
  avm        \* peridot_sw_hostbridge_gen2_avm_state

bridgeVars == <<lock, source_channel_number, call, host,
                wire, selected, asked, asking, typed, taken, state, svc, avm>>

-----------------------------------------------------------------------------
(* The host *)

HostSends(bytes) ==
  /\ Len(wire) < WireBound
  /\ wire' = wire \o bytes
  /\ UNCHANGED <<sourceVars, taken, state, svc, avm>>

HostSelect(n) ==
  /\ asking = <<>>
  /\ HostSends(<<AST_CHANNEL_PREFIX>> \o Escaped(n))
  /\ selected' = n
  /\ UNCHANGED <<asked, asking, typed>>

\* A packet begins.
HostAsk(p) ==
  /\ selected = Avm /\ asking = <<>>
  /\ HostSends(<<AST_SOP>>)
  /\ asked' = Append(asked, p) /\ asking' = p
  /\ UNCHANGED <<selected, typed>>

\* The next byte of the packet.
HostTell ==
  /\ asking # <<>>
  /\ HostSends((IF Len(asking) = 1 THEN <<AST_EOP_PREFIX>> ELSE <<>>) \o Escaped(Head(asking)))
  /\ asking' = Tail(asking)
  /\ UNCHANGED <<selected, asked, typed>>

HostType(x) ==
  /\ selected = Pipe /\ asking = <<>>
  /\ \E framing \in PipeFraming : HostSends(framing \o Escaped(x))
  /\ typed' = Append(typed, x)
  /\ UNCHANGED <<selected, asked, asking>>

-----------------------------------------------------------------------------
(* peridot_sw_hostbridge_gen2_service.  Indices count from 0, as in C.      *)

Plain == state.sink_channel = Pipe          \* registered, and not packetized
find_channel(x) == IF x \in {Avm, Pipe} THEN x ELSE NULL
Slice(from, to) == SubSeq(svc.buffer, from + 1, to)

NoBuffer == [pc |-> "read", buffer |-> <<>>, read_len |-> 0, index |-> 0,
             head |-> 0, sink |-> <<>>]

\* No byte of the sink's is left to do.
Looping(pc) == svc.pc = pc /\ svc.sink = <<>> /\ At(Service, "idle")

\* What is left of typed when the pipe gets these bytes: it has got what they
\* begin with, as far as the two agree.
NotYet(bytes) ==
  SubSeq(typed, 1 + Len(LongestCommonPrefix({bytes, typed})), Len(typed))

\* write_to_channel.  The sink of the pipe takes all in the end
\* (HostbridgePipe); that of bus access goes on byte by byte.
WriteToChannel(bytes) ==
  IF state.sink_channel = Pipe /\ bytes # <<>>
  THEN taken' = bytes /\ typed' = NotYet(bytes)
  ELSE UNCHANGED <<taken, typed>>
ToAvm(bytes) == IF state.sink_channel = Avm THEN bytes ELSE <<>>

ServiceRead ==
  /\ Looping("read")
  /\ \E n \in 1..Len(wire) :
       /\ n <= READ_BUFFER_LEN
       /\ svc' = [pc |-> "loop", buffer |-> SubSeq(wire, 1, n), read_len |-> n,
                  index |-> 0, head |-> 0, sink |-> <<>>]
       /\ wire' = SubSeq(wire, n + 1, Len(wire))
  /\ taken' = <<>>
  /\ UNCHANGED <<sourceVars, selected, asked, asking, typed, state, avm>>

Current == svc.buffer[svc.index + 1]
Next1(s) == [s EXCEPT !.index = @ + 1]

\* --read_len; memmove(buffer, buffer + 1, read_len - index)
Drop(s) ==
  LET n == s.read_len - 1 - s.index
  IN  [s EXCEPT !.read_len = @ - 1,
        !.buffer = [i \in DOMAIN @ |-> IF i <= n THEN @[i + 1] ELSE @[i]]]

ServicePrefix ==
  /\ Looping("loop") /\ svc.index < svc.read_len
  /\ \/ /\ Current = AST_CHANNEL_PREFIX
        /\ state' = [state EXCEPT !.channel_prefix = TRUE]
        /\ svc' = Next1(svc)
     \/ /\ Current = AST_ESCAPE_PREFIX
        /\ state' = [state EXCEPT !.escape_prefix = TRUE]
        /\ svc' = Next1(IF Plain THEN Drop(svc) ELSE svc)
  /\ UNCHANGED <<sourceVars, wire, selected, asked, asking, typed, taken, avm>>

Unescaped(x) == IF state.escape_prefix THEN EscapeXor(x) ELSE x
NotData == {AST_CHANNEL_PREFIX, AST_ESCAPE_PREFIX}

\* A faulty variant: the bytes before the prefix are left for the next channel.
ServiceSelectLate ==
  /\ Looping("loop") /\ svc.index < svc.read_len /\ Current \notin NotData
  /\ state.channel_prefix
  /\ state' = [sink_channel |-> find_channel(Unescaped(Current)),
               channel_prefix |-> FALSE, escape_prefix |-> FALSE]
  /\ svc' = [Next1(svc) EXCEPT !.head = svc.index + 1]
  /\ UNCHANGED <<sourceVars, wire, selected, asked, asking, avm, taken, typed>>

\* The byte after a prefix selects a channel.  What came before the prefix,
\* if the prefix was read with this byte, goes to the last one.
ServiceSelect ==
  /\ Looping("loop") /\ svc.index < svc.read_len /\ Current \notin NotData
  /\ state.channel_prefix
  /\ WriteToChannel(Slice(svc.head, svc.index - 1))
  /\ state' = [sink_channel |-> find_channel(Unescaped(Current)),
               channel_prefix |-> FALSE, escape_prefix |-> FALSE]
  /\ svc' = [Next1(svc) EXCEPT !.head = svc.index + 1,
               !.sink = ToAvm(Slice(svc.head, svc.index - 1))]
  /\ UNCHANGED <<sourceVars, wire, selected, asked, asking, avm>>

\* Any other byte.  In the stream of a pipe an escaped byte is replaced by
\* what it stands for, and then dropped if it looks like part of a packet.
ServiceByte ==
  LET x == Unescaped(Current)
      replaced == [svc EXCEPT !.buffer[svc.index + 1] = x]
      dropped == x \in {AST_SOP, AST_EOP_PREFIX}
  IN  /\ Looping("loop") /\ svc.index < svc.read_len /\ Current \notin NotData
      /\ ~state.channel_prefix
      /\ svc' = Next1(IF ~Plain THEN svc ELSE IF dropped THEN Drop(replaced) ELSE replaced)
      /\ state' = [state EXCEPT !.escape_prefix = FALSE]
      /\ UNCHANGED <<sourceVars, wire, selected, asked, asking, typed, taken, avm>>

\* The rest of the buffer, the prefix of a selection at its end included.
ServiceRest ==
  /\ Looping("loop") /\ svc.index >= svc.read_len
  /\ WriteToChannel(Slice(svc.head, svc.read_len))
  /\ svc' = [NoBuffer EXCEPT !.sink = ToAvm(Slice(svc.head, svc.read_len))]
  /\ UNCHANGED <<sourceVars, wire, selected, asked, asking, state, avm>>

-----------------------------------------------------------------------------
(* avm_sink *)

AVM_OFFSET_WRITE == AVM_OFFSET_FULL + 1
AVM_OFFSET_READ  == AVM_OFFSET_FULL + 2
AVM_OFFSET_NOTR  == AVM_OFFSET_FULL + 3

Transaction(command) ==
  CASE command \in {0, 4}   -> AVM_OFFSET_WRITE
    [] command \in {16, 20} -> AVM_OFFSET_READ
    [] OTHER                -> AVM_OFFSET_NOTR

InvertTop(x) == (x + 128) % 256                        \* ^ 0x80

\* The answer at the end of a packet, whose last byte takes the state of the
\* sink from a to b.  The source is told to select the channel again when this
\* byte completes a header that asks for no transaction: flags is set up anew
\* for every byte.
Answer(a, b) ==
  [channel |-> Avm, packetize |-> TRUE,
   reset |-> a.offset < AVM_OFFSET_FULL /\ b.offset = AVM_OFFSET_NOTR /\ Head(b.buffer) = 127,
   data |-> IF b.offset = AVM_OFFSET_READ THEN Memory(Tail(b.buffer))
                                          ELSE <<InvertTop(Head(b.buffer)), 0, 0, 0>>]

AvmIdle == [escape_prefix |-> FALSE, eop_prefix |-> FALSE, inside_packet |-> FALSE,
            offset |-> 0, buffer |-> <<>>]

AvmTurn == svc.sink # <<>> /\ At(Service, "idle")

\* A faulty variant: a packet that begins keeps the offset of the last one.
AvmBeginKeeps(a) == [a EXCEPT !.inside_packet = TRUE, !.eop_prefix = FALSE]

\* The bytes of the last header are forgotten: nothing looks beyond offset.
AvmBegin(a) == [a EXCEPT !.inside_packet = TRUE, !.eop_prefix = FALSE, !.offset = 0, !.buffer = <<>>]

AvmFraming(byte) ==
  /\ byte \in {AST_SOP, AST_EOP_PREFIX, AST_ESCAPE_PREFIX}
  /\ avm' = CASE byte = AST_SOP        -> AvmBegin(avm)
              [] byte = AST_EOP_PREFIX -> [avm EXCEPT !.eop_prefix = TRUE]
              [] OTHER                 -> [avm EXCEPT !.escape_prefix = TRUE]
  /\ UNCHANGED <<call, asked>>

\* The header takes the first bytes, and is looked at once it is whole.
Header(a, x) ==
  LET buffer == IF a.offset < AVM_OFFSET_FULL THEN Append(a.buffer, x) ELSE a.buffer
  IN  [a EXCEPT !.escape_prefix = FALSE, !.buffer = buffer,
         !.offset = IF @ >= AVM_OFFSET_FULL THEN @
                    ELSE IF Len(buffer) = AVM_OFFSET_FULL THEN Transaction(buffer[1])
                    ELSE Len(buffer)]

AvmData(byte) ==
  LET x == IF avm.escape_prefix THEN EscapeXor(byte) ELSE byte
      a == Header(avm, x)
  IN  /\ byte \notin {AST_SOP, AST_EOP_PREFIX, AST_ESCAPE_PREFIX}
      /\ \/ /\ ~avm.inside_packet
            /\ avm' = [avm EXCEPT !.escape_prefix = FALSE]
            /\ UNCHANGED <<call, asked>>
         \/ /\ avm.inside_packet /\ ~avm.eop_prefix
            /\ avm' = a
            /\ UNCHANGED <<call, asked>>
         \/ /\ avm.inside_packet /\ avm.eop_prefix
            /\ avm' = [a EXCEPT !.eop_prefix = FALSE, !.inside_packet = FALSE]
            /\ call' = [call EXCEPT ![Service] = Pending(Answer(avm, a))]
            /\ asked' = IF asked = <<>> THEN asked ELSE Tail(asked)

AvmByte ==
  /\ AvmTurn
  /\ AvmFraming(Head(svc.sink)) \/ AvmData(Head(svc.sink))
  /\ svc' = [svc EXCEPT !.sink = Tail(@)]
  /\ UNCHANGED <<lock, source_channel_number, host, wire, selected, asking, typed, taken, state>>

-----------------------------------------------------------------------------
HostStep ==
  \/ \E n \in {Avm, Pipe} : HostSelect(n)
  \/ \E p \in Packets : HostAsk(p)
  \/ HostTell
  \/ \E x \in PipeBytes : HostType(x)

ServiceStep ==
  ServiceRead \/ ServicePrefix \/ ServiceSelect \/ ServiceByte \/ ServiceRest

OtherSends(t) ==
  /\ \E m \in Message[t] : SourceCall(t, m)
  /\ UNCHANGED <<wire, selected, asked, asking, typed, taken, state, svc, avm>>

Sends(t) ==
  /\ SourceStep(t)
  /\ UNCHANGED <<wire, selected, asked, asking, typed, taken, state, svc, avm>>

BridgeInit ==
  /\ SourceInit
  /\ wire = <<>> /\ selected = NULL
  /\ asked = <<>> /\ asking = <<>> /\ typed = <<>> /\ taken = <<>>
  /\ state = [sink_channel |-> NULL, channel_prefix |-> FALSE, escape_prefix |-> FALSE]
  /\ svc = NoBuffer
  /\ avm = AvmIdle

BridgeNext ==
  HostStep \/ ServiceStep \/ AvmByte \/ \E t \in Thread : OtherSends(t) \/ Sends(t)

BridgeSpec == BridgeInit /\ [][BridgeNext]_bridgeVars

-----------------------------------------------------------------------------
(* Properties *)

Reply(p) ==
  [channel |-> Avm, packetize |-> TRUE, reset |-> Len(p) = AVM_OFFSET_FULL /\ p[1] = 127,
   data |-> IF Len(p) >= AVM_OFFSET_FULL /\ p[1] \in {16, 20}
            THEN Memory(SubSeq(p, 2, AVM_OFFSET_FULL))
            ELSE <<InvertTop(p[1]), 0, 0, 0>>]

\* Bus access sends what the oldest packet asks for, once for each packet,
\* however its bytes were escaped and split among reads.
AvmAnswersAsked ==
  [][At(Service, "idle") /\ ~At(Service, "idle")' =>
       asked # <<>> /\ call'[Service].message = Reply(Head(asked))]_bridgeVars

\* The host sends the pipe no byte that looks like framing.
PlainPipe == PipeFraming = {<<>>} /\ \A x \in PipeBytes : ~AST_NEEDS_ESCAPE(x)

\* What has been read has arrived: nothing stays behind between two reads.
\* Each packet has been answered, and the pipe has got, in order, what was
\* typed.
NothingLost == wire = <<>> /\ asking = <<>> /\ Looping("read") => asked = <<>> /\ typed = <<>>

\* "Drop special byte(s)" (peridot_sw_hostbridge_gen2.c:141 and 162): the sink
\* of a pipe is handed what the host typed, and nothing of the framing.
PipePure == ToSet(taken) \subseteq PipeBytes
=============================================================================
