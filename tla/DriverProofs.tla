---------------------------- MODULE DriverProofs ----------------------------
(***************************************************************************)
(* The drivers and the documents of requests and replies, each for every   *)
(* value of its constants: the SPI and the I2C master, for transfers of    *)
(* every length; the serial flash, for every number of threads, sectors    *)
(* and pages; the client file system, for every number of entries,         *)
(* descriptors and workers; documents of any elements.  They share no      *)
(* state; each part below has an inductive invariant of its own.           *)
(***************************************************************************)
EXTENDS Masters, EpcsFatfs, ClientFs, Bson, NaturalsInduction, WellFoundedInduction,
        FiniteSetTheorems, SequenceTheorems, TLAPS

-----------------------------------------------------------------------------
(* The SPI and the I2C master *)

\* The transfer has put a byte and not got its answer; with RDY the answer is
\* there and has not been looked at.
Busy == at \in {"enable", "wait", "check"}
Seen == IF Busy /\ ready THEN Len(wire) - 1 ELSE Len(wire)

OnWire == [op : {"byte"}, to : Slave]
            \cup [op : {"addr", "write", "read", "dummy"}, sc : BOOLEAN, pc : BOOLEAN]

\* The types of the registers, the semaphore and what went over the lines.
MastersTypeOK ==
  /\ kind \in {"spi", "i2c"} /\ at \in Places /\ data \in Seq(Byte)
  /\ ready \in BOOLEAN /\ irqena \in BOOLEAN /\ enabled \in BOOLEAN /\ done \in Nat
  /\ wire \in Seq([sent : OnWire, got : Byte \cup {Ack, Nack}])
  /\ slave_locked \in Slave \cup {NULL}

\* Enabling the interrupt is good for one token, and each byte takes one.
Tokens == done + (IF enabled THEN 1 ELSE 0) <= IF at = "wait" THEN 2 ELSE 1

\* What RDY says of the byte that has been put.
Handshake ==
  /\ ~Busy => ready
  /\ Busy /\ ready => /\ wire # <<>> /\ wire[Len(wire)] = [sent |-> out, got |-> rx]
                      /\ rx \in Answers(out)

\* Where a transfer of the SPI master is: the answers it has seen are those it
\* has dropped and those it has kept.
SpiCall ==
  kind = "spi" =>
    /\ at = "free" => open = slave_locked /\ call = NULL
    /\ at # "free" =>
         /\ call \in [slave : Slave, w : Nat, s : Nat, r : Nat, merge : BOOLEAN, skip : Nat]
         /\ open = call.slave
         /\ \A i \in DOMAIN wire : wire[i].sent.to = call.slave
         /\ call.s > 0 => data = <<>> /\ Seen + call.s = call.skip
         /\ call.s = 0 => Seen >= call.skip + Len(data)
         /\ call.s = 0 /\ call.r > 0 => Seen = call.skip + Len(data)
         /\ \A i \in 1..Len(data) : data[i] = wire[call.skip + i].got
    /\ Busy => out = [op |-> "byte", to |-> call.slave]

\* Of the first n bytes the data are the last, and the only ones that were read.
ReadsAtEnd(n) ==
  /\ Len(data) <= n
  /\ \A i \in 1..n : wire[i].sent.op = "read" <=> i > n - Len(data)
  /\ \A i \in 1..Len(data) : data[i] = wire[n - Len(data) + i].got

\* What is left to do fits the phase, and only what is over has gone wrong.
Coherent(c) ==
  /\ c \in [phase : Phases, w : Nat, r : Nat, err : {"ok", "ENOENT", "ECANCELED"}]
  /\ c.phase \in {"addrw", "write"} => c.w > 0
  /\ c.phase \in {"addrr", "read"} => c.r > 0
  /\ c.phase = "stop" => c.err # "ok"
  /\ c.err # "ok" => c.phase \in {"stop", "end"}

\* Where a transfer of the I2C master is: it goes on as long as all has been
\* acknowledged, and the byte that ends it carries STOP.
I2cCall ==
  kind = "i2c" =>
    /\ at = "free" =>
         /\ open = NULL /\ ReadsAtEnd(Len(wire))
         /\ result # "ENOTSUP" => (result = "ok" <=> \A i \in 1..Len(wire) : wire[i].got # Nack)
    /\ at # "free" =>
         /\ Coherent(call)
         /\ data # <<>> => call.phase \in {"read", "end"}
         /\ call.err = "ok" <=> \A i \in 1..Seen : wire[i].got # Nack
         /\ ReadsAtEnd(Seen)
         /\ ~Busy /\ call.phase = "end" => open = NULL
    /\ Busy => /\ call.phase # "end" /\ out = I2cByte
               /\ ready => open = IF out.pc THEN NULL ELSE "i2c"

MastersInv == MastersTypeOK /\ Tokens /\ Handshake /\ SpiCall /\ I2cCall

-----------------------------------------------------------------------------

\* What an answer may be.
LEMMA AnswerTypes ==
  /\ Ack \notin Byte /\ Nack \notin Byte /\ Ack # Nack /\ NULL \notin Slave /\ NULL # "i2c"
  /\ \A s \in Slave : Answers([op |-> "byte", to |-> s]) = Byte
  /\ \A b \in OnWire : Answers(b) \subseteq Byte \cup {Ack, Nack}
  /\ \A b \in OnWire : b.op \in {"read", "dummy"} => Answers(b) = Byte
BY MasterAssumption DEF Answers, Ack, Nack, OnWire

\* Appending an element.
LEMMA AppendedToWire ==
  ASSUME NEW S, NEW q \in Seq(S), NEW e \in S
  PROVE  /\ Append(q, e) \in Seq(S) /\ Len(Append(q, e)) = Len(q) + 1 /\ Len(q) \in Nat
         /\ DOMAIN Append(q, e) = 1..Len(q)+1 /\ DOMAIN q = 1..Len(q)
         /\ \A i \in 1..Len(q) : Append(q, e)[i] = q[i]
         /\ Append(q, e)[Len(q)+1] = e /\ Append(q, e) # <<>>
BY AppendProperties, LenProperties

\* Both drivers start with a free bus.
LEMMA MastersInitial == MastersInit => MastersInv
<1> SUFFICES ASSUME MastersInit PROVE MastersInv
  OBVIOUS
<1>1. /\ kind \in {"spi", "i2c"} /\ at = "free" /\ call = NULL /\ data = <<>> /\ result = "ok"
      /\ ready = TRUE /\ irqena = FALSE /\ enabled = TRUE /\ done = 0
      /\ wire = <<>> /\ open = NULL /\ slave_locked = NULL
  BY DEF MastersInit, MasterInit
<1>2. MastersTypeOK
  BY <1>1, EmptySeq DEF MastersTypeOK, Places
<1>3. Tokens /\ Handshake
  BY <1>1 DEF Tokens, Handshake, Busy
<1>4. SpiCall /\ I2cCall
  BY <1>1 DEF SpiCall, I2cCall, ReadsAtEnd, Busy
<1> QED BY <1>2, <1>3, <1>4 DEF MastersInv

\* The steps of wait() and of the handler leave the transfer alone.
LEMMA WaitSteps ==
  ASSUME MastersInv, UNCHANGED slave_locked, EnableIrq \/ SemWait \/ WaitAgain \/ Isr
  PROVE  MastersInv'
<1>1. /\ kind' = kind /\ call' = call /\ data' = data /\ result' = result /\ ready' = ready
      /\ irqena' = irqena /\ out' = out /\ rx' = rx /\ wire' = wire /\ open' = open
      /\ slave_locked' = slave_locked
  BY DEF EnableIrq, SemWait, WaitAgain, Isr
<1>2. /\ at' \in Places /\ (Busy' <=> Busy) /\ (at' = "free" <=> at = "free")
  BY DEF EnableIrq, SemWait, WaitAgain, Isr, Busy, MastersInv, MastersTypeOK, Places
<1>3. Tokens' /\ done' \in Nat /\ enabled' \in BOOLEAN
  <2>1. Tokens /\ done \in Nat /\ enabled \in BOOLEAN
    BY DEF MastersInv, MastersTypeOK
  <2>2. CASE EnableIrq
    BY <2>1, <2>2 DEF EnableIrq, Tokens
  <2>3. CASE SemWait
    BY <2>1, <2>3 DEF SemWait, Tokens
  <2>4. CASE WaitAgain
    BY <2>1, <2>4 DEF WaitAgain, Tokens
  <2>5. CASE Isr
    <3>1. enabled /\ ~enabled' /\ enabled' \in BOOLEAN /\ done' = done + 1 /\ at' = at
      BY <2>1, <2>5 DEF Isr
    <3>2. CASE at = "wait"
      BY <2>1, <3>1, <3>2 DEF Tokens
    <3>3. CASE at # "wait"
      BY <2>1, <3>1, <3>3 DEF Tokens
    <3> QED BY <3>2, <3>3
  <2> QED BY <2>2, <2>3, <2>4, <2>5
<1>4. Seen' = Seen
  BY <1>1, <1>2 DEF Seen
<1>5. MastersTypeOK'
  BY <1>1, <1>2, <1>3 DEF MastersInv, MastersTypeOK
<1>6. Handshake'
  BY <1>1, <1>2 DEF MastersInv, Handshake, Answers
<1>7. SpiCall'
  BY <1>1, <1>2, <1>4 DEF MastersInv, SpiCall
<1>8. I2cCall'
  BY <1>1, <1>2, <1>4 DEF MastersInv, I2cCall, ReadsAtEnd, I2cByte
<1> QED BY <1>3, <1>5, <1>6, <1>7, <1>8 DEF MastersInv

\* The master sends the byte that has been put; nobody has looked at the answer.
LEMMA ShiftSteps ==
  ASSUME MastersInv, UNCHANGED slave_locked, ShiftByte
  PROVE  MastersInv'
<1> DEFINE e == [sent |-> out, got |-> rx']
           Rec == [sent : OnWire, got : Byte \cup {Ack, Nack}]
<1>1. /\ ~ready /\ Busy /\ ready' = TRUE /\ rx' \in Answers(out) /\ wire' = Append(wire, e)
      /\ kind' = kind /\ at' = at /\ call' = call /\ data' = data /\ result' = result
      /\ irqena' = irqena /\ out' = out /\ enabled' = enabled /\ done' = done
      /\ slave_locked' = slave_locked /\ Busy' /\ at # "free"
      /\ open' = IF kind = "i2c" THEN (IF out.pc THEN NULL ELSE "i2c") ELSE open
  BY DEF MastersInv, Handshake, ShiftByte, Busy
<1>2. kind \in {"spi", "i2c"} /\ wire \in Seq(Rec) /\ data \in Seq(Byte)
  BY DEF MastersInv, MastersTypeOK
<1>3. out \in OnWire
  <2>1. CASE kind = "spi"
    BY <1>1, <2>1 DEF MastersInv, SpiCall, OnWire
  <2>2. CASE kind = "i2c"
    <3>1. out = I2cByte /\ call.phase \in Phases /\ call.phase # "end" /\ call.w \in Nat /\ call.r \in Nat
      BY <1>1, <2>2 DEF MastersInv, I2cCall, Coherent
    <3> QED BY <3>1 DEF I2cByte, OnWire, Phases
  <2> QED BY <1>2, <2>1, <2>2
<1>4. e \in Rec
  BY <1>1, <1>3, AnswerTypes
<1>5. /\ wire' \in Seq(Rec) /\ Len(wire') = Len(wire) + 1 /\ Len(wire) \in Nat
      /\ DOMAIN wire' = 1..Len(wire)+1 /\ DOMAIN wire = 1..Len(wire)
      /\ \A i \in 1..Len(wire) : wire'[i] = wire[i]
      /\ wire'[Len(wire)+1] = e /\ wire' # <<>>
  BY <1>1, <1>2, <1>4, AppendedToWire
<1>6. Seen' = Len(wire) /\ Seen = Len(wire) /\ Len(data) \in Nat
  BY <1>1, <1>2, <1>5, LenProperties DEF Seen
<1>7. MastersTypeOK' /\ Tokens'
  BY <1>1, <1>5 DEF MastersInv, MastersTypeOK, Tokens
<1>8. Handshake'
  BY <1>1, <1>5 DEF Handshake, Answers
<1>9. SpiCall'
  <2> SUFFICES ASSUME kind = "spi" PROVE SpiCall'
    BY <1>1 DEF SpiCall
  <2>1. /\ call \in [slave : Slave, w : Nat, s : Nat, r : Nat, merge : BOOLEAN, skip : Nat]
        /\ open' = call.slave /\ out = [op |-> "byte", to |-> call.slave]
        /\ call.s > 0 => data = <<>> /\ Seen + call.s = call.skip
        /\ call.s = 0 => Seen >= call.skip + Len(data)
        /\ call.s = 0 /\ call.r > 0 => Seen = call.skip + Len(data)
        /\ \A i \in DOMAIN wire : wire[i].sent.to = call.slave
        /\ \A i \in 1..Len(data) : data[i] = wire[call.skip + i].got
    BY <1>1 DEF MastersInv, SpiCall
  <2>2. \A i \in DOMAIN wire' : wire'[i].sent.to = call.slave
    BY <1>5, <2>1
  <2>3. \A i \in 1..Len(data) : data[i] = wire'[call.skip + i].got
    <3> SUFFICES ASSUME NEW i \in 1..Len(data) PROVE data[i] = wire'[call.skip + i].got
      OBVIOUS
    <3>1. call.s = 0 /\ call.skip + i \in 1..Len(wire)
      BY <1>6, <2>1
    <3> QED BY <1>5, <2>1, <3>1
  <2> QED BY <1>1, <1>6, <2>1, <2>2, <2>3 DEF SpiCall
<1>10. I2cCall'
  <2> SUFFICES ASSUME kind = "i2c" PROVE I2cCall'
    BY <1>1 DEF I2cCall
  <2>1. /\ Coherent(call)
        /\ data # <<>> => call.phase \in {"read", "end"}
        /\ (call.err = "ok" <=> \A i \in 1..Len(wire) : wire[i].got # Nack)
        /\ ReadsAtEnd(Len(wire)) /\ call.phase # "end" /\ out = I2cByte
    BY <1>1, <1>6 DEF MastersInv, I2cCall
  <2>2. call.err = "ok" <=> \A i \in 1..Len(wire) : wire'[i].got # Nack
    BY <1>5, <2>1
  <2>3. /\ Len(data) <= Len(wire)
        /\ \A i \in 1..Len(wire) : wire'[i].sent.op = "read" <=> i > Len(wire) - Len(data)
        /\ \A i \in 1..Len(data) : data[i] = wire'[Len(wire) - Len(data) + i].got
    <3>1. /\ Len(data) <= Len(wire)
          /\ \A i \in 1..Len(wire) : wire'[i].sent.op = "read" <=> i > Len(wire) - Len(data)
      BY <1>5, <2>1 DEF ReadsAtEnd
    <3>2. ASSUME NEW i \in 1..Len(data)
          PROVE  data[i] = wire'[Len(wire) - Len(data) + i].got
      <4>1. Len(wire) - Len(data) + i \in 1..Len(wire)
        BY <1>5, <1>6, <3>1
      <4> QED BY <1>5, <2>1, <4>1 DEF ReadsAtEnd
    <3> QED BY <3>1, <3>2
  <2>4. I2cByte' = I2cByte
    BY <1>1 DEF I2cByte
  <2> QED BY <1>1, <1>6, <2>1, <2>2, <2>3, <2>4 DEF I2cCall, ReadsAtEnd
<1> QED BY <1>7, <1>8, <1>9, <1>10 DEF MastersInv

\* The steps of a transfer between two bytes leave the token of its byte.
LEMMA OtherParts ==
  ASSUME MastersInv, NEW a \in Places, a # "wait", at # "wait", at' = a,
         enabled' = enabled, done' = done, kind' = kind,
         ready' \in BOOLEAN, irqena' \in BOOLEAN, data' \in Seq(Byte), slave_locked' \in Slave \cup {NULL},
         wire' = wire \/ wire' = <<>>
  PROVE  MastersTypeOK' /\ Tokens'
<1>1. wire' \in Seq([sent : OnWire, got : Byte \cup {Ack, Nack}])
  BY EmptySeq DEF MastersInv, MastersTypeOK
<1>2. MastersTypeOK'
  BY <1>1 DEF MastersInv, MastersTypeOK
<1>3. Tokens'
  BY DEF MastersInv, Tokens
<1> QED BY <1>2, <1>3

\* A byte is put on the way: nobody has seen its answer.
LEMMA PutSteps ==
  ASSUME MastersInv, NEW b, Put(b)
  PROVE  /\ at = "next" /\ ready /\ ~Busy /\ Busy' /\ ~ready' /\ at' = "enable" /\ out' = b
         /\ kind' = kind /\ call' = call /\ data' = data /\ result' = result /\ rx' = rx
         /\ enabled' = enabled /\ done' = done /\ wire' = wire /\ open' = open /\ irqena' = TRUE
         /\ Seen' = Seen /\ Handshake'
<1>1. at = "next" /\ ~Busy /\ ready
  BY DEF Put, MastersInv, Handshake, Busy
<1>2. /\ Busy' /\ ~ready' /\ at' = "enable" /\ out' = b
      /\ kind' = kind /\ call' = call /\ data' = data /\ result' = result /\ rx' = rx
      /\ enabled' = enabled /\ done' = done /\ wire' = wire /\ open' = open /\ irqena' = TRUE
  BY <1>1 DEF Put, Busy
<1>3. Seen' = Seen
  BY <1>1, <1>2 DEF Seen
<1>4. Handshake'
  BY <1>2 DEF Handshake
<1> QED BY <1>1, <1>2, <1>3, <1>4

\* A transfer of the SPI master begins.
LEMMA SpiBegins ==
  ASSUME MastersInv, NEW s \in Slave, NEW w \in 0..MaxLen, NEW skip \in 0..MaxLen,
         NEW r \in 0..MaxLen, NEW merge \in BOOLEAN, SpiBegin(s, w, skip, r, merge)
  PROVE  MastersInv'
<1>1. /\ kind = "spi" /\ at = "free" /\ ready /\ at' = "next" /\ irqena' = FALSE /\ open' = s
      /\ data' = <<>> /\ wire' = <<>> /\ kind' = kind /\ ready' = ready /\ enabled' = enabled
      /\ done' = done /\ slave_locked' = slave_locked /\ ~Busy'
      /\ call' = [slave |-> s, w |-> w, s |-> skip, r |-> r, merge |-> merge, skip |-> skip]
  BY DEF SpiBegin, Busy
<1>2. MastersTypeOK' /\ Tokens'
  BY <1>1, OtherParts, EmptySeq DEF MastersInv, MastersTypeOK, Places
<1>3. Handshake' /\ I2cCall'
  BY <1>1 DEF Handshake, I2cCall
<1>4. Seen' = 0 /\ Len(data') = 0
  BY <1>1 DEF Seen
<1>5. call' \in [slave : Slave, w : Nat, s : Nat, r : Nat, merge : BOOLEAN, skip : Nat]
  BY <1>1
<1>6. SpiCall'
  BY <1>1, <1>4, <1>5 DEF SpiCall
<1> QED BY <1>2, <1>3, <1>6 DEF MastersInv

\* It goes on and ends.
LEMMA SpiSteps ==
  ASSUME MastersInv, (\E s \in Slave : SpiRefuse(s)) \/ SpiPut \/ SpiAnswer \/ SpiEnd
  PROVE  MastersInv'
<1>0. kind = "spi" /\ kind' = kind
  BY DEF SpiRefuse, SpiPut, SpiAnswer, SpiEnd, Put
<1>1. I2cCall'
  BY <1>0 DEF I2cCall
<1>2. /\ MastersTypeOK /\ Tokens /\ Handshake /\ SpiCall
  BY DEF MastersInv
<1>3. wire \in Seq([sent : OnWire, got : Byte \cup {Ack, Nack}]) /\ data \in Seq(Byte)
  BY <1>2 DEF MastersTypeOK
<1>4. Len(wire) \in Nat /\ Len(data) \in Nat /\ DOMAIN wire = 1..Len(wire)
  BY <1>3, LenProperties
<1>5. ASSUME NEW s \in Slave, SpiRefuse(s) PROVE MastersInv'
  <2>1. /\ at = "free" /\ at' = at /\ call' = call /\ data' = data /\ ready' = ready
        /\ irqena' = irqena /\ out' = out /\ rx' = rx /\ enabled' = enabled /\ done' = done
        /\ wire' = wire /\ open' = open /\ slave_locked' = slave_locked
        /\ ~Busy /\ ~Busy'
    BY <1>5 DEF SpiRefuse, Busy
  <2>2. MastersTypeOK' /\ Tokens' /\ Handshake'
    BY <1>0, <1>2, <2>1 DEF MastersTypeOK, Tokens, Handshake
  <2>3. SpiCall'
    BY <1>0, <1>2, <2>1 DEF SpiCall
  <2> QED BY <1>1, <2>2, <2>3 DEF MastersInv
<1>6. CASE SpiPut
  <2>1. Put([op |-> "byte", to |-> call.slave]) /\ slave_locked' = slave_locked
    BY <1>6 DEF SpiPut
  <2>2. /\ at = "next" /\ ready /\ ~Busy /\ Busy' /\ ~ready' /\ at' = "enable"
        /\ out' = [op |-> "byte", to |-> call.slave] /\ call' = call /\ data' = data
        /\ enabled' = enabled /\ done' = done /\ wire' = wire /\ open' = open /\ irqena' = TRUE
        /\ Seen' = Seen /\ Handshake'
    BY <2>1, PutSteps
  <2>3. ready' \in BOOLEAN
    BY <1>6, <2>2 DEF SpiPut, Put
  <2>4. MastersTypeOK' /\ Tokens'
    BY <1>0, <1>2, <1>3, <2>1, <2>2, <2>3, OtherParts DEF MastersTypeOK, Places
  <2>5. SpiCall'
    BY <1>0, <1>2, <2>1, <2>2 DEF SpiCall
  <2> QED BY <1>1, <2>2, <2>4, <2>5 DEF MastersInv
<1>7. CASE SpiAnswer
  <2> DEFINE keep == call.s = 0 /\ call.r > 0
             less(n) == IF n > 0 THEN n - 1 ELSE 0
  <2>1. /\ at = "check" /\ ready /\ Busy /\ ~Busy' /\ at' = "next"
        /\ data' = (IF keep THEN Append(data, rx) ELSE data)
        /\ call' = [call EXCEPT !.w = less(@), !.s = less(@), !.r = IF keep THEN @ - 1 ELSE @]
        /\ ready' = ready /\ irqena' = irqena /\ out' = out /\ rx' = rx /\ enabled' = enabled
        /\ done' = done /\ wire' = wire /\ open' = open /\ slave_locked' = slave_locked
    BY <1>7 DEF SpiAnswer, Answered, Busy
  <2>2. /\ call \in [slave : Slave, w : Nat, s : Nat, r : Nat, merge : BOOLEAN, skip : Nat]
        /\ open = call.slave /\ out = [op |-> "byte", to |-> call.slave]
        /\ call.s > 0 => data = <<>> /\ Seen + call.s = call.skip
        /\ call.s = 0 => Seen >= call.skip + Len(data)
        /\ call.s = 0 /\ call.r > 0 => Seen = call.skip + Len(data)
        /\ \A i \in DOMAIN wire : wire[i].sent.to = call.slave
        /\ \A i \in 1..Len(data) : data[i] = wire[call.skip + i].got
    BY <1>0, <1>2, <2>1 DEF SpiCall
  <2>3. Seen = Len(wire) - 1 /\ Seen' = Len(wire) /\ Len(wire) > 0
    BY <1>2, <1>4, <2>1 DEF Seen, Handshake
  <2>4. wire[Len(wire)].got = rx /\ rx \in Byte
    <3>1. wire[Len(wire)] = [sent |-> out, got |-> rx] /\ rx \in Answers(out)
      BY <1>2, <2>1 DEF Handshake
    <3> QED BY <2>2, <3>1, AnswerTypes
  <2>5. /\ call' \in [slave : Slave, w : Nat, s : Nat, r : Nat, merge : BOOLEAN, skip : Nat]
        /\ call'.slave = call.slave /\ call'.skip = call.skip
        /\ call'.s = less(call.s) /\ call'.r = IF keep THEN call.r - 1 ELSE call.r
    <3>1. less(call.w) \in Nat /\ less(call.s) \in Nat /\ (IF keep THEN call.r - 1 ELSE call.r) \in Nat
      BY <2>2
    <3>2. call' = [call EXCEPT !.w = less(call.w), !.s = less(call.s),
                               !.r = IF keep THEN call.r - 1 ELSE call.r]
      BY <2>1
    <3> HIDE DEF less, keep
    <3> QED BY <2>2, <3>1, <3>2
  <2>6. CASE keep
    <3>1. /\ data' \in Seq(Byte) /\ Len(data') = Len(data) + 1
          /\ \A i \in 1..Len(data) : data'[i] = data[i]
          /\ data'[Len(data)+1] = rx
      BY <1>3, <2>1, <2>4, <2>6, AppendedToWire
    <3>2. MastersTypeOK' /\ Tokens'
      BY <1>0, <1>2, <2>1, <3>1, OtherParts DEF MastersTypeOK, Places
    <3>3. Handshake'
      BY <2>1 DEF Handshake
    <3>4. call'.s = 0 /\ Seen' = call'.skip + Len(data')
      BY <1>4, <2>2, <2>3, <2>5, <2>6, <3>1
    <3>5. \A i \in 1..Len(data') : data'[i] = wire[call.skip + i].got
      <4> SUFFICES ASSUME NEW i \in 1..Len(data') PROVE data'[i] = wire[call.skip + i].got
        OBVIOUS
      <4>1. CASE i \in 1..Len(data)
        BY <2>2, <3>1, <4>1
      <4>2. CASE i \notin 1..Len(data)
        <5>1. i = Len(data) + 1 /\ call.skip + i = Len(wire)
          BY <1>4, <2>2, <2>3, <2>5, <3>1, <3>4, <4>2
        <5> QED BY <2>4, <3>1, <5>1
      <4> QED BY <4>1, <4>2
    <3>6. SpiCall'
      BY <1>0, <1>4, <2>1, <2>2, <2>3, <2>5, <3>1, <3>4, <3>5 DEF SpiCall
    <3> QED BY <1>1, <3>2, <3>3, <3>6 DEF MastersInv
  <2>7. CASE ~keep
    <3>1. data' = data
      BY <2>1, <2>7
    <3>2. MastersTypeOK' /\ Tokens'
      BY <1>0, <1>2, <1>3, <2>1, <3>1, OtherParts DEF MastersTypeOK, Places
    <3>3. Handshake'
      BY <2>1 DEF Handshake
    <3>4. /\ call'.s > 0 => data = <<>> /\ Seen' + call'.s = call'.skip
          /\ call'.s = 0 => Seen' >= call'.skip + Len(data)
          /\ call'.s = 0 /\ call'.r > 0 => Seen' = call'.skip + Len(data)
      <4>1. CASE call.s > 0
        BY <1>4, <2>2, <2>3, <2>5, <4>1, EmptySeq
      <4>2. CASE call.s = 0
        BY <1>4, <2>2, <2>3, <2>5, <2>7, <4>2
      <4> QED BY <2>2, <4>1, <4>2
    <3>5. SpiCall'
      BY <1>0, <2>1, <2>2, <2>5, <3>1, <3>4 DEF SpiCall
    <3> QED BY <1>1, <3>2, <3>3, <3>5 DEF MastersInv
  <2> QED BY <2>6, <2>7
<1>8. CASE SpiEnd
  <2>1. /\ at = "next" /\ at' = "free" /\ call' = NULL /\ ~Busy /\ ~Busy'
        /\ data' = data /\ ready' = ready /\ out' = out /\ rx' = rx /\ enabled' = enabled
        /\ done' = done /\ wire' = wire
    BY <1>8 DEF SpiEnd, Busy
  <2>2. open = call.slave /\ call.slave \in Slave
    BY <1>0, <1>2, <2>1 DEF SpiCall
  <2>3. open' = slave_locked' /\ slave_locked' \in Slave \cup {NULL}
    BY <1>8, <2>2 DEF SpiEnd
  <2>4. irqena' \in BOOLEAN
    BY <1>2, <1>8 DEF SpiEnd, MastersTypeOK
  <2>5. MastersTypeOK' /\ Tokens'
    BY <1>0, <1>2, <1>3, <2>1, <2>3, <2>4, OtherParts DEF MastersTypeOK, Places
  <2>6. Handshake' /\ SpiCall'
    BY <1>2, <2>1, <2>3 DEF Handshake, SpiCall
  <2> QED BY <1>1, <2>5, <2>6 DEF MastersInv
<1> QED BY <1>5, <1>6, <1>7, <1>8

\* A transfer of the I2C master begins, is refused or ends.
LEMMA I2cEnds ==
  ASSUME MastersInv, UNCHANGED slave_locked,
         (\E w, r \in 0..MaxLen : I2cBegin(w, r)) \/ I2cUnsupported \/ I2cPut \/ I2cEnd
  PROVE  MastersInv'
<1>0. kind = "i2c" /\ kind' = kind
  BY DEF I2cBegin, I2cUnsupported, I2cPut, I2cEnd, Put
<1>1. SpiCall'
  BY <1>0 DEF SpiCall
<1>2. MastersTypeOK /\ Tokens /\ Handshake /\ I2cCall /\ slave_locked' = slave_locked
  BY DEF MastersInv
<1>3. /\ wire \in Seq([sent : OnWire, got : Byte \cup {Ack, Nack}]) /\ data \in Seq(Byte)
      /\ Len(wire) \in Nat /\ DOMAIN wire = 1..Len(wire)
  BY <1>2, LenProperties DEF MastersTypeOK
<1>4. ASSUME NEW w \in 0..MaxLen, NEW r \in 0..MaxLen, I2cBegin(w, r) PROVE MastersInv'
  <2>1. /\ at = "free" /\ ready /\ at' = "next" /\ irqena' = irqena /\ open' = open
        /\ data' = <<>> /\ wire' = <<>> /\ ready' = ready /\ enabled' = enabled
        /\ done' = done /\ ~Busy'
        /\ call' = [phase |-> IF w > 0 THEN "addrw" ELSE Onward(w, r), w |-> w, r |-> r, err |-> "ok"]
    BY <1>4 DEF I2cBegin, Busy
  <2>2. MastersTypeOK' /\ Tokens'
    BY <1>0, <1>2, <2>1, OtherParts, EmptySeq DEF MastersTypeOK, Places
  <2>3. Handshake'
    BY <2>1 DEF Handshake
  <2>4. Seen' = 0 /\ Len(data') = 0
    BY <2>1 DEF Seen
  <2>5. Coherent(call') /\ call'.err = "ok"
    <3>1. w \in Nat /\ r \in Nat
      BY MasterAssumption
    <3> QED BY <2>1, <3>1 DEF Coherent, Onward, Phases
  <2>6. open = NULL
    BY <1>0, <1>2, <2>1 DEF I2cCall
  <2>7. I2cCall'
    BY <1>0, <2>1, <2>4, <2>5, <2>6 DEF I2cCall, ReadsAtEnd
  <2> QED BY <1>1, <2>2, <2>3, <2>7 DEF MastersInv
<1>5. CASE I2cUnsupported
  <2>1. /\ at = "free" /\ at' = at /\ call' = call /\ data' = data /\ ready' = ready
        /\ irqena' = irqena /\ out' = out /\ rx' = rx /\ enabled' = enabled /\ done' = done
        /\ wire' = wire /\ open' = open /\ ~Busy /\ ~Busy' /\ result' = "ENOTSUP"
    BY <1>5 DEF I2cUnsupported, Busy
  <2>2. MastersTypeOK' /\ Tokens' /\ Handshake'
    BY <1>0, <1>2, <2>1 DEF MastersTypeOK, Tokens, Handshake
  <2>3. I2cCall'
    BY <1>0, <1>2, <2>1 DEF I2cCall, ReadsAtEnd
  <2> QED BY <1>1, <2>2, <2>3 DEF MastersInv
<1>6. CASE I2cPut
  <2>1. Put(I2cByte) /\ call.phase # "end"
    BY <1>6 DEF I2cPut
  <2>2. /\ at = "next" /\ ready /\ ~Busy /\ Busy' /\ ~ready' /\ at' = "enable"
        /\ out' = I2cByte /\ call' = call /\ data' = data /\ result' = result
        /\ enabled' = enabled /\ done' = done /\ wire' = wire /\ open' = open /\ irqena' = TRUE
        /\ Seen' = Seen /\ Handshake'
    BY <2>1, PutSteps
  <2>3. ready' \in BOOLEAN
    BY <2>1, <2>2 DEF Put
  <2>4. MastersTypeOK' /\ Tokens'
    BY <1>0, <1>2, <1>3, <2>1, <2>2, <2>3, OtherParts DEF MastersTypeOK, Places
  <2>5. I2cByte' = I2cByte
    BY <2>2 DEF I2cByte
  <2>6. I2cCall'
    BY <1>0, <1>2, <2>1, <2>2, <2>5 DEF I2cCall, ReadsAtEnd
  <2> QED BY <1>1, <2>2, <2>4, <2>6 DEF MastersInv
<1>7. CASE I2cEnd
  <2>1. /\ at = "next" /\ at' = "free" /\ result' = call.err /\ call.phase = "end"
        /\ data' = data /\ ready' = ready /\ irqena' = irqena /\ out' = out /\ rx' = rx
        /\ enabled' = enabled /\ done' = done /\ wire' = wire /\ open' = open
        /\ ~Busy /\ ~Busy' /\ Seen = Len(wire)
    BY <1>7 DEF I2cEnd, Busy, Seen
  <2>2. MastersTypeOK' /\ Tokens'
    BY <1>0, <1>2, <1>3, <2>1, OtherParts DEF MastersTypeOK, Places
  <2>3. Handshake'
    BY <1>2, <2>1 DEF Handshake
  <2>4. /\ open = NULL /\ ReadsAtEnd(Len(wire))
        /\ call.err = "ok" <=> \A i \in 1..Len(wire) : wire[i].got # Nack
    BY <1>0, <1>2, <2>1 DEF I2cCall
  <2>5. I2cCall'
    BY <1>0, <2>1, <2>4 DEF I2cCall, ReadsAtEnd
  <2> QED BY <1>1, <2>2, <2>3, <2>5 DEF MastersInv
<1> QED BY <1>4, <1>5, <1>6, <1>7

\* What the answer to a byte tells a transfer of the I2C master to do next.
LEMMA I2cDecides ==
  ASSUME Coherent(call), call.phase # "end", NEW c,
         c = IF rx = Nack /\ call.phase \in {"addrw", "write", "addrr"} THEN Refused ELSE Accepted,
         rx \in Answers(I2cByte)
  PROVE  /\ Coherent(c)
         /\ c.err = "ok" <=> call.err = "ok" /\ rx # Nack
         /\ c.phase = "end" => I2cByte.pc
         /\ call.phase = "read" => c.phase \in {"read", "end"}
         /\ call.phase = "read" <=> I2cByte.op = "read"
         /\ I2cByte.op = "read" => rx \in Byte
<1>1. /\ call \in [phase : Phases, w : Nat, r : Nat, err : {"ok", "ENOENT", "ECANCELED"}]
      /\ Nack \notin Byte
  BY AnswerTypes DEF Coherent
<1>2. CASE call.phase \in {"addrw", "addrr"}
  <2>1. I2cByte = [op |-> "addr", sc |-> TRUE, pc |-> FALSE]
    BY <1>2 DEF I2cByte
  <2>2. CASE rx = Nack
    <3>1. c = [call EXCEPT !.phase = "stop", !.err = "ENOENT"]
      BY <1>2, <2>2 DEF Refused
    <3> QED BY <1>1, <1>2, <2>1, <2>2, <3>1 DEF Coherent, Phases
  <2>3. CASE rx # Nack
    <3>1. c = [call EXCEPT !.phase = IF call.phase = "addrw" THEN "write" ELSE "read"]
      BY <1>2, <2>3 DEF Accepted
    <3> QED BY <1>1, <1>2, <2>1, <2>3, <3>1 DEF Coherent, Phases
  <2> QED BY <2>2, <2>3
<1>3. CASE call.phase = "write"
  <2>1. I2cByte = [op |-> "write", sc |-> FALSE, pc |-> call.w = 1 /\ call.r = 0]
    BY <1>3 DEF I2cByte
  <2>2. CASE rx = Nack
    <3>1. c = [call EXCEPT !.phase = IF call.w > 1 \/ call.r > 0 THEN "stop" ELSE "end",
                           !.err = "ECANCELED"]
      BY <1>3, <2>2 DEF Refused
    <3>2. call.w \in Nat /\ call.r \in Nat /\ call.w > 0 /\ call.err = "ok"
      BY <1>3 DEF Coherent
    <3>3. /\ c.phase = (IF call.w > 1 \/ call.r > 0 THEN "stop" ELSE "end")
          /\ c.err = "ECANCELED" /\ c.w = call.w /\ c.r = call.r
          /\ c \in [phase : Phases, w : Nat, r : Nat, err : {"ok", "ENOENT", "ECANCELED"}]
      BY <1>1, <3>1 DEF Phases
    <3>4. c.phase \in {"stop", "end"} /\ c.err # "ok"
      BY <3>3
    <3>5. Coherent(c)
      BY <3>3, <3>4 DEF Coherent
    <3>6. c.phase = "end" => call.w = 1 /\ call.r = 0
      BY <3>2, <3>3
    <3>7. c.phase = "end" => I2cByte.pc
      BY <2>1, <3>6
    <3> QED BY <1>3, <2>1, <2>2, <3>2, <3>3, <3>5, <3>7
  <2>3. CASE rx # Nack
    <3>1. c = [call EXCEPT !.phase = Onward(call.w - 1, call.r), !.w = call.w - 1]
      BY <1>3, <2>3 DEF Accepted
    <3>2. call.w \in Nat /\ call.r \in Nat /\ call.w > 0 /\ call.err = "ok"
      BY <1>3 DEF Coherent
    <3>3. /\ c.phase = Onward(call.w - 1, call.r)
          /\ c.err = "ok" /\ c.w = call.w - 1 /\ c.r = call.r
          /\ c \in [phase : Phases, w : Nat, r : Nat, err : {"ok", "ENOENT", "ECANCELED"}]
      <4>1. call.w - 1 \in Nat /\ Onward(call.w - 1, call.r) \in Phases
        BY <3>2 DEF Phases, Onward
      <4> QED BY <1>1, <3>1, <3>2, <4>1
    <3>4. /\ c.phase \in {"write", "addrr", "end"}
          /\ c.phase = "write" => c.w > 0
          /\ c.phase = "addrr" => c.r > 0
          /\ c.phase = "end" => call.w = 1 /\ call.r = 0
      BY <3>2, <3>3 DEF Onward
    <3>5. Coherent(c)
      BY <3>3, <3>4 DEF Coherent
    <3> QED BY <1>3, <2>1, <2>3, <3>2, <3>3, <3>4, <3>5
  <2> QED BY <2>2, <2>3
<1>4. CASE call.phase = "read"
  <2>1. I2cByte = [op |-> "read", sc |-> FALSE, pc |-> call.r = 1]
    BY <1>4 DEF I2cByte
  <2>2. c = [call EXCEPT !.phase = IF call.r > 1 THEN "read" ELSE "end", !.r = call.r - 1]
    BY <1>4 DEF Accepted
  <2>3. rx \in Byte
    <3>1. I2cByte.op = "read"
      BY <2>1
    <3> QED BY <3>1 DEF Answers
  <2>4. call.r \in Nat /\ call.r > 0 /\ call.err = "ok"
    BY <1>4 DEF Coherent
  <2>5. /\ c.phase = (IF call.r > 1 THEN "read" ELSE "end")
        /\ c.err = "ok" /\ c.w = call.w /\ c.r = call.r - 1
        /\ c \in [phase : Phases, w : Nat, r : Nat, err : {"ok", "ENOENT", "ECANCELED"}]
    <3>1. call.r - 1 \in Nat /\ (IF call.r > 1 THEN "read" ELSE "end") \in Phases
      BY <2>4 DEF Phases
    <3> QED BY <1>1, <2>2, <2>4, <3>1
  <2>6. Coherent(c)
    BY <2>4, <2>5 DEF Coherent
  <2>7. c.phase = "end" => call.r = 1
    BY <2>4, <2>5
  <2>8. c.phase = "end" => I2cByte.pc
    BY <2>1, <2>7
  <2>9. rx # Nack
    BY <1>1, <2>3
  <2> QED BY <1>4, <2>1, <2>3, <2>4, <2>5, <2>6, <2>8, <2>9
<1>5. CASE call.phase = "stop"
  <2>1. I2cByte = [op |-> "dummy", sc |-> FALSE, pc |-> TRUE]
    BY <1>5 DEF I2cByte
  <2>2. c = [call EXCEPT !.phase = "end"]
    BY <1>5 DEF Accepted
  <2>3. rx \in Byte
    BY <2>1 DEF Answers
  <2> QED BY <1>1, <1>5, <2>1, <2>2, <2>3 DEF Coherent, Phases
<1> QED BY <1>1, <1>2, <1>3, <1>4, <1>5 DEF Phases

\* It takes an answer.
LEMMA I2cAnswers ==
  ASSUME MastersInv, UNCHANGED slave_locked, I2cAnswer
  PROVE  MastersInv'
<1>0. kind = "i2c" /\ kind' = kind
  BY DEF I2cAnswer
<1>1. SpiCall'
  BY <1>0 DEF SpiCall
<1>2. MastersTypeOK /\ Tokens /\ Handshake /\ I2cCall /\ slave_locked' = slave_locked
  BY DEF MastersInv
<1>3. /\ wire \in Seq([sent : OnWire, got : Byte \cup {Ack, Nack}]) /\ data \in Seq(Byte)
      /\ Len(wire) \in Nat /\ DOMAIN wire = 1..Len(wire) /\ Len(data) \in Nat
  BY <1>2, LenProperties DEF MastersTypeOK
<1>4. /\ at = "check" /\ ready /\ Busy /\ ~Busy' /\ at' = "next"
      /\ data' = (IF call.phase = "read" THEN Append(data, rx) ELSE data)
      /\ call' = (IF rx = Nack /\ call.phase \in {"addrw", "write", "addrr"} THEN Refused ELSE Accepted)
      /\ ready' = ready /\ irqena' = irqena /\ out' = out /\ rx' = rx /\ enabled' = enabled
      /\ done' = done /\ wire' = wire /\ open' = open
  BY DEF I2cAnswer, Answered, Busy
<1>5. /\ Coherent(call) /\ call.phase # "end" /\ out = I2cByte /\ open = IF out.pc THEN NULL ELSE "i2c"
      /\ data # <<>> => call.phase \in {"read", "end"}
      /\ (call.err = "ok" <=> \A i \in 1..Seen : wire[i].got # Nack)
      /\ ReadsAtEnd(Seen)
  BY <1>0, <1>2, <1>4 DEF I2cCall
<1>6. Seen = Len(wire) - 1 /\ Seen' = Len(wire) /\ Len(wire) > 0
  BY <1>2, <1>3, <1>4 DEF Seen, Handshake
<1>15. \A i \in 1..Len(wire) : i \in 1..Seen \/ i = Len(wire)
  <2>1. \A n \in Nat : \A i \in 1..n : i \in 1..(n-1) \/ i = n
    OBVIOUS
  <2> QED BY <1>3, <1>6, <2>1
<1>7. wire[Len(wire)].got = rx /\ wire[Len(wire)].sent = I2cByte /\ rx \in Answers(I2cByte)
  BY <1>2, <1>4, <1>5 DEF Handshake
<1>8. /\ Coherent(call')
      /\ call'.err = "ok" <=> call.err = "ok" /\ rx # Nack
      /\ call'.phase = "end" => I2cByte.pc
      /\ call.phase = "read" => call'.phase \in {"read", "end"}
      /\ call.phase = "read" <=> I2cByte.op = "read"
      /\ I2cByte.op = "read" => rx \in Byte
  BY <1>4, <1>5, <1>7, I2cDecides
<1>9. call'.err = "ok" <=> \A i \in 1..Len(wire) : wire[i].got # Nack
  <2>2. Len(wire) \in 1..Len(wire) /\ \A i \in 1..Seen : i \in 1..Len(wire)
    BY <1>3, <1>6
  <2> QED BY <1>5, <1>7, <1>8, <1>15, <2>2
<1>10. data' \in Seq(Byte) /\ ReadsAtEnd(Len(wire))'
  <2>1. CASE call.phase = "read"
    <3>1. /\ data' \in Seq(Byte) /\ Len(data') = Len(data) + 1
          /\ \A i \in 1..Len(data) : data'[i] = data[i]
          /\ data'[Len(data)+1] = rx
      BY <1>3, <1>4, <1>8, <2>1, AppendedToWire
    <3>2. Len(wire) - Len(data') = Seen - Len(data) /\ Len(data') <= Len(wire)
      BY <1>3, <1>5, <1>6, <3>1 DEF ReadsAtEnd
    <3>3. ASSUME NEW i \in 1..Len(wire)
          PROVE  wire[i].sent.op = "read" <=> i > Len(wire) - Len(data')
      <4>1. CASE i \in 1..Seen
        BY <1>5, <3>2, <4>1 DEF ReadsAtEnd
      <4>2. CASE i \notin 1..Seen
        <5>1. i = Len(wire)
          BY <1>15, <4>2
        <5>2. Len(data') > 0 /\ Len(data') \in Nat
          BY <1>3, <3>1
        <5>3. i > Len(wire) - Len(data')
          BY <1>3, <5>1, <5>2
        <5> QED BY <1>7, <1>8, <2>1, <5>1, <5>3
      <4> QED BY <4>1, <4>2
    <3>4. ASSUME NEW i \in 1..Len(data')
          PROVE  data'[i] = wire[Len(wire) - Len(data') + i].got
      <4>1. CASE i \in 1..Len(data)
        BY <1>5, <3>1, <3>2, <4>1 DEF ReadsAtEnd
      <4>2. CASE i \notin 1..Len(data)
        <5>1. i = Len(data) + 1 /\ Len(wire) - Len(data') + i = Len(wire)
          BY <1>3, <1>6, <3>1, <3>2, <4>2
        <5> QED BY <1>7, <3>1, <5>1
      <4> QED BY <4>1, <4>2
    <3> QED BY <1>4, <3>1, <3>2, <3>3, <3>4 DEF ReadsAtEnd
  <2>2. CASE call.phase # "read"
    <3>1. data = <<>> /\ data' = data /\ Len(data) = 0
      BY <1>4, <1>5, <2>2
    <3>2. ASSUME NEW i \in 1..Len(wire) PROVE wire[i].sent.op # "read"
      <4>1. CASE i \in 1..Seen
        BY <1>3, <1>5, <1>6, <3>1, <4>1 DEF ReadsAtEnd
      <4>2. CASE i \notin 1..Seen
        <5>1. i = Len(wire)
          BY <1>15, <4>2
        <5> QED BY <1>7, <1>8, <2>2, <5>1
      <4> QED BY <4>1, <4>2
    <3> QED BY <1>3, <1>4, <3>1, <3>2 DEF ReadsAtEnd
  <2> QED BY <2>1, <2>2
<1>11. MastersTypeOK' /\ Tokens'
  BY <1>0, <1>2, <1>4, <1>10, OtherParts DEF MastersTypeOK, Places
<1>12. Handshake'
  BY <1>4 DEF Handshake
<1>13. data' # <<>> => call'.phase \in {"read", "end"}
  BY <1>4, <1>5, <1>8
<1>14. I2cCall'
  BY <1>0, <1>4, <1>5, <1>6, <1>8, <1>9, <1>10, <1>13 DEF I2cCall
<1> QED BY <1>1, <1>11, <1>12, <1>14 DEF MastersInv

\* Every step of either driver preserves the invariant.
LEMMA MastersPreserved == MastersInv /\ [MastersNext]_spiVars => MastersInv'
<1> SUFFICES ASSUME MastersInv, [MastersNext]_spiVars PROVE MastersInv'
  OBVIOUS
<1>1. CASE SpiStep
  BY <1>1, SpiBegins, SpiSteps DEF SpiStep
<1>2. CASE I2cStep /\ UNCHANGED slave_locked
  BY <1>2, I2cEnds, I2cAnswers DEF I2cStep
<1>3. CASE MasterStep /\ UNCHANGED slave_locked
  BY <1>3, WaitSteps, ShiftSteps DEF MasterStep
<1>4. CASE UNCHANGED spiVars
  <2>1. UNCHANGED <<kind, at, call, data, result, ready, irqena, out, rx, enabled, done, wire, open,
                    slave_locked>>
    BY <1>4 DEF spiVars, masterVars
  <2>2. (Busy' <=> Busy) /\ Seen' = Seen /\ I2cByte' = I2cByte /\ Answers(out)' = Answers(out)
    BY <2>1 DEF Busy, Seen, I2cByte, Answers
  <2>3. MastersTypeOK' /\ Tokens' /\ Handshake'
    BY <2>1, <2>2 DEF MastersInv, MastersTypeOK, Tokens, Handshake
  <2>4. SpiCall' /\ I2cCall'
    BY <2>1, <2>2 DEF MastersInv, SpiCall, I2cCall, ReadsAtEnd
  <2> QED BY <2>3, <2>4 DEF MastersInv
<1> QED BY <1>1, <1>2, <1>3, <1>4 DEF MastersNext

\* What the invariant says of the bytes a transfer answers with.
LEMMA OwnBytesFollow == MastersInv => OwnBytes
<1> SUFFICES ASSUME MastersInv PROVE OwnBytes
  OBVIOUS
<1>1. /\ wire \in Seq([sent : OnWire, got : Byte \cup {Ack, Nack}]) /\ data \in Seq(Byte)
      /\ Len(wire) \in Nat /\ DOMAIN wire = 1..Len(wire) /\ Len(data) \in Nat
      /\ data = [i \in 1..Len(data) |-> data[i]]
  BY LenProperties DEF MastersInv, MastersTypeOK
<1>2. SpiOwnBytes
  <2> SUFFICES ASSUME kind = "spi", call # NULL PROVE SpiOwnBytes
    BY DEF SpiOwnBytes
  <2>1. /\ call.skip \in Nat /\ call.s \in Nat /\ call.r \in Nat
        /\ \A i \in DOMAIN wire : wire[i].sent.to = call.slave
        /\ call.s > 0 => data = <<>> /\ Seen + call.s = call.skip
        /\ call.s = 0 => Seen >= call.skip + Len(data)
        /\ \A i \in 1..Len(data) : data[i] = wire[call.skip + i].got
    BY DEF MastersInv, SpiCall
  <2>2. Seen <= Len(wire) /\ Seen \in Int
    BY <1>1 DEF Seen
  <2>3. data # <<>> => Len(wire) >= call.skip + Len(data)
    BY <1>1, <2>1, <2>2
  <2>4. Len(wire) >= Len(data)
    <3>1. CASE data = <<>>
      BY <1>1, <3>1
    <3>2. CASE data # <<>>
      BY <1>1, <2>1, <2>3, <3>2
    <3> QED BY <3>1, <3>2
  <2>5. data = [i \in 1..Len(data) |-> wire[call.skip + i].got]
    BY <1>1, <2>1
  <2> QED BY <2>1, <2>3, <2>4, <2>5 DEF SpiOwnBytes
<1>3. I2cOwnBytes
  <2> SUFFICES ASSUME kind = "i2c", at = "free" PROVE I2cOwnBytes
    BY DEF I2cOwnBytes
  <2>1. /\ ReadsAtEnd(Len(wire))
        /\ result # "ENOTSUP" => (result = "ok" <=> \A i \in 1..Len(wire) : wire[i].got # Nack)
    BY DEF MastersInv, I2cCall
  <2>2. data = [i \in 1..Len(data) |-> wire[Len(wire) - Len(data) + i].got]
    BY <1>1, <2>1 DEF ReadsAtEnd
  <2> QED BY <1>1, <2>1, <2>2 DEF I2cOwnBytes, ReadsAtEnd
<1> QED BY <1>2, <1>3 DEF OwnBytes

\* Registers, lock and semaphore, and how far a transfer has got.
THEOREM MastersCorrect == MastersSpec => []MastersInv
<1>1. MastersInit => MastersInv
  BY MastersInitial
<1>2. MastersInv /\ [MastersNext]_spiVars => MastersInv'
  BY MastersPreserved
<1> QED BY <1>1, <1>2, PTL DEF MastersSpec

\* The semaphore of a driver holds at most the token of the byte under way and
\* one more, whatever the transfers.
THEOREM DoneBounded == MastersSpec => []TokensBounded
<1>1. MastersInv => TokensBounded
  BY DEF MastersInv, MastersTypeOK, Tokens, TokensBounded
<1> QED BY <1>1, MastersCorrect, PTL

\* The buses are free between transfers, but for the slave a MERGE keeps.
THEOREM BusesReleased == MastersSpec => []BusReleased
<1>1. MastersInv => BusReleased
  BY DEF MastersInv, SpiCall, I2cCall, BusReleased, SpiReleased, I2cReleased
<1> QED BY <1>1, MastersCorrect, PTL

\* A transfer answers with the bytes of its own slave, none lost, none twice.
THEOREM AnswersAreOwn == MastersSpec => []OwnBytes
<1>1. MastersInv => OwnBytes
  BY OwnBytesFollow
<1> QED BY <1>1, MastersCorrect, PTL

-----------------------------------------------------------------------------
(* The serial flash *)

Writing == {"lock", "wren", "erase", "prog", "data", "poll", "unlock"}
Holding == {"read", "readunlock", "wren", "erase", "prog", "data", "poll", "unlock"}

\* What a call may carry: what it writes, or what it has read.
Carried == Data \cup {NONE} \cup UNION {[S -> Value] : S \in SUBSET Sector}

\* The types of the chip, the calls and what the callers remember.
DiskTypeOK ==
  /\ mem \in [Sector -> [Page -> Value]] /\ wel \in BOOLEAN /\ lock \in Thread \cup {NONE}
  /\ access \in [Thread -> [at : {"out"} \cup Reading \cup Writing, disk : BOOLEAN, s : Nat, left : Nat,
                            page : -1..Pages-1, data : Carried]]
  /\ last \in [Sector -> Data \cup {NONE}]

\* A call stays on the chip; a write carries a value and programs pages after
\* the erase.
CallsFit ==
  \A t \in Thread :
    /\ access[t].at # "out" => access[t].left > 0 /\ access[t].s + access[t].left <= Sectors
    /\ access[t].at \in Writing => access[t].data \in Data
    /\ access[t].at \in {"prog", "data"} => access[t].page >= 0
    /\ access[t].at = "erase" => access[t].page = -1

\* epcs_fatfs_lock is with the thread between its lock and its unlock.
LockHeld == \A t \in Thread : lock = t <=> access[t].at \in Holding

\* The chip is at work, or in the middle of a command, only for the thread that
\* waits for its end or is about to send the rest.
Ordered(t) ==
  [s |-> access[t].s, page |-> access[t].page, data |-> IF access[t].page = -1 THEN NONE ELSE access[t].data]

ChipFollows ==
  /\ merged # NONE => \E t \in Thread : access[t].at = "data"
  /\ \A t \in Thread : access[t].at = "data" => merged = [s |-> access[t].s, page |-> access[t].page]
  /\ busy # NONE => \E t \in Thread : access[t].at = "poll" /\ busy = Ordered(t)
  /\ \A t \in Thread : access[t].at \in {"erase", "prog"} => wel

\* How far a write has got with its sector.
Finished(t) == access[t].at = "unlock" \/ (access[t].at = "poll" /\ busy = NONE)
Written(t)  == IF Finished(t) THEN access[t].page ELSE access[t].page - 1

PagesWritten ==
  \A t \in Thread : access[t].at \in Writing /\ (access[t].page >= 0 \/ Finished(t)) =>
    \A p \in Page : mem[access[t].s][p] = IF p <= Written(t) THEN access[t].data ELSE "erased"

\* Calls that share a sector only read.
CallsApart ==
  \A t, u \in Thread : \A q \in Using(t) \cap Using(u) :
    t # u => access[t].at \in Reading /\ access[u].at \in Reading

\* The sectors without a value are those of the writes under way.
BeingWritten ==
  \A q \in Sector : last[q] = NONE <=> \E t \in Thread : access[t].at \in Writing /\ q \in Using(t)

\* A read has what it came for.
ReadAll == \A t \in Thread : At(t, "readunlock") => DOMAIN access[t].data = Using(t)

FlashInv ==
  /\ DiskTypeOK /\ CallsFit /\ LockHeld /\ ChipFollows /\ PagesWritten
  /\ CallsApart /\ BeingWritten /\ ReadAll /\ FlashKeeps

-----------------------------------------------------------------------------

\* What the invariant says of a call.
LEMMA CallFields ==
  ASSUME FlashInv, NEW t \in Thread
  PROVE  /\ access[t] = [at |-> access[t].at, disk |-> access[t].disk, s |-> access[t].s,
                         left |-> access[t].left, page |-> access[t].page, data |-> access[t].data]
         /\ access[t].at \in {"out"} \cup Reading \cup Writing /\ access[t].disk \in BOOLEAN
         /\ access[t].s \in Nat /\ access[t].left \in Nat /\ access[t].page \in -1..Pages-1
         /\ access[t].page \in Int /\ access[t].data \in Carried
         /\ access[t].at # "out" => /\ access[t].left > 0 /\ access[t].s + access[t].left <= Sectors
                                    /\ access[t].s \in Using(t) /\ access[t].s \in Sector
         /\ access[t].at \in Writing => access[t].data \in Data /\ access[t].data # NONE
         /\ access[t].at = "out" => Using(t) = {}
         /\ Using(t) \subseteq Sector
<1>1. /\ access[t] \in [at : {"out"} \cup Reading \cup Writing, disk : BOOLEAN, s : Nat, left : Nat,
                        page : -1..Pages-1, data : Carried]
  BY DEF FlashInv, DiskTypeOK
<1>2. access[t].at # "out" => access[t].left > 0 /\ access[t].s + access[t].left <= Sectors
  BY DEF FlashInv, CallsFit
<1>3. access[t].at \in Writing => access[t].data \in Data /\ access[t].data # NONE
  BY FlashAssumption DEF FlashInv, CallsFit
<1>4. Sectors \in Nat /\ Pages \in Nat
  BY FlashAssumption
<1>5. Using(t) = IF access[t].at = "out" THEN {} ELSE access[t].s .. access[t].s + access[t].left - 1
  BY DEF Using
<1>6. access[t].s \in Nat /\ access[t].left \in Nat /\ access[t].page \in -1..Pages-1
  BY <1>1
<1> QED BY <1>1, <1>2, <1>3, <1>4, <1>5, <1>6 DEF Sector

\* The thread that holds the lock is the only one to do so.
LEMMA OneHolder ==
  ASSUME FlashInv, NEW t \in Thread, access[t].at \in Holding
  PROVE  lock = t /\ \A u \in Thread : u # t => access[u].at \notin Holding
BY DEF FlashInv, LockHeld

\* Between commands the chip is idle.
LEMMA ChipIdle ==
  ASSUME FlashInv
  PROVE  /\ lock = NONE => merged = NONE /\ busy = NONE
         /\ \A t \in Thread : access[t].at \in Holding /\ access[t].at # "data" => merged = NONE
         /\ \A t \in Thread : access[t].at \in Holding /\ access[t].at # "poll" => busy = NONE
<1>1. merged # NONE => \E u \in Thread : access[u].at = "data" /\ lock = u
  BY DEF FlashInv, ChipFollows, LockHeld, Holding
<1>2. busy # NONE => \E u \in Thread : access[u].at = "poll" /\ lock = u
  BY DEF FlashInv, ChipFollows, LockHeld, Holding
<1>3. \A t \in Thread : access[t].at \in Holding => lock = t
  BY DEF FlashInv, LockHeld
<1> QED BY <1>1, <1>2, <1>3, FlashAssumption

\* A step that takes a call further without ending it.
LEMMA Moves ==
  ASSUME FlashInv, NEW t \in Thread, NEW a \in Reading \cup Writing,
         access[t].at # "out", a # "readunlock",
         Goto(t, a), last' = last, mem' = mem, wel' \in BOOLEAN,
         a \in Reading <=> access[t].at \in Reading,
         a \in Writing <=> access[t].at \in Writing,
         a \in {"prog", "data"} => access[t].page >= 0,
         a = "erase" => access[t].page = -1,
         lock' \in Thread \cup {NONE},
         lock' = t <=> a \in Holding,
         \A u \in Thread : u # t => (lock' = u <=> lock = u)
  PROVE  /\ \A u \in Thread :
              /\ access'[u].s = access[u].s /\ access'[u].left = access[u].left
              /\ access'[u].page = access[u].page /\ access'[u].data = access[u].data
              /\ access'[u].at = IF u = t THEN a ELSE access[u].at
              /\ Using(u)' = Using(u)
         /\ DiskTypeOK' /\ CallsFit' /\ LockHeld' /\ CallsApart' /\ BeingWritten' /\ ReadAll'
         /\ FlashKeeps'
<1>1. \A u \in Thread :
        /\ access'[u].s = access[u].s /\ access'[u].left = access[u].left
        /\ access'[u].page = access[u].page /\ access'[u].data = access[u].data
        /\ access'[u].at = IF u = t THEN a ELSE access[u].at
  BY DEF Goto, FlashInv, DiskTypeOK
<1>2. a # "out"
  BY DEF Reading, Writing
<1>3. \A u \in Thread : Using(u)' = Using(u)
  BY <1>1, <1>2 DEF Using
<1>4. access' \in [Thread -> [at : {"out"} \cup Reading \cup Writing, disk : BOOLEAN, s : Nat, left : Nat,
                              page : -1..Pages-1, data : Carried]]
  BY DEF Goto, FlashInv, DiskTypeOK
<1>5. DiskTypeOK'
  BY <1>4 DEF FlashInv, DiskTypeOK, Carried, Sector, Page, Value
<1>6. CallsFit'
  BY <1>1 DEF FlashInv, CallsFit
<1>7. LockHeld'
  BY <1>1 DEF FlashInv, LockHeld
<1>8. CallsApart'
  BY <1>1, <1>3 DEF FlashInv, CallsApart
<1>9. BeingWritten'
  BY <1>1, <1>3 DEF FlashInv, BeingWritten
<1>10. ReadAll' /\ ReadsLast'
  BY <1>1, <1>3 DEF FlashInv, ReadAll, FlashKeeps, ReadsLast, At
<1>11. SectorsHold'
  BY DEF FlashInv, FlashKeeps, SectorsHold
<1> QED BY <1>1, <1>3, <1>5, <1>6, <1>7, <1>8, <1>9, <1>10, <1>11 DEF FlashKeeps

\* The steps that leave the chip alone and keep the place of the call.
LEMMA LockSteps ==
  ASSUME FlashInv, NEW t \in Thread, ReadLock(t) \/ Lock(t) \/ Poll(t)
  PROVE  FlashInv'
<1>1. /\ mem' = mem /\ wel' = wel /\ busy' = busy /\ merged' = merged /\ last' = last
      /\ wel \in BOOLEAN /\ lock \in Thread \cup {NONE} /\ NONE \notin Thread
  BY FlashAssumption DEF FlashInv, DiskTypeOK, ReadLock, Lock, Poll, chip
<1> DEFINE Kept(a) ==
      /\ \A u \in Thread :
           /\ access'[u].s = access[u].s /\ access'[u].left = access[u].left
           /\ access'[u].page = access[u].page /\ access'[u].data = access[u].data
           /\ access'[u].at = IF u = t THEN a ELSE access[u].at
           /\ Using(u)' = Using(u)
      /\ DiskTypeOK' /\ CallsFit' /\ LockHeld' /\ CallsApart' /\ BeingWritten' /\ ReadAll'
      /\ FlashKeeps'
<1>2. CASE ReadLock(t)
  <2>1. access[t].at = "readlock" /\ lock = NONE /\ lock' = t /\ Goto(t, "read")
    BY <1>2 DEF ReadLock, At
  <2>2. Kept("read")
    BY <1>1, <2>1, Moves DEF Reading, Writing, Holding
  <2>3. ChipFollows'
    BY <1>1, <2>1, <2>2 DEF FlashInv, ChipFollows, Ordered
  <2>4. PagesWritten'
    BY <1>1, <2>1, <2>2 DEF FlashInv, PagesWritten, Finished, Written, Writing
  <2> QED BY <2>2, <2>3, <2>4 DEF FlashInv
<1>3. CASE Lock(t)
  <2>1. access[t].at = "lock" /\ lock = NONE /\ lock' = t /\ Goto(t, "wren")
    BY <1>3 DEF Lock, At
  <2>2. Kept("wren")
    BY <1>1, <2>1, Moves DEF Reading, Writing, Holding
  <2>3. ChipFollows'
    BY <1>1, <2>1, <2>2 DEF FlashInv, ChipFollows, Ordered
  <2>4. PagesWritten'
    BY <1>1, <2>1, <2>2 DEF FlashInv, PagesWritten, Finished, Written, Writing
  <2> QED BY <2>2, <2>3, <2>4 DEF FlashInv
<1>4. CASE Poll(t)
  <2>1. access[t].at = "poll" /\ busy = NONE /\ lock' = lock /\ Goto(t, "unlock")
    BY <1>4 DEF Poll, At
  <2>2. lock = t
    BY <2>1 DEF FlashInv, LockHeld, Holding
  <2>3. Kept("unlock")
    BY <1>1, <2>1, <2>2, Moves DEF Reading, Writing, Holding
  <2>4. ChipFollows'
    BY <1>1, <2>1, <2>3 DEF FlashInv, ChipFollows, Ordered
  <2>5. PagesWritten'
    BY <1>1, <2>1, <2>3 DEF FlashInv, PagesWritten, Finished, Written, Writing
  <2> QED BY <2>3, <2>4, <2>5 DEF FlashInv
<1> QED BY <1>2, <1>3, <1>4

\* The commands of a write: the chip is idle, its latch is set by the one
\* before, and it takes the command for this write's.
LEMMA WriteCommands ==
  ASSUME FlashInv, NEW t \in Thread,
         WriteEnable(t) \/ Erase(t) \/ ProgramHeader(t) \/ ProgramData(t)
  PROVE  FlashInv'
<1>1. /\ last' = last /\ lock' = lock /\ wel \in BOOLEAN /\ lock \in Thread \cup {NONE}
      /\ access[t].at \in {"wren", "erase", "prog", "data"}
  BY DEF FlashInv, DiskTypeOK, WriteEnable, Erase, ProgramHeader, ProgramData, At
<1>2. lock = t /\ \A u \in Thread : u # t => access[u].at \notin Holding
  BY <1>1, OneHolder DEF Holding
<1>3. busy = NONE /\ (access[t].at # "data" => merged = NONE)
  BY <1>1, ChipIdle DEF Holding
<1>4. /\ access[t].s \in Sector /\ access[t].page \in -1..Pages-1 /\ access[t].data \in Data
  BY <1>1, CallFields DEF Writing
<1> DEFINE Kept(a) ==
      /\ \A u \in Thread :
           /\ access'[u].s = access[u].s /\ access'[u].left = access[u].left
           /\ access'[u].page = access[u].page /\ access'[u].data = access[u].data
           /\ access'[u].at = IF u = t THEN a ELSE access[u].at
           /\ Using(u)' = Using(u)
      /\ DiskTypeOK' /\ CallsFit' /\ LockHeld' /\ CallsApart' /\ BeingWritten' /\ ReadAll'
      /\ FlashKeeps'
<1>5. CASE WriteEnable(t)
  <2> DEFINE a == IF access[t].page = -1 THEN "erase" ELSE "prog"
  <2>1. access[t].at = "wren" /\ Goto(t, a)
    BY <1>5 DEF WriteEnable, At
  <2>2. wel' = TRUE /\ UNCHANGED <<mem, busy, merged>>
    BY <1>3, <1>5, <2>1 DEF WriteEnable, Command
  <2>3. a \in {"erase", "prog"} /\ (a = "erase" <=> access[t].page = -1)
    OBVIOUS
  <2>4. a = "prog" => access[t].page >= 0
    BY <1>4
  <2> HIDE DEF a
  <2>5. Kept(a)
    BY <1>1, <1>2, <2>1, <2>2, <2>3, <2>4, Moves DEF Reading, Writing, Holding
  <2>6. ChipFollows'
    BY <1>2, <1>3, <2>1, <2>2, <2>3, <2>5 DEF FlashInv, ChipFollows, Holding
  <2>7. PagesWritten'
    BY <1>3, <2>1, <2>2, <2>3, <2>5 DEF FlashInv, PagesWritten, Finished, Written, Writing
  <2> QED BY <2>5, <2>6, <2>7 DEF FlashInv
<1>6. CASE Erase(t)
  <2>1. access[t].at = "erase" /\ Goto(t, "poll") /\ wel = TRUE /\ access[t].page = -1
    BY <1>1, <1>6 DEF Erase, At, FlashInv, ChipFollows, CallsFit
  <2>2. busy' = [s |-> access[t].s, page |-> -1, data |-> NONE] /\ UNCHANGED <<mem, wel, merged>>
    BY <1>3, <1>6, <2>1 DEF Erase, Command, Program
  <2>3. Kept("poll")
    BY <1>1, <1>2, <2>1, <2>2, Moves DEF Reading, Writing, Holding
  <2>4. busy' = Ordered(t)' /\ busy' # NONE
    <3>1. busy' \in [s : 0..Sectors-1, page : -1..Pages-1, data : Data \cup {NONE}]
      BY <1>4, <2>1, <2>2 DEF Sector
    <3> QED BY <2>1, <2>2, <2>3, <3>1, FlashAssumption DEF Ordered
  <2>5. ChipFollows'
    BY <1>2, <1>3, <2>1, <2>2, <2>3, <2>4 DEF FlashInv, ChipFollows, Holding
  <2>6. PagesWritten'
    BY <1>2, <1>3, <2>1, <2>2, <2>3, <2>4 DEF FlashInv, PagesWritten, Finished, Written, Writing, Holding
  <2> QED BY <2>3, <2>5, <2>6 DEF FlashInv
<1>7. CASE ProgramHeader(t)
  <2>1. access[t].at = "prog" /\ Goto(t, "data") /\ wel = TRUE /\ access[t].page >= 0
    BY <1>1, <1>7 DEF ProgramHeader, At, FlashInv, ChipFollows, CallsFit
  <2>2. merged' = [s |-> access[t].s, page |-> access[t].page] /\ UNCHANGED <<mem, wel, busy>>
    BY <1>3, <1>7, <2>1 DEF ProgramHeader, Command
  <2>3. Kept("data")
    BY <1>1, <1>2, <2>1, <2>2, Moves DEF Reading, Writing, Holding
  <2>4. ChipFollows'
    BY <1>2, <1>3, <2>1, <2>2, <2>3 DEF FlashInv, ChipFollows, Holding
  <2>5. PagesWritten'
    BY <1>3, <2>1, <2>2, <2>3 DEF FlashInv, PagesWritten, Finished, Written, Writing
  <2> QED BY <2>3, <2>4, <2>5 DEF FlashInv
<1>8. CASE ProgramData(t)
  <2>1. /\ access[t].at = "data" /\ Goto(t, "poll") /\ access[t].page >= 0
        /\ merged = [s |-> access[t].s, page |-> access[t].page]
    BY <1>1, <1>8 DEF ProgramData, At, FlashInv, ChipFollows, CallsFit
  <2>2. /\ busy' = [s |-> access[t].s, page |-> access[t].page, data |-> access[t].data]
        /\ merged' = NONE /\ UNCHANGED <<mem, wel>>
    BY <1>8, <2>1 DEF ProgramData, Program
  <2>3. Kept("poll")
    BY <1>1, <1>2, <2>1, <2>2, Moves DEF Reading, Writing, Holding
  <2>4. busy' = Ordered(t)' /\ busy' # NONE
    <3>1. busy' \in [s : 0..Sectors-1, page : -1..Pages-1, data : Data \cup {NONE}]
      BY <1>4, <2>1, <2>2 DEF Sector
    <3>2. access[t].page # -1
      BY <1>4, <2>1
    <3> QED BY <2>1, <2>2, <2>3, <3>1, <3>2, FlashAssumption DEF Ordered
  <2>5. ChipFollows'
    BY <1>2, <1>3, <2>1, <2>2, <2>3, <2>4 DEF FlashInv, ChipFollows, Holding
  <2>6. PagesWritten'
    BY <1>2, <1>3, <2>1, <2>2, <2>3, <2>4 DEF FlashInv, PagesWritten, Finished, Written, Writing, Holding
  <2> QED BY <2>3, <2>5, <2>6 DEF FlashInv
<1> QED BY <1>5, <1>6, <1>7, <1>8

\* The chip ends an erase or a program.
LEMMA ChipEnds ==
  ASSUME FlashInv, ChipDone
  PROVE  FlashInv'
<1>1. /\ busy # NONE /\ busy' = NONE /\ wel' = FALSE /\ merged' = merged /\ lock' = lock
      /\ access' = access /\ last' = last
      /\ mem' = [mem EXCEPT ![busy.s] =
           IF busy.page = -1 THEN [p \in Page |-> "erased"]
           ELSE [mem[busy.s] EXCEPT ![busy.page] = Burnt(mem[busy.s][busy.page], busy.data)]]
  BY DEF ChipDone, Worked
<1>2. PICK t \in Thread : access[t].at = "poll" /\ busy = Ordered(t)
  BY <1>1 DEF FlashInv, ChipFollows
<1>3. /\ busy.s = access[t].s /\ busy.page = access[t].page
      /\ access[t].page # -1 => busy.data = access[t].data
  BY <1>2 DEF Ordered
<1>4. \A u \in Thread : u # t => access[u].at \notin Holding
  BY <1>2, OneHolder DEF Holding
<1>5. /\ access[t].s \in Sector /\ access[t].page \in -1..Pages-1 /\ access[t].data \in Data
      /\ access[t].s \in Using(t)
  BY <1>2, CallFields DEF Writing
<1>6. mem \in [Sector -> [Page -> Value]]
  BY DEF FlashInv, DiskTypeOK
<1>7. \A q \in Sector : q # access[t].s => mem'[q] = mem[q]
  BY <1>1, <1>3, <1>6
<1>8. \A p \in Page :
        mem'[access[t].s][p] = IF p <= access[t].page THEN access[t].data ELSE "erased"
  <2>1. CASE access[t].page = -1
    <3>1. mem'[access[t].s] = [p \in Page |-> "erased"]
      BY <1>1, <1>3, <1>5, <1>6, <2>1
    <3>2. \A p \in Page : ~(p <= access[t].page)
      BY <2>1 DEF Page
    <3> QED BY <3>1, <3>2
  <2>2. CASE access[t].page # -1
    <3>1. access[t].page \in Page /\ access[t].page >= 0
      BY <1>5, <2>2, FlashAssumption DEF Page
    <3>2. \A p \in Page : mem[access[t].s][p] = IF p <= access[t].page - 1 THEN access[t].data ELSE "erased"
      <4>1. Written(t) = access[t].page - 1 /\ access[t].at \in Writing
        BY <1>1, <1>2 DEF Written, Finished, Writing
      <4> QED BY <3>1, <4>1 DEF FlashInv, PagesWritten
    <3>3. mem'[access[t].s] = [mem[access[t].s] EXCEPT ![access[t].page] =
                                Burnt(mem[access[t].s][access[t].page], access[t].data)]
      BY <1>1, <1>3, <1>5, <1>6, <2>2
    <3>4. Burnt(mem[access[t].s][access[t].page], access[t].data) = access[t].data
      <4>1. ~(access[t].page <= access[t].page - 1)
        BY <1>5
      <4> QED BY <3>1, <3>2, <4>1 DEF Burnt
    <3>5. ASSUME NEW p \in Page
          PROVE  mem'[access[t].s][p] = IF p <= access[t].page THEN access[t].data ELSE "erased"
      <4>1. mem[access[t].s] \in [Page -> Value]
        BY <1>5, <1>6
      <4>2. CASE p = access[t].page
        <5>1. p <= access[t].page
          BY <1>5, <4>2
        <5> QED BY <3>1, <3>3, <3>4, <4>1, <4>2, <5>1
      <4>3. CASE p # access[t].page
        <5>1. mem'[access[t].s][p] = mem[access[t].s][p]
          BY <3>1, <3>3, <4>1, <4>3
        <5>2. p <= access[t].page <=> p <= access[t].page - 1
          BY <1>5, <4>3 DEF Page
        <5> QED BY <3>2, <5>1, <5>2
      <4> QED BY <4>2, <4>3
    <3> QED BY <3>5
  <2> QED BY <2>1, <2>2
<1>9. mem' \in [Sector -> [Page -> Value]]
  <2>1. Burnt(mem[busy.s][busy.page], busy.data) \in Value \/ access[t].page = -1
    BY <1>3, <1>5 DEF Burnt, Value
  <2>2. [p \in Page |-> "erased"] \in [Page -> Value] /\ mem[busy.s] \in [Page -> Value]
    BY <1>3, <1>5, <1>6 DEF Value
  <2>3. access[t].page = -1 \/ access[t].page \in Page
    BY <1>5, FlashAssumption DEF Page
  <2> QED BY <1>1, <1>3, <1>5, <1>6, <2>1, <2>2, <2>3
<1>10. DiskTypeOK'
  BY <1>1, <1>9 DEF FlashInv, DiskTypeOK, Carried, Sector, Page, Value
<1>11. \A u \in Thread : Using(u)' = Using(u)
  BY <1>1 DEF Using
<1>12. CallsFit' /\ LockHeld' /\ CallsApart' /\ BeingWritten' /\ ReadAll'
  BY <1>1, <1>11 DEF FlashInv, CallsFit, LockHeld, CallsApart, BeingWritten, ReadAll, At
<1>13. ChipFollows'
  BY <1>1, <1>2, <1>4 DEF FlashInv, ChipFollows, Holding
<1>14. PagesWritten'
  <2> SUFFICES ASSUME NEW u \in Thread, access[u].at \in Writing, access[u].page >= 0 \/ Finished(u)',
                      NEW p \in Page
               PROVE  mem'[access[u].s][p] = IF p <= Written(u)' THEN access[u].data ELSE "erased"
    BY <1>1 DEF PagesWritten, Page
  <2>1. CASE u = t
    <3>1. Written(u)' = access[t].page
      BY <1>1, <1>2, <2>1 DEF Written, Finished
    <3> QED BY <1>8, <2>1, <3>1
  <2>2. CASE u # t
    <3>1. access[u].at # "poll" /\ access[u].at # "unlock" /\ access[u].page >= 0
      BY <1>1, <1>4, <2>2 DEF Holding, Finished
    <3>2. Written(u)' = Written(u)
      BY <1>1, <3>1 DEF Written, Finished
    <3>3. access[u].s # access[t].s /\ access[u].s \in Sector
      <4>1. access[u].s \in Using(u) /\ access[u].s \in Sector
        BY CallFields DEF Writing
      <4>2. access[u].at \notin Reading
        BY DEF Reading, Writing
      <4> QED BY <1>5, <2>2, <4>1, <4>2 DEF FlashInv, CallsApart
    <3> QED BY <1>7, <3>1, <3>2, <3>3 DEF FlashInv, PagesWritten
  <2> QED BY <2>1, <2>2
<1>15. SectorsHold'
  <2> SUFFICES ASSUME NEW q \in Sector, last[q] # NONE, NEW p \in Page PROVE mem'[q][p] = last[q]
    BY <1>1 DEF SectorsHold, Sector, Page
  <2>1. q # access[t].s
    BY <1>2, <1>5 DEF FlashInv, BeingWritten, Writing
  <2> QED BY <1>7, <2>1 DEF FlashInv, FlashKeeps, SectorsHold
<1>16. ReadsLast'
  BY <1>1 DEF FlashInv, FlashKeeps, ReadsLast, At
<1> QED BY <1>10, <1>12, <1>13, <1>14, <1>15, <1>16 DEF FlashInv, FlashKeeps

\* A read takes what its sectors hold.
LEMMA ReadSteps ==
  ASSUME FlashInv, NEW t \in Thread, Read(t)
  PROVE  FlashInv'
<1> DEFINE reply == [q \in Using(t) |-> Contents(q)]
<1>1. /\ access[t].at = "read" /\ lock' = lock /\ last' = last
      /\ access' = [access EXCEPT ![t] = [access[t] EXCEPT !.at = "readunlock", !.data = reply]]
  BY DEF Read, At
<1>2. lock = t /\ busy = NONE /\ merged = NONE
  BY <1>1, OneHolder, ChipIdle DEF Holding
<1>3. mem' = mem /\ wel' = wel /\ busy' = busy /\ merged' = merged
  BY <1>2 DEF Read, Command, chip
<1>4. access[t].at \in Reading /\ access[t].at \notin Writing /\ Using(t) \subseteq Sector
  BY <1>1, CallFields DEF Reading, Writing
<1>5. \A q \in Using(t) : last[q] # NONE /\ q \in Sector
  BY <1>4 DEF FlashInv, BeingWritten, CallsApart, Reading, Writing
<1>6. \A q \in Using(t) : Contents(q) = last[q]
  <2>1. 0 \in Page
    BY FlashAssumption DEF Page
  <2>2. \A q \in Using(t) : \A p \in Page : mem[q][p] = last[q]
    BY <1>5 DEF FlashInv, FlashKeeps, SectorsHold
  <2> QED BY <1>2, <2>1, <2>2 DEF Contents
<1>7. reply \in Carried
  <2>1. \A q \in Using(t) : Contents(q) \in Value
    BY <1>5, <1>6 DEF FlashInv, DiskTypeOK, Value
  <2> QED BY <1>4, <2>1 DEF Carried
<1>8. /\ reply = [q \in Using(t) |-> last[q]] /\ DOMAIN reply = Using(t)
      /\ \A q \in Using(t) : reply[q] = last[q]
  BY <1>6
<1> HIDE DEF reply
<1>9. access[t] \in [at : {"out"} \cup Reading \cup Writing, disk : BOOLEAN, s : Nat, left : Nat,
                     page : -1..Pages-1, data : Carried]
  BY DEF FlashInv, DiskTypeOK
<1>10. access' \in [Thread -> [at : {"out"} \cup Reading \cup Writing, disk : BOOLEAN, s : Nat, left : Nat,
                               page : -1..Pages-1, data : Carried]]
  <2>1. [access[t] EXCEPT !.at = "readunlock", !.data = reply]
          \in [at : {"out"} \cup Reading \cup Writing, disk : BOOLEAN, s : Nat, left : Nat,
               page : -1..Pages-1, data : Carried]
    BY <1>7, <1>9 DEF Reading
  <2> QED BY <1>1, <2>1 DEF FlashInv, DiskTypeOK
<1>11. /\ access'[t].at = "readunlock" /\ access'[t].data = reply
       /\ access'[t].s = access[t].s /\ access'[t].left = access[t].left
       /\ access'[t].page = access[t].page
       /\ \A u \in Thread : u # t => access'[u] = access[u]
  BY <1>1, <1>9 DEF FlashInv, DiskTypeOK
<1>12. \A u \in Thread : Using(u)' = Using(u)
  BY <1>1, <1>11 DEF Using
<1>13. DiskTypeOK'
  BY <1>1, <1>3, <1>10 DEF FlashInv, DiskTypeOK, Carried, Sector, Page, Value
<1>14. CallsFit' /\ LockHeld'
  BY <1>1, <1>2, <1>11 DEF FlashInv, CallsFit, LockHeld, Writing, Holding
<1>15. ChipFollows' /\ PagesWritten'
  <2>1. \A u \in Thread : u # t => (Finished(u)' <=> Finished(u)) /\ Written(u)' = Written(u)
    BY <1>3, <1>11 DEF Finished, Written
  <2> QED BY <1>1, <1>2, <1>3, <1>11, <2>1 DEF FlashInv, ChipFollows, PagesWritten, Writing
<1>16. CallsApart' /\ BeingWritten'
  BY <1>1, <1>4, <1>11, <1>12 DEF FlashInv, CallsApart, BeingWritten, Reading, Writing
<1>17. ReadAll' /\ ReadsLast'
  BY <1>1, <1>8, <1>11, <1>12 DEF FlashInv, ReadAll, FlashKeeps, ReadsLast, At
<1>18. SectorsHold'
  BY <1>1, <1>3 DEF FlashInv, FlashKeeps, SectorsHold
<1> QED BY <1>13, <1>14, <1>15, <1>16, <1>17, <1>18 DEF FlashInv, FlashKeeps

\* A call that ends leaves its sectors to others.
LEMMA NoCallFields ==
  ASSUME FlashInv, NEW t \in Thread, access' = [access EXCEPT ![t] = NoCall]
  PROVE  /\ access' \in [Thread -> [at : {"out"} \cup Reading \cup Writing, disk : BOOLEAN, s : Nat,
                                    left : Nat, page : -1..Pages-1, data : Carried]]
         /\ access'[t].at = "out" /\ Using(t)' = {}
         /\ \A u \in Thread : u # t => access'[u] = access[u] /\ Using(u)' = Using(u)
<1>1. NoCall \in [at : {"out"} \cup Reading \cup Writing, disk : BOOLEAN, s : Nat, left : Nat,
                  page : -1..Pages-1, data : Carried]
  BY FlashAssumption DEF NoCall, Carried
<1>2. access'[t] = NoCall /\ NoCall.at = "out" /\ \A u \in Thread : u # t => access'[u] = access[u]
  BY DEF FlashInv, DiskTypeOK, NoCall
<1> QED BY <1>1, <1>2 DEF FlashInv, DiskTypeOK, Using

\* A read ends.
LEMMA ReadEnds ==
  ASSUME FlashInv, NEW t \in Thread, ReadUnlock(t)
  PROVE  FlashInv'
<1>1. /\ access[t].at = "readunlock" /\ lock' = NONE /\ last' = last
      /\ access' = [access EXCEPT ![t] = NoCall]
      /\ mem' = mem /\ wel' = wel /\ busy' = busy /\ merged' = merged
  BY DEF ReadUnlock, At, chip
<1>2. lock = t /\ \A u \in Thread : u # t => access[u].at \notin Holding
  BY <1>1, OneHolder DEF Holding
<1>3. /\ access'[t].at = "out" /\ Using(t)' = {}
      /\ \A u \in Thread : u # t => access'[u] = access[u] /\ Using(u)' = Using(u)
  BY <1>1, NoCallFields
<1>4. DiskTypeOK'
  BY <1>1, NoCallFields DEF FlashInv, DiskTypeOK, Carried, Sector, Page, Value
<1>5. CallsFit' /\ LockHeld'
  BY <1>1, <1>2, <1>3, FlashAssumption DEF FlashInv, CallsFit, LockHeld, Writing, Holding
<1>6. ChipFollows' /\ PagesWritten'
  <2>1. \A u \in Thread : u # t => (Finished(u)' <=> Finished(u)) /\ Written(u)' = Written(u)
    BY <1>1, <1>3 DEF Finished, Written
  <2> QED BY <1>1, <1>2, <1>3, <2>1 DEF FlashInv, ChipFollows, PagesWritten, Writing, Ordered
<1>7. CallsApart' /\ BeingWritten'
  BY <1>1, <1>3 DEF FlashInv, CallsApart, BeingWritten, Reading, Writing
<1>8. ReadAll' /\ ReadsLast' /\ SectorsHold'
  BY <1>1, <1>3 DEF FlashInv, ReadAll, FlashKeeps, ReadsLast, SectorsHold, At
<1> QED BY <1>4, <1>5, <1>6, <1>7, <1>8 DEF FlashInv, FlashKeeps

\* A write gives the lock back after an erase or a page.
LEMMA WriteUnlocks ==
  ASSUME FlashInv, NEW t \in Thread, Unlock(t)
  PROVE  FlashInv'
<1> DEFINE c == access[t]
           full == access[t].page = Pages - 1
           Calls == [at : {"out"} \cup Reading \cup Writing, disk : BOOLEAN, s : Nat, left : Nat,
                     page : -1..Pages-1, data : Carried]
<1>1. /\ access[t].at = "unlock" /\ lock' = NONE
      /\ mem' = mem /\ wel' = wel /\ busy' = busy /\ merged' = merged
      /\ last' = IF full THEN [last EXCEPT ![access[t].s] = access[t].data] ELSE last
  BY DEF Unlock, At, chip
<1>2. lock = t /\ \A u \in Thread : u # t => access[u].at \notin Holding
  BY <1>1, OneHolder DEF Holding
<1>3. /\ access[t].s \in Nat /\ access[t].left \in Nat /\ access[t].left > 0
      /\ access[t].s + access[t].left <= Sectors /\ access[t].s \in Sector /\ access[t].s \in Using(t)
      /\ access[t].page \in -1..Pages-1 /\ access[t].data \in Data /\ access[t].data # NONE
  BY <1>1, CallFields DEF Writing
<1>4. access[t] \in Calls /\ access \in [Thread -> Calls] /\ last \in [Sector -> Data \cup {NONE}]
  BY DEF FlashInv, DiskTypeOK
<1>5. \A p \in Page : mem[access[t].s][p] = IF p <= access[t].page THEN access[t].data ELSE "erased"
  <2>1. Finished(t) /\ Written(t) = access[t].page /\ access[t].at \in Writing
    BY <1>1 DEF Finished, Written, Writing
  <2> QED BY <2>1 DEF FlashInv, PagesWritten
<1>6. \A u \in Thread : u # t => access[t].s \notin Using(u)
  BY <1>1, <1>3 DEF FlashInv, CallsApart, Reading
<1>7. CASE ~full
  <2> DEFINE d == [access[t] EXCEPT !.at = "lock", !.page = access[t].page + 1]
  <2>1. access' = [access EXCEPT ![t] = d]
    BY <1>7 DEF Unlock
  <2>2. d \in Calls
    <3>1. access[t].page + 1 \in -1..Pages-1 /\ "lock" \in Writing
      BY <1>3, <1>7, FlashAssumption DEF Writing
    <3> QED BY <1>4, <3>1
  <2>3. d.at = "lock" /\ d.page = access[t].page + 1 /\ d.s = access[t].s /\ d.left = access[t].left
          /\ d.data = access[t].data
    BY <1>4
  <2> HIDE DEF d
  <2>4. access' \in [Thread -> Calls] /\ access'[t] = d /\ \A u \in Thread : u # t => access'[u] = access[u]
    BY <1>4, <2>1, <2>2
  <2>5. \A u \in Thread : Using(u)' = Using(u)
    BY <1>1, <2>3, <2>4 DEF Using
  <2>6. last' = last
    BY <1>1, <1>7
  <2>7. DiskTypeOK'
    BY <1>1, <2>4, <2>6 DEF FlashInv, DiskTypeOK, Carried, Sector, Page, Value
  <2>8. CallsFit' /\ LockHeld'
    BY <1>1, <1>2, <1>3, <2>3, <2>4, FlashAssumption DEF FlashInv, CallsFit, LockHeld, Writing, Holding
  <2>9. \A u \in Thread : u # t => (Finished(u)' <=> Finished(u)) /\ Written(u)' = Written(u)
    BY <1>1, <2>4 DEF Finished, Written
  <2>10. ChipFollows'
    BY <1>1, <1>2, <2>3, <2>4 DEF FlashInv, ChipFollows, Ordered
  <2>11. PagesWritten'
    <3>1. Written(t)' = access[t].page
      BY <1>3, <2>3, <2>4 DEF Written, Finished
    <3> QED BY <1>1, <1>5, <2>3, <2>4, <2>9, <3>1 DEF FlashInv, PagesWritten
  <2>12. CallsApart' /\ BeingWritten'
    BY <1>1, <2>3, <2>4, <2>5, <2>6 DEF FlashInv, CallsApart, BeingWritten, Reading, Writing
  <2>13. ReadAll' /\ ReadsLast' /\ SectorsHold'
    BY <1>1, <2>3, <2>4, <2>5, <2>6 DEF FlashInv, ReadAll, FlashKeeps, ReadsLast, SectorsHold, At
  <2> QED BY <2>7, <2>8, <2>10, <2>11, <2>12, <2>13 DEF FlashInv, FlashKeeps
<1>8. CASE full
  <2>1. last' = [last EXCEPT ![access[t].s] = access[t].data]
    BY <1>1, <1>8
  <2>2. last' \in [Sector -> Data \cup {NONE}] /\ last'[access[t].s] = access[t].data
        /\ \A q \in Sector : q # access[t].s => last'[q] = last[q]
    BY <1>3, <1>4, <2>1
  <2>3. SectorsHold'
    <3>1. \A p \in Page : mem[access[t].s][p] = access[t].data
      BY <1>5, <1>8, FlashAssumption DEF Page
    <3> QED BY <1>1, <2>2, <3>1 DEF FlashInv, FlashKeeps, SectorsHold
  <2>4. /\ access' \in [Thread -> Calls]
        /\ \A u \in Thread : u # t => access'[u] = access[u] /\ Using(u)' = Using(u)
        /\ access'[t].at \in {"lock", "out"} /\ Using(t)' = Using(t) \ {access[t].s}
        /\ access'[t].at = "lock" => /\ access'[t].page = -1 /\ access'[t].data = access[t].data
                                     /\ access'[t].left > 0 /\ access'[t].s + access'[t].left <= Sectors
    <3>1. CASE access[t].left > 1
      <4> DEFINE d == [access[t] EXCEPT !.at = "lock", !.page = -1, !.s = access[t].s + 1,
                                        !.left = access[t].left - 1]
      <4>1. access' = [access EXCEPT ![t] = d]
        BY <1>8, <3>1 DEF Unlock
      <4>2. access[t].s + 1 \in Nat /\ access[t].left - 1 \in Nat /\ -1 \in -1..Pages-1
        BY <1>3, <3>1, FlashAssumption
      <4>3. d \in Calls
        BY <1>4, <4>2 DEF Writing
      <4>4. /\ d.at = "lock" /\ d.page = -1 /\ d.s = access[t].s + 1 /\ d.left = access[t].left - 1
            /\ d.data = access[t].data
        BY <1>4
      <4> HIDE DEF d
      <4>5. /\ access' \in [Thread -> Calls] /\ access'[t] = d
            /\ \A u \in Thread : u # t => access'[u] = access[u]
        BY <1>4, <4>1, <4>3
      <4>6. d.left > 0 /\ d.s + d.left <= Sectors
        BY <1>3, <3>1, <4>4
      <4>7. Using(t)' = Using(t) \ {access[t].s}
        <5>1. Using(t) = access[t].s .. access[t].s + access[t].left - 1
          BY <1>1 DEF Using
        <5>2. Using(t)' = access[t].s + 1 .. access[t].s + 1 + (access[t].left - 1) - 1
          BY <4>4, <4>5 DEF Using
        <5> QED BY <1>3, <5>1, <5>2, SMTT(30)
      <4>8. \A u \in Thread : u # t => Using(u)' = Using(u)
        BY <4>5 DEF Using
      <4> QED BY <4>4, <4>5, <4>6, <4>7, <4>8
    <3>2. CASE ~(access[t].left > 1)
      <4>1. access' = [access EXCEPT ![t] = NoCall]
        BY <1>8, <3>2 DEF Unlock
      <4>2. Using(t) = {access[t].s}
        BY <1>1, <1>3, <3>2 DEF Using
      <4> QED BY <4>1, <4>2, NoCallFields
    <3> QED BY <3>1, <3>2
  <2>5. DiskTypeOK'
    BY <1>1, <2>2, <2>4 DEF FlashInv, DiskTypeOK, Carried, Sector, Page, Value
  <2>6. CallsFit' /\ LockHeld'
    BY <1>1, <1>2, <1>3, <2>4, FlashAssumption DEF FlashInv, CallsFit, LockHeld, Writing, Holding
  <2>7. \A u \in Thread : u # t => (Finished(u)' <=> Finished(u)) /\ Written(u)' = Written(u)
    BY <1>1, <2>4 DEF Finished, Written
  <2>8. ChipFollows'
    BY <1>1, <1>2, <2>4 DEF FlashInv, ChipFollows, Ordered
  <2>9. PagesWritten'
    <3>1. ~Finished(t)' /\ (access'[t].at \in Writing => ~(access'[t].page >= 0))
      BY <2>4 DEF Finished, Writing
    <3> QED BY <1>1, <2>4, <2>7, <3>1 DEF FlashInv, PagesWritten
  <2>10. CallsApart'
    BY <1>1, <2>4 DEF FlashInv, CallsApart, Reading
  <2>11. BeingWritten'
    <3> SUFFICES ASSUME NEW q \in Sector
                 PROVE  last'[q] = NONE <=> \E u \in Thread : access'[u].at \in Writing /\ q \in Using(u)'
      BY DEF BeingWritten, Sector
    <3>1. CASE q = access[t].s
      <4>1. last'[q] # NONE
        BY <1>3, <2>2, <3>1
      <4>2. \A u \in Thread : q \notin Using(u)'
        BY <1>6, <2>4, <3>1
      <4> QED BY <4>1, <4>2
    <3>2. CASE q # access[t].s
      <4>1. last'[q] = last[q]
        BY <2>2, <3>2
      <4>2. q \in Using(t)' <=> q \in Using(t)
        BY <2>4, <3>2
      <4>3. q \in Using(t)' => access'[t].at \in Writing
        <5>1. access'[t].at = "out" => Using(t)' = {}
          BY DEF Using
        <5> QED BY <2>4, <5>1 DEF Writing
      <4>4. access[t].at \in Writing
        BY <1>1 DEF Writing
      <4> QED BY <2>4, <4>1, <4>2, <4>3, <4>4 DEF FlashInv, BeingWritten
    <3> QED BY <3>1, <3>2
  <2>12. ReadAll' /\ ReadsLast'
    <3>1. \A u \in Thread : u # t => \A q \in Using(u) : q \in Sector /\ last'[q] = last[q]
      BY <1>6, <2>2, CallFields
    <3> QED BY <2>4, <3>1 DEF FlashInv, ReadAll, FlashKeeps, ReadsLast, At
  <2> QED BY <2>3, <2>5, <2>6, <2>8, <2>9, <2>10, <2>11, <2>12 DEF FlashInv, FlashKeeps
<1> QED BY <1>7, <1>8

\* A call begins on sectors that no write is using, nor any read if it writes.
LEMMA CallsBegin ==
  ASSUME FlashInv, NEW t \in Thread, NEW a \in {"readlock", "lock"}, NEW disk \in BOOLEAN,
         NEW s \in Nat, NEW n \in Nat, n > 0, s + n <= Sectors, NEW d \in Data \cup {NONE},
         a = "lock" => d \in Data,
         Begin(t, a, disk, s, n, d), chip' = chip, lock' = lock,
         last' = IF a = "lock" THEN [q \in Sector |-> IF q \in s..s+n-1 THEN NONE ELSE last[q]] ELSE last
  PROVE  FlashInv'
<1> DEFINE Calls == [at : {"out"} \cup Reading \cup Writing, disk : BOOLEAN, s : Nat, left : Nat,
                     page : -1..Pages-1, data : Carried]
           c == [at |-> a, disk |-> disk, s |-> s, left |-> n, page |-> -1, data |-> d]
<1>1. /\ access[t].at = "out" /\ access' = [access EXCEPT ![t] = c]
      /\ \A u \in Thread : Using(u) \cap s..s+n-1 # {} => {a, access[u].at} \subseteq Reading
      /\ mem' = mem /\ wel' = wel /\ busy' = busy /\ merged' = merged
  BY DEF Begin, At, chip
<1>2. c \in Calls
  BY FlashAssumption DEF Reading, Writing, Carried
<1>3. /\ c.at = a /\ c.s = s /\ c.left = n /\ c.page = -1 /\ c.data = d
      /\ a # "out" /\ a # "readunlock"
  OBVIOUS
<1> HIDE DEF c
<1>4. access \in [Thread -> Calls] /\ last \in [Sector -> Data \cup {NONE}]
  BY DEF FlashInv, DiskTypeOK
<1>5. /\ access' \in [Thread -> Calls] /\ access'[t] = c
      /\ \A u \in Thread : u # t => access'[u] = access[u]
  BY <1>1, <1>2, <1>4
<1>6. Using(t) = {} /\ Using(t)' = s..s+n-1 /\ \A u \in Thread : u # t => Using(u)' = Using(u)
  BY <1>1, <1>3, <1>5 DEF Using
<1>7. /\ last' \in [Sector -> Data \cup {NONE}]
      /\ a # "lock" => last' = last
      /\ a = "lock" => \A q \in Sector : last'[q] = IF q \in s..s+n-1 THEN NONE ELSE last[q]
  BY <1>4
<1>8. DiskTypeOK'
  BY <1>1, <1>5, <1>7 DEF FlashInv, DiskTypeOK, Carried, Sector, Page, Value
<1>9. CallsFit' /\ LockHeld'
  BY <1>1, <1>3, <1>5 DEF FlashInv, CallsFit, LockHeld, Writing, Holding
<1>10. \A u \in Thread : u # t => (Finished(u)' <=> Finished(u)) /\ Written(u)' = Written(u)
  BY <1>1, <1>5 DEF Finished, Written
<1>11. ChipFollows'
  BY <1>1, <1>3, <1>5 DEF FlashInv, ChipFollows, Ordered
<1>12. PagesWritten'
  <2>1. ~Finished(t)' /\ ~(access'[t].page >= 0)
    BY <1>3, <1>5 DEF Finished
  <2> QED BY <1>1, <1>5, <1>10, <2>1 DEF FlashInv, PagesWritten
<1>13. \A u \in Thread : \A q \in Using(u) : q \in s..s+n-1 => a \in Reading /\ access[u].at \in Reading
  BY <1>1
<1>14. CallsApart'
  <2> SUFFICES ASSUME NEW u \in Thread, NEW v \in Thread, u # v, NEW q \in Using(u)' \cap Using(v)'
               PROVE  access'[u].at \in Reading /\ access'[v].at \in Reading
    BY DEF CallsApart
  <2>1. access'[t].at = a
    BY <1>3, <1>5
  <2>2. CASE u = t
    <3>1. q \in Using(v) /\ q \in s..s+n-1 /\ access'[v] = access[v]
      BY <1>5, <1>6, <2>2
    <3> QED BY <1>13, <2>1, <2>2, <3>1
  <2>3. CASE v = t
    <3>1. q \in Using(u) /\ q \in s..s+n-1 /\ access'[u] = access[u]
      BY <1>5, <1>6, <2>3
    <3> QED BY <1>13, <2>1, <2>3, <3>1
  <2>4. CASE u # t /\ v # t
    <3>1. q \in Using(u) \cap Using(v) /\ access'[u] = access[u] /\ access'[v] = access[v]
      BY <1>5, <1>6, <2>4
    <3> QED BY <3>1 DEF FlashInv, CallsApart
  <2> QED BY <2>2, <2>3, <2>4
<1>15. a \in Writing <=> a = "lock"
  BY DEF Writing
<1>16. BeingWritten'
  <2> SUFFICES ASSUME NEW q \in Sector
               PROVE  last'[q] = NONE <=> \E u \in Thread : access'[u].at \in Writing /\ q \in Using(u)'
    BY DEF BeingWritten, Sector
  <2>1. last[q] = NONE <=> \E u \in Thread : access[u].at \in Writing /\ q \in Using(u)
    BY DEF FlashInv, BeingWritten
  <2>2. CASE a = "lock" /\ q \in s..s+n-1
    BY <1>3, <1>5, <1>6, <1>7, <1>15, <2>2
  <2>3. CASE ~(a = "lock" /\ q \in s..s+n-1)
    <3>1. last'[q] = last[q] /\ ~(access'[t].at \in Writing /\ q \in Using(t)')
      BY <1>3, <1>5, <1>6, <1>7, <1>15, <2>3
    <3> QED BY <1>5, <1>6, <2>1, <3>1
  <2> QED BY <2>2, <2>3
<1>17. ReadAll' /\ ReadsLast'
  <2>1. \A u \in Thread : \A q \in Using(u) : last'[q] = last[q] \/ access[u].at \notin Reading \/ q \notin Sector
    BY <1>7, <1>13 DEF Reading
  <2>2. \A u \in Thread : access[u].at = "readunlock" => \A q \in Using(u) : last'[q] = last[q]
    <3>1. \A u \in Thread : Using(u) \subseteq Sector
      BY CallFields
    <3> QED BY <2>1, <3>1 DEF Reading
  <2>3. access'[t].at # "readunlock"
    BY <1>3, <1>5
  <2>4. ReadAll'
    BY <1>5, <1>6, <2>3 DEF FlashInv, ReadAll, At
  <2>5. ReadsLast'
    <3> SUFFICES ASSUME NEW u \in Thread, access'[u].at = "readunlock",
                        NEW q \in DOMAIN access'[u].data
                 PROVE  access'[u].data[q] = last'[q]
      BY DEF ReadsLast, At
    <3>1. u # t /\ access'[u] = access[u]
      BY <1>5, <2>3
    <3>2. access[u].at = "readunlock" /\ q \in DOMAIN access[u].data
      BY <3>1
    <3>3. q \in Using(u) /\ access[u].data[q] = last[q]
      BY <3>2 DEF FlashInv, ReadAll, FlashKeeps, ReadsLast, At
    <3> QED BY <2>2, <3>1, <3>2, <3>3
  <2> QED BY <2>4, <2>5
<1>18. SectorsHold'
  <2>1. \A q \in Sector : last'[q] # NONE => last'[q] = last[q]
    BY <1>7
  <2> QED BY <1>1, <2>1 DEF FlashInv, FlashKeeps, SectorsHold
<1> QED BY <1>8, <1>9, <1>11, <1>12, <1>14, <1>16, <1>17, <1>18 DEF FlashInv, FlashKeeps

\* Every call of the disk and of the programmer begins so.
LEMMA CallSteps ==
  ASSUME FlashInv, NEW t \in Thread, Call(t)
  PROVE  FlashInv'
<1>1. PICK s \in 0..Sectors, n \in 1..MaxCount :
        \/ RawRead(t, s, n) \/ disk_read(t, s, n)
        \/ \E d \in Data : RawWrite(t, s, n, d) \/ disk_write(t, s, n, d)
  BY DEF Call
<1>2. /\ s \in Nat /\ n \in Nat /\ n > 0 /\ s + Start \in Nat
      /\ s + Start + n <= End => s + Start + n <= Sectors
  BY FlashAssumption
<1>3. CASE RawRead(t, s, n)
  <2>1. /\ s + n <= Sectors /\ Begin(t, "readlock", FALSE, s, n, NONE)
        /\ chip' = chip /\ lock' = lock /\ last' = last
    BY <1>3 DEF RawRead
  <2> QED BY <1>2, <2>1, CallsBegin
<1>4. CASE disk_read(t, s, n)
  <2>1. /\ s + Start + n <= Sectors /\ Begin(t, "readlock", TRUE, s + Start, n, NONE)
        /\ chip' = chip /\ lock' = lock /\ last' = last
    BY <1>2, <1>4 DEF disk_read, Inside
  <2> QED BY <1>2, <2>1, CallsBegin
<1>5. ASSUME NEW d \in Data, RawWrite(t, s, n, d) PROVE FlashInv'
  <2>1. /\ s + n <= Sectors /\ Begin(t, "lock", FALSE, s, n, d)
        /\ chip' = chip /\ lock' = lock
        /\ last' = [q \in Sector |-> IF q \in s..s+n-1 THEN NONE ELSE last[q]]
    BY <1>5 DEF RawWrite
  <2> QED BY <1>2, <2>1, CallsBegin
<1>6. ASSUME NEW d \in Data, disk_write(t, s, n, d) PROVE FlashInv'
  <2> DEFINE p == s + Start
  <2>1. /\ p + n <= Sectors /\ Begin(t, "lock", TRUE, p, n, d)
        /\ chip' = chip /\ lock' = lock
        /\ last' = [q \in Sector |-> IF q \in p..p+n-1 THEN NONE ELSE last[q]]
    BY <1>2, <1>6 DEF disk_write, Inside
  <2>2. p \in Nat
    BY <1>2
  <2> HIDE DEF p
  <2> QED BY <1>2, <2>1, <2>2, CallsBegin
<1> QED BY <1>1, <1>3, <1>4, <1>5, <1>6

\* The chip holds one value everywhere and nobody is using it.
LEMMA FlashInitial == DiskInit => FlashInv
<1> SUFFICES ASSUME DiskInit PROVE FlashInv
  OBVIOUS
<1>1. PICK d \in Data : /\ mem = [s \in Sector |-> [p \in Page |-> d]]
                        /\ last = [s \in Sector |-> d]
  BY DEF DiskInit
<1>2. /\ wel = FALSE /\ busy = NONE /\ merged = NONE /\ lock = NONE
      /\ access = [t \in Thread |-> NoCall]
  BY DEF DiskInit
<1>3. NoCall \in [at : {"out"} \cup Reading \cup Writing, disk : BOOLEAN, s : Nat, left : Nat,
                  page : -1..Pages-1, data : Carried]
  BY FlashAssumption DEF NoCall, Carried
<1>4. \A t \in Thread : access[t].at = "out" /\ Using(t) = {}
  BY <1>2 DEF NoCall, Using
<1>5. DiskTypeOK
  BY <1>1, <1>2, <1>3 DEF DiskTypeOK, Value
<1>6. CallsFit /\ LockHeld /\ ChipFollows /\ PagesWritten /\ CallsApart /\ ReadAll
  BY <1>2, <1>4, FlashAssumption DEF CallsFit, LockHeld, ChipFollows, PagesWritten, CallsApart, ReadAll,
       Writing, Holding, Finished, At
<1>7. BeingWritten
  BY <1>1, <1>4, FlashAssumption DEF BeingWritten
<1>8. FlashKeeps
  BY <1>1, <1>4 DEF FlashKeeps, SectorsHold, ReadsLast, At
<1> QED BY <1>5, <1>6, <1>7, <1>8 DEF FlashInv

\* Chip, lock, calls and how far each write has got.
THEOREM FlashCorrect == DiskSpec => []FlashInv
<1>1. DiskInit => FlashInv
  BY FlashInitial
<1>2. FlashInv /\ [DiskNext]_diskVars => FlashInv'
  <2> SUFFICES ASSUME FlashInv, [DiskNext]_diskVars PROVE FlashInv'
    OBVIOUS
  <2>1. CASE ChipDone
    BY <2>1, ChipEnds
  <2>2. ASSUME NEW t \in Thread, Call(t) PROVE FlashInv'
    BY <2>2, CallSteps
  <2>3. ASSUME NEW t \in Thread, Step(t) PROVE FlashInv'
    BY <2>3, LockSteps, WriteCommands, ReadSteps, ReadEnds, WriteUnlocks DEF Step
  <2>4. CASE UNCHANGED diskVars
    <3>1. UNCHANGED <<mem, wel, busy, merged, lock, access, last>>
      BY <2>4 DEF diskVars
    <3>2. \A t \in Thread : /\ Using(t)' = Using(t) /\ (Finished(t)' <=> Finished(t))
                            /\ Written(t)' = Written(t) /\ Ordered(t)' = Ordered(t)
      BY <3>1 DEF Using, Finished, Written, Ordered
    <3>3. DiskTypeOK' /\ CallsFit' /\ LockHeld' /\ ChipFollows'
      BY <3>1, <3>2 DEF FlashInv, DiskTypeOK, CallsFit, LockHeld, ChipFollows, Carried, Sector, Page, Value
    <3>4. PagesWritten' /\ CallsApart' /\ BeingWritten' /\ ReadAll' /\ FlashKeeps'
      BY <3>1, <3>2 DEF FlashInv, PagesWritten, CallsApart, BeingWritten, ReadAll, FlashKeeps,
                       SectorsHold, ReadsLast, At
    <3> QED BY <3>3, <3>4 DEF FlashInv
  <2> QED BY <2>1, <2>2, <2>3, <2>4 DEF DiskNext
<1> QED BY <1>1, <1>2, PTL DEF DiskSpec

\* A sector that nobody is writing holds what was written to it last, and a
\* read returns that: whatever else is erased and programmed in the meantime, no
\* page is programmed twice and no command is lost in a busy chip.
THEOREM FlashHolds == DiskSpec => []FlashKeeps
<1>1. FlashInv => FlashKeeps
  BY DEF FlashInv
<1> QED BY <1>1, FlashCorrect, PTL

-----------------------------------------------------------------------------
(* The client file system *)

Locked    == {"clean", "free", "close"}
InHand    == {"publish", "undo", "closing", "close"}
Reserving == {"opening", "publish", "closing", "closed", "failed"}

\* A worker past the step that gave it a descriptor has one.
DescriptorInHand ==
  \A w \in Worker : job[w].at \in InHand \cup {"got", "using", "closed", "failed", "free"} => job[w].fd \in Fd

\* sem_lock is with the worker that walks the entries.
LockWithCleanup == \A w \in Worker : sem_lock = w <=> job[w].at \in Locked

\* An open or a close has its entry reserved, or cancelled by a cleanup.
EntryOfJob == \A w \in Worker : job[w].at \in Reserving => vfd_list[job[w].vfd] \in {ALLOC, CANCELED}

\* No two of them have the same entry.
OwnEntry ==
  \A w, u \in Worker : w # u /\ job[w].at \in Reserving /\ job[u].at \in Reserving => job[w].vfd # job[u].vfd

\* Behind the place of a cleanup no entry is open or about to be.
Cleaned ==
  \A w \in Worker : job[w].at \in Locked =>
    \A v \in Vfd : v < job[w].vfd \/ (v = job[w].vfd /\ job[w].at = "close") =>
      vfd_list[v] \in {FREE, CANCELED}

\* No descriptor is in two entries, in two hands, or in an entry and a hand.
OnePlace ==
  /\ \A v, u \in Vfd : vfd_list[v] \in Fd /\ vfd_list[u] = vfd_list[v] => u = v
  /\ \A w, u \in Worker :
       job[w].at \in InHand /\ job[u].at \in InHand /\ job[u].fd = job[w].fd => u = w
  /\ \A w \in Worker, v \in Vfd : job[w].at \in InHand => vfd_list[v] # job[w].fd

\* The descriptors of the client are those in an entry or in a hand.
ClientsAre ==
  \A f \in Fd :
    user[f] = "client" <=> \/ \E v \in Vfd : vfd_list[v] = f
                           \/ \E w \in Worker : job[w].at \in InHand /\ job[w].fd = f

\* What holds whatever has happened ...
Workers == FsTypeOK /\ DescriptorInHand /\ LockWithCleanup

\* ... and what holds of the entries and the descriptors until one is spoilt.
Entries == EntryOfJob /\ OwnEntry /\ Cleaned
Accounted  == OnePlace /\ ClientsAre

FilesInv == Workers /\ (spoilt \/ (Entries /\ Accounted))

-----------------------------------------------------------------------------
(* The calls under way *)

\* The entries are numbered from 0 without a gap.
LEMMA VfdFacts ==
  /\ Vfd \subseteq Nat /\ 0 \in Vfd
  /\ \A v \in Vfd : v + 1 \notin Vfd => \A u \in Vfd : u <= v
<1> DEFINE n == Cardinality(Vfd)
<1>1. n \in Nat /\ Vfd = 0..n-1 /\ Vfd # {}
  BY FsAssumption, FS_CardinalityType
<1> HIDE DEF n
<1> QED BY <1>1

\* The marks are no descriptors, and differ.
LEMMA Marks ==
  /\ FREE \notin Fd /\ ALLOC \notin Fd /\ CANCELED \notin Fd
  /\ FREE # ALLOC /\ FREE # CANCELED /\ ALLOC # CANCELED
BY FsAssumption DEF FREE, ALLOC, CANCELED

\* The step to the next entry: the walk goes on there, or this was the last
\* one and the lock is free.
LEMMA WalkOn ==
  ASSUME FsTypeOK, NEW w \in Worker, NextVfd(w)
  PROVE  /\ job' \in [Worker -> [at : FsPlaces, vfd : Vfd, fd : Fd \cup {NOBODY}]]
         /\ \A u \in Worker \ {w} : job'[u] = job[u]
         /\ job'[w].at \in {"clean", "out"}
         /\ \/ /\ job'[w] = [at |-> "clean", vfd |-> job[w].vfd + 1, fd |-> NOBODY]
               /\ sem_lock' = sem_lock
            \/ /\ job'[w] = [at |-> "out", vfd |-> 0, fd |-> NOBODY]
               /\ sem_lock' = NOBODY
               /\ \A v \in Vfd : v <= job[w].vfd
<1>1. job[w].vfd \in Vfd
  BY DEF FsTypeOK
<1>2. CASE job[w].vfd + 1 \in Vfd
  BY <1>2 DEF NextVfd, Hold, FsTypeOK, FsPlaces
<1>3. CASE job[w].vfd + 1 \notin Vfd
  <2>1. job' = [job EXCEPT ![w] = NoJob] /\ sem_lock' = NOBODY
    BY <1>3 DEF NextVfd, Return
  <2>2. \A v \in Vfd : v <= job[w].vfd
    BY <1>1, <1>3, VfdFacts
  <2> QED BY <2>1, <2>2, VfdFacts DEF NoJob, FsTypeOK, FsPlaces
<1> QED BY <1>2, <1>3

\* The steps of a cleanup that go on to the next entry.
LEMMA WalkingOn ==
  ASSUME NEW w \in Worker
  PROVE  /\ CleanClose(w) => NextVfd(w)
         /\ CleanVfd(w) /\ vfd_list[job[w].vfd] \notin Fd => NextVfd(w)
  BY DEF CleanClose, CleanVfd

\* What a walking cleanup does to its own call and to the lock.
LEMMA WalkWorkers ==
  ASSUME Workers, NEW w \in Worker, job[w].at \in Locked,
         NextVfd(w) \/ (UNCHANGED sem_lock /\ \E f \in Fd : Hold(w, "free", job[w].vfd, f)),
         vfd_list' \in [Vfd -> Fd \cup {FREE, ALLOC, CANCELED}],
         user' \in [Fd -> {"client", "program", NOBODY}], spoilt' = spoilt
  PROVE  Workers'
<1> USE DEF Workers
<1>1. CASE NextVfd(w)
  <2>1. /\ job' \in [Worker -> [at : FsPlaces, vfd : Vfd, fd : Fd \cup {NOBODY}]]
        /\ \A u \in Worker \ {w} : job'[u] = job[u]
        /\ \/ job'[w].at = "clean" /\ sem_lock' = sem_lock
           \/ job'[w].at = "out" /\ sem_lock' = NOBODY
    <3>1. FsTypeOK
      OBVIOUS
    <3>2. /\ job' \in [Worker -> [at : FsPlaces, vfd : Vfd, fd : Fd \cup {NOBODY}]]
          /\ \A u \in Worker \ {w} : job'[u] = job[u]
          /\ \/ job'[w] = [at |-> "clean", vfd |-> job[w].vfd + 1, fd |-> NOBODY] /\ sem_lock' = sem_lock
             \/ job'[w] = [at |-> "out", vfd |-> 0, fd |-> NOBODY] /\ sem_lock' = NOBODY
      BY <1>1, <3>1, WalkOn
    <3> QED BY <3>2
  <2>2. sem_lock = w
    BY DEF LockWithCleanup
  <2>3. LockWithCleanup'
    BY <2>1, <2>2, FsAssumption DEF LockWithCleanup, Locked
  <2>4. DescriptorInHand'
    BY <2>1 DEF DescriptorInHand, InHand
  <2>5. sem_lock' \in Worker \cup {NOBODY}
    BY <2>1, <2>2
  <2> QED BY <2>1, <2>3, <2>4, <2>5 DEF FsTypeOK
<1>2. CASE (UNCHANGED sem_lock /\ \E f \in Fd : Hold(w, "free", job[w].vfd, f))
  <2>1. PICK f \in Fd : job' = [job EXCEPT ![w] = [at |-> "free", vfd |-> job[w].vfd, fd |-> f]]
    BY <1>2 DEF Hold
  <2> QED BY <1>2, <2>1 DEF FsTypeOK, FsPlaces, LockWithCleanup, Locked, DescriptorInHand, InHand
<1> QED BY <1>1, <1>2

\* Types, hands and the lock, whatever overlaps: the opens ...
LEMMA OpenWorkers == ASSUME Workers, NEW w \in Worker, Open(w) PROVE Workers'
<1> USE DEF Workers, FsAt, FsGoto, Hold, Return, NoJob
<1>1. CASE OpenCall(w)
  BY <1>1 DEF OpenCall, FsTypeOK, FsPlaces, DescriptorInHand, InHand, LockWithCleanup, Locked
<1>2. CASE AllocVfd(w)
  BY <1>2, VfdFacts DEF AllocVfd, FsTypeOK, FsPlaces, DescriptorInHand, InHand, LockWithCleanup, Locked
<1>3. CASE OpenFile(w)
  BY <1>3, VfdFacts DEF OpenFile, FsTypeOK, FsPlaces, DescriptorInHand, InHand, LockWithCleanup, Locked
<1>4. CASE Publish(w)
  <2>1. job[w].fd \in Fd
    BY <1>4 DEF Publish, DescriptorInHand, InHand
  <2> QED BY <1>4, <2>1, VfdFacts DEF Publish, FsTypeOK, FsPlaces, DescriptorInHand, InHand, LockWithCleanup, Locked
<1>5. CASE UndoOpen(w)
  BY <1>5, VfdFacts DEF UndoOpen, Release, FsTypeOK, FsPlaces, DescriptorInHand, InHand, LockWithCleanup, Locked
<1> QED BY <1>1, <1>2, <1>3, <1>4, <1>5 DEF Open

\* ... the calls on open files ...
LEMMA FileWorkers == ASSUME Workers, NEW w \in Worker, FileCall(w) PROVE Workers'
<1> USE DEF Workers, FsAt, FsGoto, Hold, Return, NoJob
<1>1. ASSUME NEW v \in Vfd, GetFd(w, v, "using") \/ GetFd(w, v, "got") PROVE Workers'
  BY <1>1 DEF GetFd, FsTypeOK, FsPlaces, DescriptorInHand, InHand, LockWithCleanup, Locked
<1>2. CASE UseFile(w)
  BY <1>2, VfdFacts DEF UseFile, FsTypeOK, FsPlaces, DescriptorInHand, InHand, LockWithCleanup, Locked
<1>3. CASE MarkClosing(w)
  BY <1>3 DEF MarkClosing, FsTypeOK, FsPlaces, DescriptorInHand, InHand, LockWithCleanup, Locked
<1>4. CASE CloseFile(w)
  <2>1. PICK p \in {"closed", "failed"} : job' = [job EXCEPT ![w].at = p]
    BY <1>4 DEF CloseFile
  <2>2. job[w].at = "closing" /\ user' \in [Fd -> {"client", "program", NOBODY}] /\ UNCHANGED <<vfd_list, sem_lock, spoilt>>
    BY <1>4 DEF CloseFile, Release, FsTypeOK
  <2> QED BY <2>1, <2>2 DEF FsTypeOK, FsPlaces, DescriptorInHand, InHand, LockWithCleanup, Locked
<1>5. CASE EndClose(w)
  <2>1. job[w].fd \in Fd
    BY <1>5 DEF EndClose, DescriptorInHand, InHand
  <2> QED BY <1>5, <2>1, VfdFacts DEF EndClose, FsTypeOK, FsPlaces, DescriptorInHand, InHand, LockWithCleanup, Locked
<1> QED BY <1>1, <1>2, <1>3, <1>4, <1>5 DEF FileCall

\* ... and the cleanups.
LEMMA CleanupWorkers == ASSUME Workers, NEW w \in Worker, Cleanup(w) PROVE Workers'
<1> USE DEF Workers, FsAt, FsGoto
<1>1. CASE CleanupCall(w)
  BY <1>1 DEF CleanupCall, FsTypeOK, FsPlaces, DescriptorInHand, InHand, LockWithCleanup, Locked
<1>2. CASE CleanupLock(w)
  BY <1>2, VfdFacts, FsAssumption DEF CleanupLock, Hold, FsTypeOK, FsPlaces, DescriptorInHand, InHand, LockWithCleanup, Locked
<1>3. CASE CleanVfd(w)
  <2>1. /\ job[w].at \in Locked /\ user' = user /\ spoilt' = spoilt
        /\ vfd_list' \in [Vfd -> Fd \cup {FREE, ALLOC, CANCELED}]
    BY <1>3 DEF CleanVfd, Locked, FsTypeOK
  <2>2. NextVfd(w) \/ (UNCHANGED sem_lock /\ \E f \in Fd : Hold(w, "free", job[w].vfd, f))
    <3>1. CASE vfd_list[job[w].vfd] \in Fd
      BY <1>3, <3>1 DEF CleanVfd
    <3>2. CASE vfd_list[job[w].vfd] \notin Fd
      <4>1. NextVfd(w)
        BY <1>3, <3>2, WalkingOn
      <4> QED BY <4>1
    <3> QED BY <3>1, <3>2
  <2>3. user' \in [Fd -> {"client", "program", NOBODY}]
    BY <2>1 DEF FsTypeOK
  <2> QED BY <2>1, <2>2, <2>3, WalkWorkers
<1>4. CASE CleanFree(w)
  BY <1>4 DEF CleanFree, FsTypeOK, FsPlaces, DescriptorInHand, InHand, LockWithCleanup, Locked
<1>5. CASE CleanClose(w)
  <2>1. /\ job[w].at \in Locked /\ vfd_list' = vfd_list /\ spoilt' = spoilt
        /\ user' \in [Fd -> {"client", "program", NOBODY}]
    BY <1>5 DEF CleanClose, Release, Locked, FsTypeOK
  <2>2. NextVfd(w) /\ vfd_list' \in [Vfd -> Fd \cup {FREE, ALLOC, CANCELED}]
    BY <1>5, <2>1, WalkingOn DEF FsTypeOK
  <2>3. NextVfd(w) \/ (UNCHANGED sem_lock /\ \E f \in Fd : Hold(w, "free", job[w].vfd, f))
    BY <2>2
  <2> QED BY <2>1, <2>2, <2>3, WalkWorkers
<1> QED BY <1>1, <1>2, <1>3, <1>4, <1>5 DEF Cleanup

\* Every step.
LEMMA WorkersStep == Workers /\ [FsNext]_fsVars => Workers'
<1> SUFFICES ASSUME Workers, [FsNext]_fsVars PROVE Workers'
  OBVIOUS
<1>1. ASSUME NEW w \in Worker, Open(w) \/ FileCall(w) \/ Cleanup(w) PROVE Workers'
  BY <1>1, OpenWorkers, FileWorkers, CleanupWorkers
<1>2. ASSUME NEW f \in Fd, ProgramOpens(f) \/ ProgramCloses(f) PROVE Workers'
  BY <1>2 DEF ProgramOpens, ProgramCloses, Workers, FsTypeOK, DescriptorInHand, LockWithCleanup
<1>3. CASE UNCHANGED fsVars
  BY <1>3 DEF fsVars, Workers, FsTypeOK, DescriptorInHand, LockWithCleanup
<1> QED BY <1>1, <1>2, <1>3 DEF FsNext

-----------------------------------------------------------------------------
(* The entries *)

\* An open reserves a free entry, and keeps it until it is entered, free again
\* or cancelled.
LEMMA OpenEntries == ASSUME Workers, Entries, NEW w \in Worker, Open(w) PROVE Entries'
<1> USE Marks DEF Workers, Entries, FsAt, FsGoto, Hold, Return, NoJob
<1>1. CASE OpenCall(w)
  BY <1>1 DEF OpenCall, FsTypeOK, EntryOfJob, OwnEntry, Reserving, Cleaned, Locked
<1>2. CASE AllocVfd(w)
  <2>1. EntryOfJob'
    BY <1>2 DEF AllocVfd, FsTypeOK, EntryOfJob, Reserving
  <2>2. OwnEntry'
    BY <1>2 DEF AllocVfd, FsTypeOK, EntryOfJob, OwnEntry, Reserving
  <2>3. Cleaned'
    BY <1>2, FsAssumption DEF AllocVfd, FsTypeOK, Cleaned, Locked, LockWithCleanup
  <2> QED BY <2>1, <2>2, <2>3
<1>3. CASE OpenFile(w)
  <2>1. EntryOfJob'
    BY <1>3 DEF OpenFile, FsTypeOK, EntryOfJob, OwnEntry, Reserving
  <2>2. OwnEntry'
    BY <1>3 DEF OpenFile, FsTypeOK, OwnEntry, Reserving
  <2>3. Cleaned'
    BY <1>3 DEF OpenFile, FsTypeOK, Cleaned, Locked
  <2> QED BY <2>1, <2>2, <2>3
<1>4. CASE Publish(w)
  <2>1. EntryOfJob'
    BY <1>4 DEF Publish, FsTypeOK, EntryOfJob, OwnEntry, Reserving
  <2>2. OwnEntry'
    BY <1>4 DEF Publish, FsTypeOK, OwnEntry, Reserving
  <2>3. Cleaned'
    BY <1>4 DEF Publish, FsTypeOK, Cleaned, Locked
  <2> QED BY <2>1, <2>2, <2>3
<1>5. CASE UndoOpen(w)
  BY <1>5 DEF UndoOpen, FsTypeOK, EntryOfJob, OwnEntry, Reserving, Cleaned, Locked
<1> QED BY <1>1, <1>2, <1>3, <1>4, <1>5 DEF Open

\* A close takes an entry that still names its descriptor: nobody else has it
\* reserved, and no cleanup has passed it.
LEMMA FileEntries == ASSUME Workers, Entries, ~spoilt', NEW w \in Worker, FileCall(w) PROVE Entries'
<1> USE Marks DEF Workers, Entries, FsAt, FsGoto, Hold, Return, NoJob
<1>1. ASSUME NEW v \in Vfd, GetFd(w, v, "using") \/ GetFd(w, v, "got") PROVE Entries'
  BY <1>1 DEF GetFd, FsTypeOK, EntryOfJob, OwnEntry, Reserving, Cleaned, Locked
<1>2. CASE UseFile(w)
  BY <1>2 DEF UseFile, FsTypeOK, EntryOfJob, OwnEntry, Reserving, Cleaned, Locked
<1>3. CASE MarkClosing(w)
  <2>1. /\ job[w].at = "got" /\ job[w].vfd \in Vfd /\ vfd_list[job[w].vfd] \in Fd
        /\ vfd_list' = [vfd_list EXCEPT ![job[w].vfd] = ALLOC] /\ job' = [job EXCEPT ![w].at = "closing"]
    BY <1>3 DEF MarkClosing, Stale, DescriptorInHand, FsTypeOK
  <2>2. \A u \in Worker : u # w /\ job[u].at \in Reserving => job[u].vfd # job[w].vfd
    BY <2>1 DEF EntryOfJob
  <2>3. EntryOfJob'
    BY <2>1, <2>2 DEF FsTypeOK, EntryOfJob, Reserving
  <2>4. OwnEntry'
    BY <2>1, <2>2 DEF FsTypeOK, OwnEntry, Reserving
  <2>5. Cleaned'
    BY <2>1 DEF FsTypeOK, Cleaned, Locked
  <2> QED BY <2>3, <2>4, <2>5
<1>4. CASE CloseFile(w)
  <2>1. PICK p \in {"closed", "failed"} : job' = [job EXCEPT ![w].at = p]
    BY <1>4 DEF CloseFile
  <2>2. job[w].at = "closing" /\ vfd_list' = vfd_list
    BY <1>4 DEF CloseFile
  <2> QED BY <2>1, <2>2 DEF FsTypeOK, EntryOfJob, OwnEntry, Reserving, Cleaned, Locked
<1>5. CASE EndClose(w)
  <2>1. /\ job[w].at = "closed" /\ job' = [job EXCEPT ![w] = NoJob] /\ job[w].vfd \in Vfd
        /\ vfd_list' = [vfd_list EXCEPT ![job[w].vfd] = FREE]
    BY <1>5 DEF EndClose, FsTypeOK
  <2>2. EntryOfJob' /\ OwnEntry'
    BY <2>1 DEF FsTypeOK, EntryOfJob, OwnEntry, Reserving
  <2>3. Cleaned'
    BY <2>1 DEF FsTypeOK, Cleaned, Locked
  <2> QED BY <2>2, <2>3
<1> QED BY <1>1, <1>2, <1>3, <1>4, <1>5 DEF FileCall

\* Only one worker walks.
LEMMA WalksAlone ==
  ASSUME Workers, NEW w \in Worker, job[w].at \in Locked
  PROVE  \A u \in Worker : u # w => job[u].at \notin Locked
  BY DEF Workers, LockWithCleanup

\* The walk behind entry v: what it leaves there is free or cancelled.
LEMMA WalkCleaned ==
  ASSUME Workers, Entries, NEW w \in Worker, job[w].at \in Locked, NextVfd(w),
         \A x \in Vfd : x < job[w].vfd => vfd_list'[x] \in {FREE, CANCELED},
         vfd_list'[job[w].vfd] \in {FREE, CANCELED}
  PROVE  Cleaned'
<1> SUFFICES ASSUME NEW u \in Worker, job'[u].at \in Locked, NEW x \in Vfd,
                    x < job'[u].vfd \/ (x = job'[u].vfd /\ job'[u].at = "close")
             PROVE  vfd_list'[x] \in {FREE, CANCELED}
  BY DEF Cleaned
<1>1. /\ \A t \in Worker \ {w} : job'[t] = job[t]
      /\ \/ job'[w] = [at |-> "clean", vfd |-> job[w].vfd + 1, fd |-> NOBODY]
         \/ job'[w].at = "out"
  BY WalkOn DEF Workers
<1>2. u = w
  BY <1>1, WalksAlone
<1>3. job'[w].at = "clean" /\ job'[w].vfd = job[w].vfd + 1
  BY <1>1, <1>2 DEF Locked
<1>4. x \in Nat /\ job[w].vfd \in Nat
  BY VfdFacts DEF Workers, FsTypeOK
<1>5. x < job[w].vfd \/ x = job[w].vfd
  BY <1>2, <1>3, <1>4
<1> QED BY <1>5

\* A cleanup takes an entry that still names its descriptor, cancels one that is
\* reserved, and passes the others.
LEMMA CleanupEntries == ASSUME Workers, Entries, ~spoilt', NEW w \in Worker, Cleanup(w) PROVE Entries'
<1> USE Marks DEF Workers, Entries, FsAt, FsGoto, Hold
<1>1. CASE CleanupCall(w)
  BY <1>1 DEF CleanupCall, FsTypeOK, EntryOfJob, OwnEntry, Reserving, Cleaned, Locked
<1>2. CASE CleanupLock(w)
  <2>1. Cleaned'
    BY <1>2, VfdFacts DEF CleanupLock, FsTypeOK, Cleaned, Locked
  <2> QED BY <1>2, <2>1 DEF CleanupLock, FsTypeOK, EntryOfJob, OwnEntry, Reserving
<1>3. CASE CleanVfd(w)
  <2>1. /\ job[w].at = "clean" /\ job[w].vfd \in Vfd
        /\ vfd_list' = [vfd_list EXCEPT ![job[w].vfd] = IF @ = ALLOC THEN CANCELED ELSE @]
    BY <1>3 DEF CleanVfd, FsTypeOK
  <2>2. CASE vfd_list[job[w].vfd] \in Fd
    <3>1. job' = [job EXCEPT ![w] = [at |-> "free", vfd |-> job[w].vfd, fd |-> vfd_list[job[w].vfd]]]
      BY <1>3, <2>2 DEF CleanVfd
    <3>2. vfd_list' = vfd_list
      BY <2>1, <2>2 DEF FsTypeOK
    <3> QED BY <2>1, <3>1, <3>2 DEF FsTypeOK, EntryOfJob, OwnEntry, Reserving, Cleaned, Locked
  <2>3. CASE vfd_list[job[w].vfd] \notin Fd
    <3>1. NextVfd(w)
      BY <1>3, <2>3, WalkingOn
    <3>2. job'[w].at \in {"clean", "out"} /\ \A u \in Worker \ {w} : job'[u] = job[u]
      BY <3>1, WalkOn
    <3>3. EntryOfJob' /\ OwnEntry'
      BY <2>1, <3>2 DEF FsTypeOK, EntryOfJob, OwnEntry, Reserving
    <3>4. /\ vfd_list'[job[w].vfd] \in {FREE, CANCELED}
          /\ \A x \in Vfd : x < job[w].vfd => vfd_list'[x] \in {FREE, CANCELED}
      BY <2>1, <2>3 DEF FsTypeOK, Cleaned, Locked
    <3>5. Cleaned'
      BY <2>1, <3>1, <3>4, WalkCleaned DEF Locked
    <3> QED BY <3>3, <3>5
  <2> QED BY <2>2, <2>3
<1>4. CASE CleanFree(w)
  <2>1. /\ job[w].at = "free" /\ job[w].vfd \in Vfd /\ vfd_list[job[w].vfd] \in Fd
        /\ vfd_list' = [vfd_list EXCEPT ![job[w].vfd] = FREE] /\ job' = [job EXCEPT ![w].at = "close"]
    BY <1>4 DEF CleanFree, Stale, DescriptorInHand, FsTypeOK
  <2>2. EntryOfJob' /\ OwnEntry'
    BY <2>1 DEF FsTypeOK, EntryOfJob, OwnEntry, Reserving
  <2>3. Cleaned'
    BY <2>1 DEF FsTypeOK, Cleaned, Locked
  <2> QED BY <2>2, <2>3
<1>5. CASE CleanClose(w)
  <2>1. /\ job[w].at = "close" /\ job[w].vfd \in Vfd /\ vfd_list' = vfd_list
    BY <1>5 DEF CleanClose, FsTypeOK
  <2>2. NextVfd(w)
    BY <1>5, WalkingOn
  <2>3. job'[w].at \in {"clean", "out"} /\ \A u \in Worker \ {w} : job'[u] = job[u]
    BY <2>2, WalkOn
  <2>4. EntryOfJob' /\ OwnEntry'
    BY <2>1, <2>3 DEF FsTypeOK, EntryOfJob, OwnEntry, Reserving
  <2>5. /\ vfd_list'[job[w].vfd] \in {FREE, CANCELED}
        /\ \A x \in Vfd : x < job[w].vfd => vfd_list'[x] \in {FREE, CANCELED}
    BY <2>1 DEF Cleaned, Locked
  <2>6. Cleaned'
    BY <2>1, <2>2, <2>5, WalkCleaned DEF Locked
  <2> QED BY <2>4, <2>6
<1> QED BY <1>1, <1>2, <1>3, <1>4, <1>5 DEF Cleanup

\* Every step that spoils no entry.
LEMMA EntriesStep == Workers /\ Entries /\ ~spoilt' /\ [FsNext]_fsVars => Entries'
<1> SUFFICES ASSUME Workers, Entries, ~spoilt', [FsNext]_fsVars PROVE Entries'
  OBVIOUS
<1>1. ASSUME NEW w \in Worker, Open(w) \/ FileCall(w) \/ Cleanup(w) PROVE Entries'
  BY <1>1, OpenEntries, FileEntries, CleanupEntries
<1>2. CASE UNCHANGED <<vfd_list, job>>
  BY <1>2 DEF Entries, EntryOfJob, OwnEntry, Cleaned
<1> QED BY <1>1, <1>2 DEF FsNext, ProgramOpens, ProgramCloses, fsVars

-----------------------------------------------------------------------------
(* The descriptors of the client *)

\* When no descriptor changes its place, each is still in the one it was in.
LEMMA SamePlaces ==
  ASSUME Workers, Workers', Accounted,
         \A v \in Vfd, f \in Fd : vfd_list'[v] = f <=> vfd_list[v] = f,
         \A w \in Worker : job'[w].at \in InHand <=> job[w].at \in InHand,
         \A w \in Worker : job[w].at \in InHand => job'[w].fd = job[w].fd,
         \A f \in Fd : user'[f] = "client" <=> user[f] = "client"
  PROVE  Accounted'
<1> USE DEF Workers, Accounted
<1>1. OnePlace'
  BY DEF OnePlace, DescriptorInHand, FsTypeOK
<1>2. ClientsAre'
  BY DEF ClientsAre, FsTypeOK
<1> QED BY <1>1, <1>2

\* A descriptor given back from a hand was in no other place.
LEMMA LastPlace ==
  ASSUME Workers, Accounted, NEW w \in Worker, job[w].at \in InHand, job'[w].at \notin InHand,
         \A u \in Worker : u # w => job'[u] = job[u],
         user' = [user EXCEPT ![job[w].fd] = NOBODY], vfd_list' = vfd_list
  PROVE  Accounted'
<1>1. OnePlace'
  BY DEF Accounted, OnePlace
<1>2. job[w].fd \in Fd
  BY DEF Workers, DescriptorInHand
<1>3. ASSUME NEW f \in Fd, f # job[w].fd
      PROVE  user'[f] = "client" <=> \/ \E v \in Vfd : vfd_list'[v] = f
                                     \/ \E u \in Worker : job'[u].at \in InHand /\ job'[u].fd = f
  <2>1. user'[f] = user[f]
    BY <1>3 DEF Workers, FsTypeOK
  <2> QED BY <2>1, <1>3 DEF Accounted, ClientsAre
<1>4. /\ user'[job[w].fd] # "client"
      /\ \A v \in Vfd : vfd_list'[v] # job[w].fd
      /\ \A u \in Worker : job'[u].at \in InHand => job'[u].fd # job[w].fd
  BY <1>2, FsAssumption DEF Workers, Accounted, FsTypeOK, OnePlace
<1>5. ClientsAre'
  BY <1>3, <1>4 DEF ClientsAre
<1> QED BY <1>1, <1>5 DEF Accounted

\* A descriptor taken from its entry is in the hand of one worker.
LEMMA EntryToHand ==
  ASSUME Workers, Accounted, NEW w \in Worker, NEW p \in InHand, job[w].at \notin InHand, job[w].vfd \in Vfd,
         vfd_list[job[w].vfd] = job[w].fd, job[w].fd \in Fd,
         NEW mark \in {FREE, ALLOC}, vfd_list' = [vfd_list EXCEPT ![job[w].vfd] = mark],
         job' = [job EXCEPT ![w].at = p], user' = user
  PROVE  Accounted'
<1>1. /\ job'[w].at \in InHand /\ job'[w].fd = job[w].fd
      /\ \A u \in Worker : u # w => job'[u] = job[u]
      /\ \A v \in Vfd : vfd_list'[v] = IF v = job[w].vfd THEN mark ELSE vfd_list[v]
  BY DEF Workers, FsTypeOK
<1>2. mark \notin Fd
  BY Marks
<1>3. OnePlace'
  <2> USE DEF Workers, Accounted, OnePlace
  <2>1. \A v, u \in Vfd : vfd_list'[v] \in Fd /\ vfd_list'[u] = vfd_list'[v] => u = v
    BY <1>1, <1>2
  <2>2. \A a, u \in Worker :
          job'[a].at \in InHand /\ job'[u].at \in InHand /\ job'[u].fd = job'[a].fd => u = a
    BY <1>1
  <2>3. ASSUME NEW a \in Worker, NEW v \in Vfd, job'[a].at \in InHand PROVE vfd_list'[v] # job'[a].fd
    BY <1>1, <1>2, <2>3 DEF DescriptorInHand
  <2> QED BY <2>1, <2>2, <2>3
<1>4. ClientsAre'
  BY <1>1, <1>2 DEF Accounted, ClientsAre
<1> QED BY <1>3, <1>4 DEF Accounted

\* fs.open: a descriptor taken from the pool is in the hand of its worker, then
\* in the entry or, when the open is cancelled, in the pool again.
LEMMA OpenPlaces ==
  ASSUME Workers, Workers', Entries, Accounted, NEW w \in Worker, Open(w)
  PROVE  Accounted'
<1>1. CASE OpenCall(w) \/ AllocVfd(w)
  <2>1. user' = user /\ \A u \in Worker : u # w => job'[u] = job[u]
    BY <1>1 DEF OpenCall, AllocVfd, Hold, Return, FsGoto, Workers, FsTypeOK
  <2>2. job[w].at \notin InHand /\ job'[w].at \notin InHand
    BY <1>1 DEF OpenCall, AllocVfd, Hold, Return, NoJob, FsGoto, FsAt, Workers, FsTypeOK, InHand
  <2>3. \A v \in Vfd, f \in Fd : vfd_list'[v] = f <=> vfd_list[v] = f
    BY <1>1, Marks DEF OpenCall, AllocVfd, Workers, FsTypeOK
  <2> QED BY <2>1, <2>2, <2>3, SamePlaces
<1>2. ASSUME OpenFile(w), user' = user PROVE Accounted'
  <2>1. /\ job' = [job EXCEPT ![w] = NoJob]
        /\ vfd_list' = [vfd_list EXCEPT ![job[w].vfd] = FREE]
        /\ job[w].at = "opening"
    <3>1. ASSUME NEW f \in Fd, user[f] = NOBODY, user' = [user EXCEPT ![f] = "client"] PROVE FALSE
      BY <1>2, <3>1, FsAssumption DEF Workers, FsTypeOK
    <3> QED BY <1>2, <3>1 DEF OpenFile, Return, FsAt
  <2>2. vfd_list[job[w].vfd] \in {ALLOC, CANCELED} /\ job[w].vfd \in Vfd
    BY <2>1 DEF Entries, EntryOfJob, Reserving, Workers, FsTypeOK
  <2>3. \A v \in Vfd, f \in Fd : vfd_list'[v] = f <=> vfd_list[v] = f
    BY <2>1, <2>2, Marks DEF Workers, FsTypeOK
  <2>4. job[w].at \notin InHand /\ job'[w].at \notin InHand /\ \A u \in Worker : u # w => job'[u] = job[u]
    BY <2>1 DEF NoJob, InHand, Workers, FsTypeOK
  <2> QED BY <1>2, <2>3, <2>4, SamePlaces
<1>3. ASSUME NEW f \in Fd, user[f] = NOBODY, user' = [user EXCEPT ![f] = "client"], FsAt(w, "opening"),
             Hold(w, "publish", job[w].vfd, f), UNCHANGED vfd_list
      PROVE  Accounted'
  <2>1. \A v \in Vfd : vfd_list[v] # f
    BY <1>3, FsAssumption DEF Accounted, ClientsAre
  <2>2. \A u \in Worker : job[u].at \in InHand => job[u].fd # f
    BY <1>3, FsAssumption DEF Accounted, ClientsAre
  <2>3. /\ job[w].at \notin InHand /\ job'[w].at \in InHand /\ job'[w].fd = f
        /\ \A u \in Worker : u # w => job'[u] = job[u]
    BY <1>3 DEF Hold, FsAt, Workers, FsTypeOK, InHand
  <2>4. OnePlace'
    BY <2>1, <2>2, <2>3, <1>3 DEF Accounted, OnePlace
  <2>5. ClientsAre'
    <3> SUFFICES ASSUME NEW g \in Fd
                 PROVE  user'[g] = "client" <=> \/ \E v \in Vfd : vfd_list'[v] = g
                                                \/ \E u \in Worker : job'[u].at \in InHand /\ job'[u].fd = g
      BY DEF ClientsAre
    <3>1. CASE g = f
      BY <2>3, <1>3, <3>1 DEF Workers, FsTypeOK
    <3>2. CASE g # f
      <4>1. user'[g] = user[g] /\ vfd_list' = vfd_list
        BY <1>3, <3>2 DEF Workers, FsTypeOK
      <4>2. (\E u \in Worker : job'[u].at \in InHand /\ job'[u].fd = g)
              <=> \E u \in Worker : job[u].at \in InHand /\ job[u].fd = g
        BY <2>3, <3>2
      <4> QED BY <4>1, <4>2 DEF Accounted, ClientsAre
    <3> QED BY <3>1, <3>2
  <2> QED BY <2>4, <2>5 DEF Accounted
<1>4. CASE Publish(w) /\ vfd_list[job[w].vfd] = ALLOC
  <2>1. /\ job[w].at \in InHand /\ job[w].fd \in Fd /\ job[w].vfd \in Vfd
        /\ job'[w].at \notin InHand /\ user' = user
        /\ \A u \in Worker : u # w => job'[u] = job[u]
        /\ vfd_list' = [vfd_list EXCEPT ![job[w].vfd] = job[w].fd]
    BY <1>4 DEF Publish, FsAt, Return, NoJob, InHand, Workers, DescriptorInHand, FsTypeOK
  <2>2. vfd_list[job[w].vfd] \notin Fd
    BY <1>4, Marks
  <2>3. OnePlace'
    <3> USE DEF Accounted, OnePlace
    <3>1. \A v, u \in Vfd : vfd_list'[v] \in Fd /\ vfd_list'[u] = vfd_list'[v] => u = v
      BY <2>1, <2>2 DEF Workers, FsTypeOK
    <3>2. \A a, u \in Worker :
            job'[a].at \in InHand /\ job'[u].at \in InHand /\ job'[u].fd = job'[a].fd => u = a
      BY <2>1
    <3>3. ASSUME NEW a \in Worker, NEW v \in Vfd, job'[a].at \in InHand PROVE vfd_list'[v] # job'[a].fd
      BY <2>1, <3>3 DEF Workers, FsTypeOK
    <3> QED BY <3>1, <3>2, <3>3
  <2>4. ClientsAre'
    <3> SUFFICES ASSUME NEW g \in Fd
                 PROVE  user'[g] = "client" <=> \/ \E v \in Vfd : vfd_list'[v] = g
                                                \/ \E u \in Worker : job'[u].at \in InHand /\ job'[u].fd = g
      BY DEF ClientsAre
    <3>1. user[g] = "client" <=> \/ \E v \in Vfd : vfd_list[v] = g
                                 \/ \E u \in Worker : job[u].at \in InHand /\ job[u].fd = g
      BY DEF Accounted, ClientsAre
    <3>2. \A v \in Vfd : vfd_list'[v] = IF v = job[w].vfd THEN job[w].fd ELSE vfd_list[v]
      BY <2>1 DEF Workers, FsTypeOK
    <3>3. CASE g = job[w].fd
      BY <2>1, <3>1, <3>2, <3>3
    <3>4. CASE g # job[w].fd
      <4>1. (\E v \in Vfd : vfd_list'[v] = g) <=> \E v \in Vfd : vfd_list[v] = g
        BY <2>2, <3>2, <3>4
      <4>2. (\E u \in Worker : job'[u].at \in InHand /\ job'[u].fd = g)
              <=> \E u \in Worker : job[u].at \in InHand /\ job[u].fd = g
        BY <2>1, <3>4
      <4> QED BY <2>1, <3>1, <4>1, <4>2
    <3> QED BY <3>3, <3>4
  <2> QED BY <2>3, <2>4 DEF Accounted
<1>5. CASE Publish(w) /\ vfd_list[job[w].vfd] # ALLOC
  <2>1. /\ job[w].at = "publish" /\ vfd_list[job[w].vfd] = CANCELED /\ job[w].vfd \in Vfd
        /\ vfd_list' = [vfd_list EXCEPT ![job[w].vfd] = FREE]
        /\ job' = [job EXCEPT ![w].at = "undo"] /\ user' = user
    BY <1>5 DEF Publish, FsAt, FsGoto, Entries, EntryOfJob, Reserving, Workers, FsTypeOK
  <2>2. \A v \in Vfd, f \in Fd : vfd_list'[v] = f <=> vfd_list[v] = f
    BY <2>1, Marks DEF Workers, FsTypeOK
  <2>3. /\ job'[w].at \in InHand /\ job[w].at \in InHand /\ job'[w].fd = job[w].fd
        /\ \A u \in Worker : u # w => job'[u] = job[u]
    BY <2>1 DEF InHand, Workers, FsTypeOK
  <2> QED BY <2>1, <2>2, <2>3, SamePlaces
<1>6. CASE UndoOpen(w)
  <2>1. /\ job[w].at \in InHand /\ job'[w].at \notin InHand
        /\ \A u \in Worker : u # w => job'[u] = job[u]
        /\ user' = [user EXCEPT ![job[w].fd] = NOBODY] /\ vfd_list' = vfd_list
    BY <1>6 DEF UndoOpen, FsAt, Release, Return, NoJob, InHand, Workers, FsTypeOK
  <2> QED BY <2>1, LastPlace
<1>7. OpenFile(w) => \/ OpenFile(w) /\ user' = user
                     \/ \E f \in Fd : /\ user[f] = NOBODY /\ user' = [user EXCEPT ![f] = "client"]
                                     /\ FsAt(w, "opening") /\ Hold(w, "publish", job[w].vfd, f)
                                     /\ UNCHANGED vfd_list
  BY DEF OpenFile
<1> QED BY <1>1, <1>2, <1>3, <1>4, <1>5, <1>6, <1>7 DEF Open

\* The calls on open files: a close takes the descriptor from the entry into
\* the hand and gives it to the pool.
LEMMA FileCallPlaces ==
  ASSUME Workers, Workers', Entries, Accounted, ~spoilt', NEW w \in Worker, FileCall(w)
  PROVE  Accounted'
<1>1. ASSUME NEW v \in Vfd, GetFd(w, v, "using") \/ GetFd(w, v, "got") \/ UseFile(w)
      PROVE  Accounted'
  <2>1. /\ vfd_list' = vfd_list /\ user' = user
        /\ \A u \in Worker : u # w => job'[u] = job[u]
    BY <1>1 DEF GetFd, UseFile, Hold, Return, Workers, FsTypeOK
  <2>2. job[w].at \notin InHand /\ job'[w].at \notin InHand
    BY <1>1 DEF GetFd, UseFile, FsAt, Hold, Return, NoJob, InHand, Workers, FsTypeOK
  <2> QED BY <2>1, <2>2, SamePlaces
<1>2. CASE MarkClosing(w)
  <2>1. /\ job[w].at = "got" /\ job[w].vfd \in Vfd /\ vfd_list' = [vfd_list EXCEPT ![job[w].vfd] = ALLOC]
        /\ job' = [job EXCEPT ![w].at = "closing"] /\ user' = user
        /\ vfd_list[job[w].vfd] = job[w].fd
    BY <1>2 DEF MarkClosing, Stale, FsAt, FsGoto, Workers, FsTypeOK
  <2> QED BY <2>1, EntryToHand DEF InHand, Workers, DescriptorInHand
<1>3. CASE CloseFile(w)
  <2>1. /\ job[w].at = "closing"
        /\ user' = [user EXCEPT ![job[w].fd] = NOBODY] /\ vfd_list' = vfd_list
    BY <1>3 DEF CloseFile, FsAt, Release
  <2>2. PICK p \in {"closed", "failed"} : job' = [job EXCEPT ![w].at = p]
    BY <1>3 DEF CloseFile, FsGoto
  <2>3. job[w].at \in InHand /\ job'[w].at \notin InHand /\ \A u \in Worker : u # w => job'[u] = job[u]
    BY <2>1, <2>2 DEF InHand, Workers, FsTypeOK
  <2> QED BY <2>1, <2>3, LastPlace
<1>4. CASE EndClose(w)
  <2>1. /\ job[w].at = "closed" /\ job' = [job EXCEPT ![w] = NoJob] /\ user' = user
        /\ job[w].vfd \in Vfd /\ vfd_list[job[w].vfd] \in {ALLOC, CANCELED}
        /\ vfd_list' = [vfd_list EXCEPT ![job[w].vfd] = FREE]
    BY <1>4 DEF EndClose, FsAt, Return, Entries, EntryOfJob, Reserving, Workers, FsTypeOK
  <2>2. \A v \in Vfd, f \in Fd : vfd_list'[v] = f <=> vfd_list[v] = f
    BY <2>1, Marks DEF Workers, FsTypeOK
  <2>3. job[w].at \notin InHand /\ job'[w].at \notin InHand /\ \A u \in Worker : u # w => job'[u] = job[u]
    BY <2>1 DEF NoJob, InHand, Workers, FsTypeOK
  <2> QED BY <2>1, <2>2, <2>3, SamePlaces
<1>5. PICK v \in Vfd : TRUE
  BY VfdFacts
<1> QED BY <1>1, <1>2, <1>3, <1>4, <1>5 DEF FileCall

\* fs.cleanup: the same for every entry with a descriptor.
LEMMA CleanupPlaces ==
  ASSUME Workers, Workers', Entries, Accounted, ~spoilt', NEW w \in Worker, Cleanup(w)
  PROVE  Accounted'
<1>1. CASE CleanupCall(w) \/ CleanupLock(w)
  <2>1. /\ user' = user /\ vfd_list' = vfd_list /\ \A u \in Worker : u # w => job'[u] = job[u]
    BY <1>1 DEF CleanupCall, CleanupLock, Hold, FsGoto, Workers, FsTypeOK
  <2>2. job[w].at \notin InHand /\ job'[w].at \notin InHand
    BY <1>1 DEF CleanupCall, CleanupLock, Hold, FsGoto, FsAt, Workers, FsTypeOK, InHand
  <2> QED BY <2>1, <2>2, SamePlaces
<1>2. CASE CleanVfd(w)
  <2>1. /\ job[w].at = "clean" /\ job[w].vfd \in Vfd /\ user' = user
        /\ vfd_list' = [vfd_list EXCEPT ![job[w].vfd] = IF @ = ALLOC THEN CANCELED ELSE @]
    BY <1>2 DEF CleanVfd, FsAt, Workers, FsTypeOK
  <2>2. job'[w].at \notin InHand /\ \A u \in Worker : u # w => job'[u] = job[u]
    <3>1. CASE vfd_list[job[w].vfd] \in Fd
      BY <1>2, <3>1 DEF CleanVfd, Hold, Workers, FsTypeOK, InHand
    <3>2. CASE vfd_list[job[w].vfd] \notin Fd
      <4>1. NextVfd(w)
        BY <1>2, <3>2, WalkingOn
      <4>2. /\ \A u \in Worker \ {w} : job'[u] = job[u]
            /\ job'[w].at \in {"clean", "out"}
        BY <4>1, WalkOn DEF Workers
      <4> QED BY <4>2 DEF InHand
    <3> QED BY <3>1, <3>2
  <2>3. \A v \in Vfd, f \in Fd : vfd_list'[v] = f <=> vfd_list[v] = f
    BY <2>1, Marks DEF Workers, FsTypeOK
  <2>4. job[w].at \notin InHand
    BY <2>1 DEF InHand
  <2> QED BY <2>1, <2>2, <2>3, <2>4, SamePlaces
<1>3. CASE CleanFree(w)
  <2>1. /\ job[w].at = "free" /\ job[w].vfd \in Vfd /\ vfd_list' = [vfd_list EXCEPT ![job[w].vfd] = FREE]
        /\ job' = [job EXCEPT ![w].at = "close"] /\ user' = user
        /\ vfd_list[job[w].vfd] = job[w].fd
    BY <1>3 DEF CleanFree, Stale, FsAt, FsGoto, Workers, FsTypeOK
  <2> QED BY <2>1, EntryToHand DEF InHand, Workers, DescriptorInHand
<1>4. CASE CleanClose(w)
  <2>1. /\ job[w].at \in InHand /\ user' = [user EXCEPT ![job[w].fd] = NOBODY] /\ vfd_list' = vfd_list
    BY <1>4 DEF CleanClose, FsAt, Release, InHand
  <2>2. job'[w].at \notin InHand /\ \A u \in Worker : u # w => job'[u] = job[u]
    <3>1. NextVfd(w)
      BY <1>4, WalkingOn
    <3>2. /\ \A u \in Worker \ {w} : job'[u] = job[u]
          /\ job'[w].at \in {"clean", "out"}
      BY <3>1, WalkOn DEF Workers
    <3> QED BY <3>2 DEF InHand
  <2> QED BY <2>1, <2>2, LastPlace
<1> QED BY <1>1, <1>2, <1>3, <1>4 DEF Cleanup

\* Every step that spoils no entry keeps the descriptors of the client where
\* they are accounted for.
LEMMA PlacesStep == Workers /\ Workers' /\ Entries /\ Accounted /\ ~spoilt' /\ [FsNext]_fsVars => Accounted'
<1> SUFFICES ASSUME Workers, Workers', Entries, Accounted, ~spoilt', [FsNext]_fsVars PROVE Accounted'
  OBVIOUS
<1>1. ASSUME NEW w \in Worker, Open(w) \/ FileCall(w) \/ Cleanup(w) PROVE Accounted'
  BY <1>1, OpenPlaces, FileCallPlaces, CleanupPlaces
<1>2. ASSUME NEW f \in Fd, ProgramOpens(f) \/ ProgramCloses(f) PROVE Accounted'
  <2>1. /\ vfd_list' = vfd_list /\ job' = job
        /\ user[f] # "client" /\ user'[f] # "client" /\ \A g \in Fd : g # f => user'[g] = user[g]
    BY <1>2, FsAssumption DEF ProgramOpens, ProgramCloses, Workers, FsTypeOK
  <2> QED BY <2>1, SamePlaces
<1>3. CASE UNCHANGED fsVars
  BY <1>3 DEF fsVars, Accounted, OnePlace, ClientsAre
<1> QED BY <1>1, <1>2, <1>3 DEF FsNext

\* What is spoilt stays so.
LEMMA SpoiltStays == ASSUME Workers, [FsNext]_fsVars, spoilt PROVE spoilt'
  BY DEF FsNext, fsVars, Open, OpenCall, AllocVfd, OpenFile, Publish, UndoOpen, FileCall, GetFd, UseFile,
     MarkClosing, CloseFile, EndClose, Cleanup, CleanupCall, CleanupLock, CleanVfd, CleanFree, CleanClose,
     ProgramOpens, ProgramCloses

\* The invariant of the client file system.
LEMMA FilesInvariant == FsSpec => []FilesInv
<1>1. FsInit => FilesInv
  <2> SUFFICES ASSUME FsInit PROVE FilesInv
    OBVIOUS
  <2> USE DEF FsInit, NoJob
  <2>1. Workers
    BY VfdFacts, FsAssumption DEF Workers, FsTypeOK, FsPlaces, DescriptorInHand, InHand, LockWithCleanup, Locked
  <2>2. Entries
    BY DEF Entries, EntryOfJob, OwnEntry, Reserving, Cleaned, Locked
  <2>3. Accounted
    BY FsAssumption DEF Accounted, OnePlace, ClientsAre, InHand
  <2> QED BY <2>1, <2>2, <2>3 DEF FilesInv
<1>2. FilesInv /\ [FsNext]_fsVars => FilesInv'
  <2> SUFFICES ASSUME FilesInv, [FsNext]_fsVars PROVE FilesInv'
    OBVIOUS
  <2>1. Workers /\ Workers'
    BY WorkersStep DEF FilesInv
  <2>2. ASSUME ~spoilt' PROVE Entries' /\ Accounted'
    <3>1. Entries /\ Accounted
      BY <2>1, <2>2, SpoiltStays DEF FilesInv
    <3> QED BY <2>1, <2>2, <3>1, EntriesStep, PlacesStep
  <2> QED BY <2>1, <2>2 DEF FilesInv
<1> QED BY <1>1, <1>2, PTL DEF FsSpec

\* Types, for every number of workers, entries and descriptors.
THEOREM FilesTypeCorrect == FsSpec => []FsTypeOK
<1>1. FilesInv => FsTypeOK
  BY DEF FilesInv, Workers
<1> QED BY <1>1, FilesInvariant, PTL

\* When fs.cleanup gives sem_lock back, no entry names a descriptor and every
\* open or close it has met is cancelled, whatever the workers do meanwhile,
\* unless one of them has spoilt an entry.
THEOREM CleanupLeavesNothing == FsSpec => CleanupComplete
<1>1. ASSUME FilesInv, [FsNext]_fsVars, sem_lock # NOBODY, sem_lock' = NOBODY, ~spoilt'
      PROVE  \A v \in Vfd : vfd_list'[v] \in {FREE, CANCELED}
  <2>1. Workers /\ Entries
    BY <1>1, SpoiltStays DEF FilesInv
  <2>2. PICK w \in Worker : (CleanVfd(w) \/ CleanClose(w)) /\ NextVfd(w)
    <3>1. CASE UNCHANGED fsVars
      BY <3>1, <1>1 DEF fsVars
    <3>2. PICK w \in Worker : CleanVfd(w) \/ CleanClose(w) \/ CleanupLock(w)
      BY <1>1, <3>1 DEF FsNext, Open, OpenCall, AllocVfd, OpenFile, Publish, UndoOpen, FileCall, GetFd, UseFile,
         MarkClosing, CloseFile, EndClose, Cleanup, CleanupCall, CleanFree, ProgramOpens, ProgramCloses
    <3> QED
      BY <1>1, <3>2, FsAssumption DEF CleanVfd, CleanClose, CleanupLock
  <2>3. \A v \in Vfd : v <= job[w].vfd
    BY <2>1, <2>2, <1>1, WalkOn, FsAssumption DEF Workers, FsTypeOK
  <2>4. job[w].vfd \in Vfd /\ vfd_list \in [Vfd -> Fd \cup {FREE, ALLOC, CANCELED}]
    BY <2>1 DEF Workers, FsTypeOK
  <2>5. ASSUME NEW v \in Vfd, v # job[w].vfd PROVE v < job[w].vfd
    <3>1. v \in Nat /\ job[w].vfd \in Nat /\ v <= job[w].vfd
      BY <2>3, <2>4, VfdFacts
    <3> QED BY <3>1, <2>5
  <2>6. CASE CleanClose(w)
    BY <2>1, <2>5, <2>6 DEF CleanClose, FsAt, Entries, Cleaned, Locked
  <2>7. CASE CleanVfd(w)
    <3>1. /\ job[w].at = "clean" /\ vfd_list[job[w].vfd] \notin Fd
          /\ vfd_list' = [vfd_list EXCEPT ![job[w].vfd] = IF @ = ALLOC THEN CANCELED ELSE @]
      BY <2>7, <1>1 DEF CleanVfd, FsAt
    <3> QED
      BY <3>1, <2>1, <2>4, <2>5 DEF Entries, Cleaned, Locked
  <2> QED BY <2>2, <2>6, <2>7
<1>2. FilesInv /\ [FsNext]_fsVars =>
        [sem_lock # NOBODY /\ sem_lock' = NOBODY =>
           spoilt' \/ \A v \in Vfd : vfd_list'[v] \in {FREE, CANCELED}]_fsVars
  BY <1>1
<1> QED BY <1>2, FilesInvariant, PTL DEF FsSpec, CleanupComplete

\* A set with at most one element, and its number of elements.
LEMMA AtMostOne ==
  ASSUME NEW S, \A x, y \in S : x = y
  PROVE  Cardinality(S) = IF S = {} THEN 0 ELSE 1
<1>1. CASE S = {}
  BY <1>1, FS_EmptySet
<1>2. CASE S # {}
  <2>1. PICK x : x \in S
    BY <1>2
  <2>2. S = {x}
    BY <2>1
  <2> QED BY <1>2, <2>2, FS_Singleton
<1> QED BY <1>1, <1>2

\* Each descriptor of the client is in one entry or one hand and the others in
\* none, whatever calls overlap and whatever close answers, until a call stores
\* into an entry another one has taken meanwhile or puts back a descriptor that
\* close has released: for every number of workers, entries and descriptors.
THEOREM DescriptorsAccounted == FsSpec => []FdsAccounted
<1>1. ASSUME Accounted, NEW f \in Fd
      PROVE  Cardinality({v \in Vfd : vfd_list[v] = f}) + Cardinality(Holders(f))
               = IF user[f] = "client" THEN 1 ELSE 0
  <2> DEFINE E == {v \in Vfd : vfd_list[v] = f}
  <2>1. Cardinality(E) = IF E = {} THEN 0 ELSE 1
    <3>1. \A v, u \in E : v = u
      BY <1>1 DEF Accounted, OnePlace
    <3> HIDE DEF E
    <3> QED BY <3>1, AtMostOne
  <2>2. Cardinality(Holders(f)) = IF Holders(f) = {} THEN 0 ELSE 1
    <3>1. \A w, u \in Holders(f) : w = u
      BY <1>1 DEF Accounted, OnePlace, Holders, InHand
    <3> HIDE DEF Holders
    <3> QED BY <3>1, AtMostOne
  <2>3. E = {} \/ Holders(f) = {}
    BY <1>1 DEF Accounted, OnePlace, Holders, InHand
  <2>4. user[f] = "client" <=> E # {} \/ Holders(f) # {}
    BY <1>1 DEF Accounted, ClientsAre, Holders, InHand
  <2> QED BY <2>1, <2>2, <2>3, <2>4
<1>2. FilesInv => FdsAccounted
  BY <1>1 DEF FilesInv, FdsAccounted
<1> QED BY <1>2, FilesInvariant, PTL

-----------------------------------------------------------------------------
(* The documents of requests and replies *)

\* What the elements of a document are.
BsonValue == Seq(Octet) \cup Int \cup BOOLEAN

BsonElement == [type : 1..19, key : Seq(Char), value : BsonValue, bytes : Seq(Octet)]

\* b is the bytes of value x of type t, which is not code with scope.
Valued(t, x, b) ==
  \/ t = 2 /\ x \in Seq(Char) /\ Len(x) < MaxInt /\ b = Int4(Len(x) + 1) \o x \o <<0>>
  \/ t \in {3, 4} /\ x = b /\ Len(b) >= 5 /\ Read4(b, 0) = Len(b)
  \/ t = 5 /\ x \in Seq(Octet) /\ Len(x) <= MaxInt /\ b = Int4(Len(x)) \o <<0>> \o x
  \/ t = 8 /\ x \in BOOLEAN /\ b = <<IF x THEN 1 ELSE 0>>
  \/ t = 10 /\ x = b /\ b = <<>>
  \/ t = 16 /\ x \in Int32 /\ b = Int4(x)
  \/ Foreign(t, b) /\ t # 15 /\ x = b

\* The bytes of an element: its type, its name and a NUL, its value.
Size(k, b) == 2 + Len(k) + Len(b)

\* An element of type t, name k and bytes b lies at offset o.
Lies(d, o, t, k, b) ==
  /\ o + Size(k, b) < Len(d)
  /\ d[o+1] = t
  /\ \A i \in 1..Len(k) : d[o+1+i] = k[i]
  /\ d[o+2+Len(k)] = 0
  /\ \A i \in 1..Len(b) : d[o+2+Len(k)+i] = b[i]

\* Element i is at its offset, and the next one behind it.
LaidAt(d, elements, spot, i) ==
  LET e == elements[i]
  IN  /\ Valued(e.type, e.value, e.bytes)
      /\ 2 * i + 2 <= spot[i] /\ spot[i+1] = spot[i] + Size(e.key, e.bytes)
      /\ Lies(d, spot[i], e.type, e.key, e.bytes)

\* A document of these elements, at these offsets and with its end marker.
Laid(d, elements, spot) ==
  /\ d \in Seq(Octet) /\ Len(d) \in 5..MaxInt /\ Read4(d, 0) = Len(d) /\ d[Len(d)] = 0
  /\ elements \in Seq(BsonElement)
  /\ spot \in [1..Len(elements)+1 -> Nat] /\ spot[1] = 4 /\ spot[Len(elements)+1] = Len(d) - 1
  /\ \A i \in 1..Len(elements) : LaidAt(d, elements, spot, i)

-----------------------------------------------------------------------------
\* What the ranges of bytes and of 32-bit integers are.
LEMMA Ranges ==
  /\ MaxInt \in Nat /\ MaxInt > 255
  /\ \A n : n \in Int32 <=> n \in Int /\ -MaxInt-1 <= n /\ n <= MaxInt
  /\ \A n : n \in Char <=> n \in Octet /\ n # 0
  /\ \A n : n \in Octet <=> n \in Nat /\ n <= 255
<1>1. MaxInt \in Nat /\ MaxInt > 255
  BY SMT DEF MaxInt
<1>2. \A n : n \in Int32 <=> n \in Int /\ -MaxInt-1 <= n /\ n <= MaxInt
  BY <1>1 DEF Int32
<1>3. \A n : n \in Octet <=> n \in Nat /\ n <= 255
  BY DEF Octet
<1>4. \A n : n \in Char <=> n \in Nat /\ n <= 255 /\ n # 0
  BY DEF Char
<1> QED BY <1>1, <1>2, <1>3, <1>4

\* 0 is a byte.
LEMMA ZeroOctet == 0 \in Octet /\ MaxInt \in Nat
BY Ranges

\* write_unaligned_int: four bytes.
LEMMA Int4Facts ==
  ASSUME NEW n \in Int
  PROVE  /\ Int4(n) \in Seq(Octet) /\ Len(Int4(n)) = 4
         /\ Int4(n)[1] = n % 256 /\ Int4(n)[2] = (n \div 256) % 256
         /\ Int4(n)[3] = (n \div 65536) % 256 /\ Int4(n)[4] = (n \div 16777216) % 256
<1>1. /\ n % 256 \in Octet /\ (n \div 256) % 256 \in Octet
      /\ (n \div 65536) % 256 \in Octet /\ (n \div 16777216) % 256 \in Octet
  BY Ranges, SMT
<1> DEFINE a == n % 256
           b == (n \div 256) % 256
           c == (n \div 65536) % 256
           e == (n \div 16777216) % 256
<1>2. Int4(n) = <<a, b, c, e>>
  BY SMT DEF Int4
<1>3. a \in Octet /\ b \in Octet /\ c \in Octet /\ e \in Octet
  BY <1>1, SMT
<1> HIDE DEF a, b, c, e
<1>4. Int4(n) \in Seq(Octet) /\ Len(Int4(n)) = 4 /\ Int4(n)[1] = a /\ Int4(n)[2] = b
        /\ Int4(n)[3] = c /\ Int4(n)[4] = e
  BY <1>2, <1>3, SMT
<1> QED BY <1>4, SMT DEF a, b, c, e

\* A 32-bit integer from its four bytes.
LEMMA WordArithmetic ==
  ASSUME NEW n \in Int32
  PROVE  LET top == (n \div 16777216) % 256
         IN  (n % 256) + 256 * ((n \div 256) % 256) + 65536 * ((n \div 65536) % 256)
               + 16777216 * (IF top < 128 THEN top ELSE top - 256) = n
<1> DEFINE p == n \div 256
           q == n \div 65536
           r == n \div 16777216
<1>1. n \in Int /\ -MaxInt-1 <= n /\ n <= MaxInt
  BY Ranges
<1>2. n \in Int /\ p \in Int /\ q \in Int /\ r \in Int /\ -128 <= r /\ r < 128
  <2>1. -2147483648 <= n /\ n <= 2147483647
    BY <1>1, SMT DEF MaxInt
  <2> QED BY <1>1, <2>1, SMT
<1>3. n = 256 * p + (n % 256) /\ p = 256 * q + (p % 256) /\ q = 256 * r + (q % 256)
  BY <1>2, SMT
<1>4. r % 256 = IF r < 0 THEN r + 256 ELSE r
  BY <1>2, SMT
<1>5. (IF r % 256 < 128 THEN r % 256 ELSE (r % 256) - 256) = r
  BY <1>2, <1>4, SMT
<1> QED BY <1>2, <1>3, <1>5, SMT

\* What has been written as a word is read as the number it was.
LEMMA ReadInt4 ==
  ASSUME NEW n \in Int32, NEW d, NEW o \in Nat,
         \A i \in 1..4 : d[o+i] = Int4(n)[i]
  PROVE  Read4(d, o) = n
<1>1. n \in Int
  BY Ranges
<1>2. d[o+1] = Int4(n)[1] /\ d[o+2] = Int4(n)[2] /\ d[o+3] = Int4(n)[3] /\ d[o+4] = Int4(n)[4]
  BY SMT
<1> DEFINE a == n % 256
           b == (n \div 256) % 256
           c == (n \div 65536) % 256
           f == (n \div 16777216) % 256
<1>3. d[o+1] = a /\ d[o+2] = b /\ d[o+3] = c /\ d[o+4] = f
  BY <1>1, <1>2, Int4Facts
<1> HIDE DEF a, b, c, f
<1>4. Read4(d, o) = a + 256 * b + 65536 * c + 16777216 * (IF f < 128 THEN f ELSE f - 256)
  BY <1>3, SMT DEF Read4
<1> USE DEF a, b, c, f
<1>5. Read4(d, o) = LET top == (n \div 16777216) % 256
         IN  (n % 256) + 256 * ((n \div 256) % 256) + 65536 * ((n \div 65536) % 256)
               + 16777216 * (IF top < 128 THEN top ELSE top - 256)
  BY <1>4
<1> QED BY <1>5, WordArithmetic, SMT

\* Equal bytes give equal integers.
LEMMA Read4Equal ==
  ASSUME NEW d, NEW o \in Nat, NEW f, NEW m \in Nat, \A i \in 1..4 : d[o+i] = f[m+i]
  PROVE  Read4(d, o) = Read4(f, m)
<1>1. d[o+1] = f[m+1] /\ d[o+2] = f[m+2] /\ d[o+3] = f[m+3] /\ d[o+4] = f[m+4]
  BY SMT
<1> QED BY <1>1, SMT DEF Read4

\* The first NUL at or behind o is where no byte before is one.
LEMMA NulAt ==
  ASSUME NEW d, NEW o \in Nat, NEW n \in Nat, Len(d) \in Nat, o <= n, n < Len(d),
         d[n+1] = 0, \A m \in o..n-1 : d[m+1] # 0
  PROVE  Nul(d, o) = n
<1> DEFINE N(x) == x \in o..Len(d)-1 /\ d[x+1] = 0 /\ \A m \in o..x-1 : d[m+1] # 0
<1>1. N(n)
  OBVIOUS
<1>2. ASSUME NEW x, N(x) PROVE x = n
  <2>1. x \in Int /\ ~(x < n) /\ ~(n < x)
    BY <1>1, <1>2
  <2> QED BY <2>1
<1>3. Nul(d, o) = CHOOSE x : N(x)
  BY DEF Nul
<1> QED BY <1>1, <1>2, <1>3
\* A part of the document that has the bytes of s is s.
LEMMA SubSeqIs ==
  ASSUME NEW S, NEW s \in Seq(S), NEW d, NEW a \in Nat, \A i \in 1..Len(s) : d[a+i] = s[i]
  PROVE  SubSeq(d, a + 1, a + Len(s)) = s
<1> DEFINE m == a + 1
           n == a + Len(s)
<1>1. Len(s) \in Nat /\ \A i \in 1..Len(s) : s[i] \in S
  BY LenProperties, ElementOfSeq
<1>2. m \in Int /\ n \in Int /\ n - m + 1 = Len(s)
  BY <1>1
<1>3. \A j \in m..n : d[j] \in S
  <2> SUFFICES ASSUME NEW j \in m..n PROVE d[j] \in S
    OBVIOUS
  <2>1. j - a \in 1..Len(s) /\ a + (j - a) = j
    BY <1>1
  <2>2. d[a + (j - a)] = s[j - a]
    BY <2>1
  <2> QED BY <1>1, <2>1, <2>2
<1>4. \A i \in 1..Len(s) : m + i - 1 = a + i
  BY <1>1
<1> HIDE DEF m, n
<1>5. /\ SubSeq(d, m, n) \in Seq(S)
      /\ Len(SubSeq(d, m, n)) = IF m <= n THEN n - m + 1 ELSE 0
      /\ \A i \in 1..n-m+1 : SubSeq(d, m, n)[i] = d[m+i-1]
  BY <1>2, <1>3, SubSeqProperties
<1>6. Len(SubSeq(d, m, n)) = Len(s)
  BY <1>1, <1>2, <1>5
<1>7. \A i \in 1..Len(s) : SubSeq(d, m, n)[i] = s[i]
  BY <1>2, <1>4, <1>5
<1>8. SubSeq(d, m, n) = s
  BY <1>5, <1>6, <1>7, SeqEqual
<1> QED BY <1>8 DEF m, n

\* A name or a string is bytes without a NUL.
LEMMA TextBytes ==
  ASSUME NEW s \in Seq(Char)
  PROVE  Len(s) \in Nat /\ s \in Seq(Octet) /\ \A i \in 1..Len(s) : s[i] \in Char /\ s[i] # 0
<1>1. \A i \in 1..Len(s) : s[i] \in Char
  BY ElementOfSeq
<1>2. Char \subseteq Octet
  BY Ranges
<1> QED BY <1>1, <1>2, LenProperties, SeqMonotonic, Ranges

\* A name that ends with NUL is read as it was written.
LEMMA NameAt ==
  ASSUME NEW d \in Seq(Octet), NEW o \in Nat, NEW s \in Seq(Char), o + Len(s) < Len(d),
         \A i \in 1..Len(s) : d[o+i] = s[i], d[o+Len(s)+1] = 0
  PROVE  Nul(d, o) = o + Len(s) /\ Name(d, o) = s
<1>1. Len(d) \in Nat /\ Len(s) \in Nat /\ \A i \in 1..Len(s) : s[i] # 0
  BY TextBytes, LenProperties
<1>2. \A m \in o..o+Len(s)-1 : d[m+1] # 0
  <2> SUFFICES ASSUME NEW m \in o..o+Len(s)-1 PROVE d[m+1] # 0
    OBVIOUS
  <2>1. m+1-o \in 1..Len(s) /\ o + (m+1-o) = m+1
    BY <1>1
  <2>2. d[o + (m+1-o)] = s[m+1-o]
    BY <2>1
  <2> QED BY <1>1, <2>1, <2>2
<1>3. o + Len(s) \in Nat /\ o <= o + Len(s)
  BY <1>1
<1>4. Nul(d, o) = o + Len(s)
  BY <1>1, <1>2, <1>3, NulAt
<1>5. SubSeq(d, o + 1, o + Len(s)) = s
  BY SubSeqIs
<1> QED BY <1>4, <1>5 DEF Name

\* The name, the offset of the value and the bytes of an element in place.
LEMMA LiesFacts ==
  ASSUME NEW d \in Seq(Octet), NEW o \in Nat, 
         NEW t, NEW k \in Seq(Char), NEW b \in Seq(Octet), Lies(d, o, t, k, b)
  PROVE  /\ Len(k) \in Nat /\ Len(b) \in Nat /\ Len(d) \in Nat
         /\ Name(d, o + 1) = k /\ ValueAt(d, o) = o + 2 + Len(k)
         /\ SubSeq(d, ValueAt(d, o) + 1, ValueAt(d, o) + Len(b)) = b
<1>1. /\ Len(k) \in Nat /\ Len(b) \in Nat /\ Len(d) \in Nat
  BY LenProperties
<1>2. o + 2 + Len(k) + Len(b) < Len(d)
  <2>1. o + (2 + Len(k) + Len(b)) < Len(d)
    BY DEF Lies, Size
  <2> QED BY <1>1, <2>1
<1>3. /\ \A i \in 1..Len(k) : d[o+1+i] = k[i]
      /\ d[o+2+Len(k)] = 0
      /\ \A i \in 1..Len(b) : d[o+2+Len(k)+i] = b[i]
  BY DEF Lies
<1> DEFINE p == o + 1
           v == o + 2 + Len(k)
<1>4. p \in Nat /\ p + Len(k) < Len(d) /\ p + Len(k) + 1 = v /\ v \in Nat
  BY <1>1, <1>2
<1>5. d[p + Len(k) + 1] = 0
  BY <1>3, <1>4
<1>6. \A i \in 1..Len(k) : d[p+i] = k[i]
  BY <1>3
<1> HIDE DEF p
<1>7. Nul(d, p) = p + Len(k) /\ Name(d, p) = k
  BY <1>1, <1>4, <1>5, <1>6, NameAt
<1>8. ValueAt(d, o) = v
  BY <1>4, <1>7 DEF ValueAt, p
<1>9. \A i \in 1..Len(b) : d[v+i] = b[i]
  BY <1>3
<1> HIDE DEF v
<1>10. SubSeq(d, v + 1, v + Len(b)) = b
  BY <1>1, <1>4, <1>9, SubSeqIs
<1> QED BY <1>1, <1>7, <1>8, <1>10 DEF p, v

\* A word in front of other bytes is read as the number it is.
LEMMA WordFirst ==
  ASSUME NEW n \in Int32, NEW s \in Seq(Octet)
  PROVE  /\ Int4(n) \o s \in Seq(Octet) /\ Len(Int4(n) \o s) = 4 + Len(s)
         /\ Read4(Int4(n) \o s, 0) = n
         /\ \A i \in 1..4 : (Int4(n) \o s)[i] = Int4(n)[i]
         /\ \A i \in 1..Len(s) : (Int4(n) \o s)[4+i] = s[i]
<1> DEFINE w == Int4(n)
           f == Int4(n) \o s
<1>1. n \in Int /\ Len(s) \in Nat
  BY Ranges, LenProperties
<1>2. w \in Seq(Octet) /\ Len(w) = 4
  BY <1>1, Int4Facts
<1>3. f = w \o s
  OBVIOUS
<1> HIDE DEF w, f
<1>4. /\ f \in Seq(Octet) /\ Len(f) = 4 + Len(s)
      /\ \A i \in 1..4 + Len(s) : f[i] = IF i <= 4 THEN w[i] ELSE s[i-4]
  <2>1. /\ w \o s \in Seq(Octet) /\ Len(w \o s) = Len(w) + Len(s)
        /\ \A i \in 1..Len(w) + Len(s) : (w \o s)[i] = IF i <= Len(w) THEN w[i] ELSE s[i - Len(w)]
    BY <1>2, ConcatProperties
  <2> QED BY <1>2, <1>3, <2>1
<1>5. \A i \in 1..4 : f[i] = w[i]
  BY <1>1, <1>4
<1>6. \A i \in 1..Len(s) : f[4+i] = s[i]
  <2> SUFFICES ASSUME NEW i \in 1..Len(s) PROVE f[4+i] = s[i]
    OBVIOUS
  <2>1. 4+i \in 1..4+Len(s) /\ ~(4+i <= 4) /\ (4+i)-4 = i
    BY <1>1
  <2> QED BY <1>4, <2>1
<1>7. Read4(f, 0) = n
  <2>1. \A i \in 1..4 : f[0+i] = Int4(n)[i]
    BY <1>5 DEF w
  <2> QED BY <2>1, ReadInt4
<1> QED BY <1>4, <1>5, <1>6, <1>7 DEF w, f

\* What the bytes of a string, a binary and an integer are.
LEMMA StringBytes ==
  ASSUME NEW x \in Seq(Char), Len(x) < MaxInt
  PROVE  LET b == Int4(Len(x) + 1) \o x \o <<0>>
         IN  /\ b \in Seq(Octet) /\ Len(b) = 4 + Len(x) + 1 /\ Read4(b, 0) = Len(x) + 1
             /\ b[4 + Len(x) + 1] = 0 /\ \A i \in 1..Len(x) : b[4+i] = x[i]
<1> DEFINE n == Len(x) + 1
           s == x \o <<0>>
<1>1. Len(x) \in Nat /\ x \in Seq(Octet) /\ 0 \in Octet
  BY TextBytes, Ranges
<1>2. n \in Int32
  BY <1>1, Ranges
<1>3. s \in Seq(Octet) /\ Len(s) = Len(x) + 1 /\ s[Len(x) + 1] = 0 /\ \A i \in 1..Len(x) : s[i] = x[i]
  BY <1>1
<1>4. Int4(n) \in Seq(Octet)
  BY <1>1, Int4Facts
<1>5. Int4(n) \o x \o <<0>> = Int4(n) \o s
  BY <1>1, <1>4, ConcatAssociative
<1> HIDE DEF s
<1>6. /\ Int4(n) \o s \in Seq(Octet) /\ Len(Int4(n) \o s) = 4 + Len(s)
      /\ Read4(Int4(n) \o s, 0) = n
      /\ \A i \in 1..Len(s) : (Int4(n) \o s)[4+i] = s[i]
  BY <1>2, <1>3, WordFirst
<1>7. Len(s) \in 1..Len(s) /\ 4 + Len(s) = 4 + Len(x) + 1 /\ \A i \in 1..Len(x) : i \in 1..Len(s)
  BY <1>1, <1>3
<1> DEFINE b == Int4(n) \o s
<1>8. /\ b \in Seq(Octet) /\ Len(b) = 4 + Len(x) + 1 /\ Read4(b, 0) = Len(x) + 1
      /\ b[4 + Len(s)] = s[Len(s)] /\ \A i \in 1..Len(x) : b[4+i] = s[i]
  BY <1>6, <1>7
<1> HIDE DEF b
<1>9. b[4 + Len(x) + 1] = 0 /\ \A i \in 1..Len(x) : b[4+i] = x[i]
  BY <1>3, <1>7, <1>8
<1> QED BY <1>5, <1>8, <1>9 DEF b

\* A binary: its length, its subtype, its content.
LEMMA BinaryBytes ==
  ASSUME NEW x \in Seq(Octet), Len(x) <= MaxInt
  PROVE  LET b == Int4(Len(x)) \o <<0>> \o x
         IN  /\ b \in Seq(Octet) /\ Len(b) = 5 + Len(x) /\ Read4(b, 0) = Len(x)
             /\ \A i \in 1..4 : b[i] = Int4(Len(x))[i]
             /\ b[5] = 0 /\ \A i \in 1..Len(x) : b[5+i] = x[i]
<1> DEFINE n == Len(x)
           s == <<0>> \o x
<1>1. Len(x) \in Nat /\ 0 \in Octet /\ <<0>> \in Seq(Octet) /\ Len(<<0>>) = 1
  BY LenProperties, Ranges
<1>2. n \in Int32
  BY <1>1, Ranges
<1>3. s \in Seq(Octet) /\ Len(s) = 1 + Len(x) /\ s[1] = 0 /\ \A i \in 1..Len(x) : s[1+i] = x[i]
  BY <1>1
<1>4. Int4(n) \in Seq(Octet)
  BY <1>1, Int4Facts
<1>5. Int4(n) \o <<0>> \o x = Int4(n) \o s
  BY <1>1, <1>4, ConcatAssociative
<1> HIDE DEF s
<1>6. /\ Int4(n) \o s \in Seq(Octet) /\ Len(Int4(n) \o s) = 4 + Len(s)
      /\ Read4(Int4(n) \o s, 0) = n
      /\ \A i \in 1..4 : (Int4(n) \o s)[i] = Int4(n)[i]
      /\ \A i \in 1..Len(s) : (Int4(n) \o s)[4+i] = s[i]
  BY <1>2, <1>3, WordFirst
<1> DEFINE b == Int4(n) \o s
<1>7. \A i \in 1..Len(x) : b[4+(1+i)] = s[1+i]
  <2>1. \A i \in 1..Len(x) : 1+i \in 1..Len(s)
    BY <1>1, <1>3
  <2> QED BY <1>6, <2>1
<1>8. b \in Seq(Octet) /\ Len(b) = 5 + Len(x) /\ Read4(b, 0) = Len(x)
  BY <1>1, <1>3, <1>6
<1>9. b[4+1] = 0 /\ \A i \in 1..4 : b[i] = Int4(Len(x))[i]
  <2>1. 1 \in 1..Len(s)
    BY <1>1, <1>3
  <2> QED BY <1>3, <1>6, <2>1
<1> HIDE DEF b
<1>10. \A i \in 1..Len(x) : b[5+i] = x[i]
  <2>1. \A i \in 1..Len(x) : 4+(1+i) = 5+i
    OBVIOUS
  <2> QED BY <1>3, <1>7, <2>1
<1>11. Int4(Len(x)) \o <<0>> \o x = b
  BY <1>5 DEF b
<1>12. b[5] = 0
  BY <1>9
<1> QED BY <1>8, <1>10, <1>9, <1>11, <1>12

\* An integer: its four bytes.
LEMMA NumberBytes ==
  ASSUME NEW x \in Int32
  PROVE  Int4(x) \in Seq(Octet) /\ Len(Int4(x)) = 4 /\ Read4(Int4(x), 0) = x
<1>1. x \in Int
  BY Ranges
<1>2. \A i \in 1..4 : Int4(x)[0+i] = Int4(x)[i]
  OBVIOUS
<1> QED BY <1>1, <1>2, ReadInt4, Int4Facts

\* The bytes of a value in a document are as many as measure_value says.
LEMMA MeasureTable ==
  ASSUME NEW d, NEW t, NEW v
  PROVE  /\ t \in {1, 9, 17, 18} => MeasureValue(d, t, v) = 8
         /\ t \in {2, 13, 14} => MeasureValue(d, t, v) = Counted(Read4(d \o Behind, v), 4)
         /\ t \in {3, 4} => MeasureValue(d, t, v) = Counted(Read4(d \o Behind, v), 0)
         /\ t = 5 => MeasureValue(d, t, v) = Counted(Read4(d \o Behind, v), 4 + 1)
         /\ t \in {6, 10} => MeasureValue(d, t, v) = 0
         /\ t = 7 => MeasureValue(d, t, v) = 12
         /\ t = 8 => MeasureValue(d, t, v) = 1
         /\ t = 11 => MeasureValue(d, t, v) = Pattern(d, v)
         /\ t = 12 => MeasureValue(d, t, v) = Counted(Read4(d \o Behind, v), 4 + 12)
         /\ t = 16 => MeasureValue(d, t, v) = 4
         /\ t = 19 => MeasureValue(d, t, v) = 16
<1> DEFINE n == Read4(d \o Behind, v)
<1> HIDE DEF n
<1> QED BY DEF MeasureValue, n

\* A length within the document is read from it.
LEMMA LengthHere ==
  ASSUME NEW d \in Seq(Octet), NEW v \in Nat, v + 4 <= Len(d)
  PROVE  Read4(d \o Behind, v) = Read4(d, v)
<1> DEFINE f == d \o Behind
<1>1. Behind \in Seq(Octet) /\ Len(d) \in Nat
  BY BsonAssumption, LenProperties
<1>2. \A i \in 1..Len(d) : f[i] = d[i]
  BY <1>1, ConcatProperties
<1> HIDE DEF f
<1>3. \A i \in 1..4 : v+i \in 1..Len(d)
  BY <1>1
<1>4. \A i \in 1..4 : f[v+i] = d[v+i]
  BY <1>2, <1>3
<1>5. Read4(f, v) = Read4(d, v)
  BY <1>4, Read4Equal
<1> QED BY <1>5 DEF f

\* A length that is not negative counts.
LEMMA CountedLength == ASSUME NEW n \in Nat, NEW more PROVE Counted(n, more) = n + more
BY DEF Counted

\* measure_value gives the length of the value of every type.
LEMMA MeasureFacts ==
  ASSUME NEW d \in Seq(Octet), NEW v \in Nat, NEW t, NEW x, NEW b \in Seq(Octet), Valued(t, x, b),
         v + Len(b) < Len(d), \A i \in 1..Len(b) : d[v+i] = b[i]
  PROVE  MeasureValue(d, t, v) = Len(b)
<1>1. Len(b) \in Nat /\ Len(d) \in Nat
  BY LenProperties
<1> DEFINE n == Read4(d \o Behind, v)
<1>2. Len(b) >= 4 => n = Read4(b, 0)
  <2> SUFFICES ASSUME Len(b) >= 4 PROVE n = Read4(b, 0)
    OBVIOUS
  <2>1. \A i \in 1..4 : d[v+i] = b[0+i]
    BY <1>1
  <2>2. v + 4 <= Len(d)
    BY <1>1
  <2>3. n = Read4(d, v)
    BY <2>2, LengthHere
  <2> QED BY <2>1, <2>3, Read4Equal
<1> HIDE DEF n
<1>3. CASE t = 2 /\ x \in Seq(Char) /\ Len(x) < MaxInt /\ b = Int4(Len(x) + 1) \o x \o <<0>>
  <2>1. Len(b) = 4 + Len(x) + 1 /\ Read4(b, 0) = Len(x) + 1 /\ Len(x) \in Nat
    BY <1>3, StringBytes, TextBytes
  <2>2. t = 2
    BY <1>3
  <2>3. MeasureValue(d, t, v) = Counted(n, 4)
    BY <2>2, MeasureTable DEF n
  <2>4. n = Len(x) + 1 /\ n \in Nat
    BY <1>2, <2>1
  <2> QED BY <2>1, <2>3, <2>4, CountedLength
<1>4. CASE t \in {3, 4} /\ x = b /\ Len(b) >= 5 /\ Read4(b, 0) = Len(b)
  <2>1. MeasureValue(d, t, v) = Counted(n, 0)
    BY <1>4, MeasureTable DEF n
  <2>2. n = Len(b) /\ n \in Nat
    BY <1>1, <1>2, <1>4
  <2> QED BY <2>1, <2>2, CountedLength
<1>5. CASE t = 5 /\ x \in Seq(Octet) /\ Len(x) <= MaxInt /\ b = Int4(Len(x)) \o <<0>> \o x
  <2>1. Len(b) = 5 + Len(x) /\ Read4(b, 0) = Len(x) /\ Len(x) \in Nat
    BY <1>5, BinaryBytes, LenProperties
  <2>2. t = 5
    BY <1>5
  <2>3. MeasureValue(d, t, v) = Counted(n, 4 + 1)
    BY <2>2, MeasureTable DEF n
  <2>4. n = Len(x) /\ n \in Nat
    BY <1>2, <2>1
  <2> QED BY <2>1, <2>3, <2>4, CountedLength
<1>6. CASE t = 8 /\ b = <<IF x THEN 1 ELSE 0>>
  <2>1. Len(b) = 1
    BY <1>6
  <2> QED BY <1>6, <2>1, MeasureTable
<1>7. CASE t = 10 /\ b = <<>>
  <2>1. Len(b) = 0
    BY <1>7
  <2> QED BY <1>7, <2>1, MeasureTable
<1>8. CASE t = 16 /\ x \in Int32 /\ b = Int4(x)
  <2>1. Len(b) = 4
    BY <1>8, NumberBytes
  <2> QED BY <1>8, <2>1, MeasureTable
<1>9. CASE Foreign(t, b) /\ t # 15
  <2>1. CASE t \in {1, 9, 17, 18} /\ Len(b) = 8
    <3>1. t = 1 \/ t = 9 \/ t = 17 \/ t = 18
      BY <2>1
    <3>2. 1 \in {1, 9, 17, 18} /\ 9 \in {1, 9, 17, 18} /\ 17 \in {1, 9, 17, 18} /\ 18 \in {1, 9, 17, 18}
      OBVIOUS
    <3>3. MeasureValue(d, 1, v) = 8 /\ MeasureValue(d, 9, v) = 8 /\ MeasureValue(d, 17, v) = 8
            /\ MeasureValue(d, 18, v) = 8
      BY <3>2, MeasureTable
    <3> QED BY <2>1, <3>1, <3>3
  <2>2. CASE t = 6 /\ Len(b) = 0
    BY <2>2, MeasureTable
  <2>3. CASE t = 7 /\ Len(b) = 12
    BY <2>3, MeasureTable
  <2>4. CASE t = 19 /\ Len(b) = 16
    BY <2>4, MeasureTable
  <2>5. CASE t = 11 /\ \E i \in 1..Len(b)-1 :
                 \A j \in 1..Len(b) : b[j] = 0 <=> j \in {i, Len(b)}
    <3>1. PICK i \in 1..Len(b)-1 :
                 \A j \in 1..Len(b) : b[j] = 0 <=> j \in {i, Len(b)}
      BY <2>5
    <3>2. i \in Nat /\ i >= 1 /\ i < Len(b)
      BY <1>1
    <3>3. \A m \in v..v+Len(b)-1 : d[m+1] = 0 <=> m \in {v+i-1, v+Len(b)-1}
      <4> SUFFICES ASSUME NEW m \in v..v+Len(b)-1
                   PROVE  d[m+1] = 0 <=> m \in {v+i-1, v+Len(b)-1}
        OBVIOUS
      <4>1. m+1-v \in 1..Len(b) /\ v + (m+1-v) = m+1
        BY <1>1
      <4>2. d[v + (m+1-v)] = b[m+1-v]
        BY <4>1
      <4>3. b[m+1-v] = 0 <=> m+1-v \in {i, Len(b)}
        BY <3>1, <4>1
      <4>4. m+1-v \in {i, Len(b)} <=> m \in {v+i-1, v+Len(b)-1}
        BY <1>1, <3>2
      <4> QED BY <4>1, <4>2, <4>3, <4>4
    <3>4. Nul(d, v) = v+i-1
      <4>1. v+i-1 \in Nat /\ v <= v+i-1 /\ v+i-1 < Len(d)
        BY <1>1, <3>2
      <4>2. d[(v+i-1)+1] = 0
        <5>1. v+i-1 \in v..v+Len(b)-1
          BY <1>1, <3>2
        <5> QED BY <3>3, <5>1
      <4>3. \A m \in v..(v+i-1)-1 : d[m+1] # 0
        <5>1. \A m \in v..(v+i-1)-1 : m \in v..v+Len(b)-1 /\ m # v+i-1 /\ m # v+Len(b)-1
          BY <1>1, <3>2
        <5> QED BY <3>3, <5>1
      <4> QED BY <1>1, <4>1, <4>2, <4>3, NulAt
    <3>5. Nul(d, v+i) = v+Len(b)-1
      <4>1. v+i \in Nat /\ v+Len(b)-1 \in Nat /\ v+i <= v+Len(b)-1 /\ v+Len(b)-1 < Len(d)
        BY <1>1, <3>2
      <4>2. d[(v+Len(b)-1)+1] = 0
        <5>1. v+Len(b)-1 \in v..v+Len(b)-1
          BY <1>1, <3>2
        <5> QED BY <3>3, <5>1
      <4>3. \A m \in v+i..(v+Len(b)-1)-1 : d[m+1] # 0
        <5>1. \A m \in v+i..(v+Len(b)-1)-1 : m \in v..v+Len(b)-1 /\ m # v+i-1 /\ m # v+Len(b)-1
          BY <1>1, <3>2
        <5> QED BY <3>3, <5>1
      <4> QED BY <1>1, <4>1, <4>2, <4>3, NulAt
    <3>6. Nul(d, v) + 1 = v+i
      BY <3>2, <3>4
    <3>7. Pattern(d, v) = Len(b)
      <4>1. v+i < Len(d) /\ (v+Len(b)-1) + 1 < Len(d) /\ (v+Len(b)-1) + 1 - v = Len(b)
        BY <1>1, <3>2
      <4>2. v+i \in Nat /\ v+Len(b)-1 \in Nat
        BY <1>1, <3>2
      <4>3. ~(v+i >= Len(d) \/ (v+Len(b)-1) + 1 >= Len(d))
        BY <1>1, <4>1, <4>2
      <4>4. Nul(d, v) + 1 = v+i /\ Nul(d, Nul(d, v) + 1) + 1 = (v+Len(b)-1) + 1
        BY <3>5, <3>6
      <4>5. Pattern(d, v) = (v+Len(b)-1) + 1 - v
        BY <4>3, <4>4 DEF Pattern
      <4> QED BY <4>1, <4>5
    <3>8. MeasureValue(d, 11, v) = Pattern(d, v)
      BY MeasureTable
    <3> QED BY <2>5, <3>7, <3>8
  <2>6. CASE t = 12 /\ Len(b) >= 16 /\ Read4(b, 0) = Len(b) - 16
    <3>1. MeasureValue(d, 12, v) = Counted(n, 4 + 12)
      BY MeasureTable DEF n
    <3>2. n = Len(b) - 16 /\ n \in Nat
      BY <1>1, <1>2, <2>6
    <3>3. MeasureValue(d, 12, v) = n + (4 + 12)
      BY <3>1, <3>2, CountedLength
    <3> QED BY <1>1, <2>6, <3>2, <3>3
  <2>7. CASE t \in {13, 14} /\ Len(b) >= 4 /\ Read4(b, 0) = Len(b) - 4
    <3>1. MeasureValue(d, t, v) = Counted(n, 4)
      BY <2>7, MeasureTable DEF n
    <3>2. n = Len(b) - 4 /\ n \in Nat
      BY <1>1, <1>2, <2>7
    <3>3. MeasureValue(d, t, v) = n + 4
      BY <3>1, <3>2, CountedLength
    <3> QED BY <1>1, <3>2, <3>3
  <2> QED BY <1>9, <2>1, <2>5, <2>6, <2>7, <2>2, <2>3, <2>4 DEF Foreign
<1> QED BY <1>3, <1>4, <1>5, <1>6, <1>7, <1>8, <1>9 DEF Valued
\* The firmware writes none of those types.
LEMMA ForeignTypes ==
  ASSUME NEW t, NEW b, Foreign(t, b)
  PROVE  t \notin {2, 3, 4, 5, 8, 10, 16} /\ t \in 1..19
<1>1. t \in {1, 6, 7, 9, 11, 12, 13, 14, 15, 17, 18, 19}
  BY DEF Foreign
<1> QED BY <1>1

\* Each type has its own form of the bytes.
LEMMA ValuedByType ==
  ASSUME NEW t, NEW x, NEW b, Valued(t, x, b)
  PROVE  /\ t = 2 => x \in Seq(Char) /\ Len(x) < MaxInt /\ b = Int4(Len(x) + 1) \o x \o <<0>>
         /\ t \in {3, 4} => x = b /\ Len(b) >= 5 /\ Read4(b, 0) = Len(b)
         /\ t = 5 => x \in Seq(Octet) /\ Len(x) <= MaxInt /\ b = Int4(Len(x)) \o <<0>> \o x
         /\ t = 8 => x \in BOOLEAN /\ b = <<IF x THEN 1 ELSE 0>>
         /\ t = 16 => x \in Int32 /\ b = Int4(x)
         /\ t \notin {2, 3, 4, 5, 8, 16} => x = b
<1>1. CASE Foreign(t, b) /\ t # 15 /\ x = b
  BY <1>1, ForeignTypes
<1>2. CASE ~(Foreign(t, b) /\ t # 15 /\ x = b)
  BY <1>2, SMTT(30) DEF Valued
<1> QED BY <1>1, <1>2

\* Each getter gives the value of an element of its type, and its default for
\* any other.
LEMMA GettersGive ==
  ASSUME NEW d \in Seq(Octet), NEW o \in Nat, o >= 4,
         NEW t, NEW x, NEW k \in Seq(Char), NEW b \in Seq(Octet), Valued(t, x, b), Lies(d, o, t, k, b),
         NEW e, e.type = t, e.value = x, e.bytes = b
  PROVE  Reads(d, o, e)
<1> DEFINE v == ValueAt(d, o)
<1>1. /\ Len(k) \in Nat /\ Len(b) \in Nat /\ Len(d) \in Nat
      /\ v = o + 2 + Len(k) /\ SubSeq(d, v + 1, v + Len(b)) = b
  BY LiesFacts
<1>2. v \in Nat
  BY <1>1
<1>3. v + Len(b) < Len(d)
  <2>1. o + (2 + Len(k) + Len(b)) < Len(d)
    BY DEF Lies, Size
  <2> QED BY <1>1, <2>1
<1>4. d[o+1] = t /\ \A i \in 1..Len(b) : d[v+i] = b[i]
  BY <1>1 DEF Lies
<1>5. \A types : Is(d, o, types) <=> t \in types
  BY <1>4 DEF Is
<1> HIDE DEF v
<1>6. Len(b) >= 4 => Read4(d, v) = Read4(b, 0)
  <2> SUFFICES ASSUME Len(b) >= 4 PROVE Read4(d, v) = Read4(b, 0)
    OBVIOUS
  <2>1. \A i \in 1..4 : i \in 1..Len(b) /\ 0+i = i
    BY <1>1
  <2>2. d[v+1] = b[1] /\ d[v+2] = b[2] /\ d[v+3] = b[3] /\ d[v+4] = b[4]
    BY <1>4, <2>1
  <2>3. b[0+1] = b[1] /\ b[0+2] = b[2] /\ b[0+3] = b[3] /\ b[0+4] = b[4]
    OBVIOUS
  <2> QED BY <2>2, <2>3, SMT DEF Read4
<1>7. GetString(d, o, <<0>>) = IF t = 2 THEN x ELSE <<0>>
  <2>1. CASE t # 2
    BY <1>5, <2>1 DEF GetString
  <2>2. CASE t = 2
    <3>1. x \in Seq(Char) /\ Len(x) < MaxInt /\ b = Int4(Len(x) + 1) \o x \o <<0>>
      BY <2>2, ValuedByType
    <3>2. /\ Len(b) = 4 + Len(x) + 1 /\ Read4(b, 0) = Len(x) + 1
          /\ b[4 + Len(x) + 1] = 0 /\ \A i \in 1..Len(x) : b[4+i] = x[i]
      BY <3>1, StringBytes
    <3>3. Len(x) \in Nat
      BY <3>1, TextBytes
    <3> DEFINE n == Read4(d, v)
               p == v + 4
    <3>4. n = Len(x) + 1 /\ n > 0 /\ Len(d) >= v + 4 + n
      <4>1. Len(b) >= 4 /\ v \in Nat /\ Len(d) \in Nat /\ v + (4 + Len(x) + 1) < Len(d)
        BY <1>1, <1>2, <1>3, <3>2, <3>3
      <4>2. n = Len(x) + 1
        BY <1>6, <3>2, <4>1
      <4> HIDE DEF n
      <4> QED BY <3>3, <4>1, <4>2
    <3>5. 4 + Len(x) + 1 \in 1..Len(b) /\ \A i \in 1..Len(x) : 4+i \in 1..Len(b)
      BY <3>2, <3>3
    <3>6. d[v + (4 + Len(x) + 1)] = 0 /\ \A i \in 1..Len(x) : d[v + (4+i)] = x[i]
      BY <1>4, <3>2, <3>5
    <3>7. v + (4 + Len(x) + 1) = v + 4 + n /\ v + (4 + Len(x) + 1) = p + Len(x) + 1
            /\ \A i \in 1..Len(x) : v + (4+i) = p + i
      BY <1>2, <3>3, <3>4
    <3>8. d[v + 4 + n] = 0
      BY <3>6, <3>7
    <3>9. p \in Nat /\ p + Len(x) < Len(d)
      BY <1>1, <1>2, <3>3, <3>4
    <3>10. d[p + Len(x) + 1] = 0 /\ \A i \in 1..Len(x) : d[p + i] = x[i]
      BY <3>6, <3>7
    <3> HIDE DEF p
    <3>11. Name(d, p) = x
      BY <3>1, <3>9, <3>10, NameAt
    <3> HIDE DEF n
    <3>12. Is(d, o, {2}) /\ ~(n <= 0 \/ Len(d) < v + 4 + n \/ d[v+4+n] # 0)
      BY <1>1, <1>2, <1>5, <2>2, <3>3, <3>4, <3>8
    <3> QED BY <2>2, <3>11, <3>12 DEF GetString, v, n, p
  <2> QED BY <2>1, <2>2
<1>8. GetSubdocument(d, o, <<>>) = IF t \in {3, 4} THEN x ELSE <<>>
  <2>1. CASE t \notin {3, 4}
    BY <1>5, <2>1 DEF GetSubdocument
  <2>2. CASE t \in {3, 4}
    <3>1. x = b /\ Len(b) >= 5 /\ Read4(b, 0) = Len(b)
      BY <2>2, ValuedByType
    <3>2. Read4(d, v) = Len(b)
      <4>1. Len(b) >= 4
        BY <1>1, <3>1
      <4> QED BY <1>6, <3>1, <4>1
    <3>3. GetSubdocument(d, o, <<>>) = SubSeq(d, v + 1, v + Read4(d, v))
      BY <1>5, <2>2 DEF GetSubdocument, v
    <3> QED BY <1>1, <2>2, <3>1, <3>2, <3>3
  <2> QED BY <2>1, <2>2
<1>9. GetBinary(d, o, <<-1>>) = IF t = 5 /\ x # <<>> THEN x ELSE <<-1>>
  <2>1. CASE t # 5
    BY <1>5, <2>1 DEF GetBinary
  <2>2. CASE t = 5
    <3>1. x \in Seq(Octet) /\ Len(x) <= MaxInt /\ b = Int4(Len(x)) \o <<0>> \o x
      BY <2>2, ValuedByType
    <3>2. Len(b) = 5 + Len(x) /\ Read4(b, 0) = Len(x) /\ \A i \in 1..Len(x) : b[5+i] = x[i]
      <4>1. x \in Seq(Octet) /\ Len(x) <= MaxInt
        BY <3>1
      <4>2. LET b0 == Int4(Len(x)) \o <<0>> \o x
            IN  Len(b0) = 5 + Len(x) /\ Read4(b0, 0) = Len(x) /\ \A i \in 1..Len(x) : b0[5+i] = x[i]
        BY <4>1, BinaryBytes
      <4> QED BY <3>1, <4>2
    <3>3. Len(x) \in Nat
      BY <3>1, LenProperties
    <3> DEFINE n == Read4(d, v)
               p == v + 5
    <3>4. n = Len(x) /\ Len(d) >= v + 5 + n /\ p \in Nat
      <4>1. Len(b) >= 4 /\ v \in Nat /\ Len(d) \in Nat /\ v + (5 + Len(x)) < Len(d)
        BY <1>1, <1>2, <1>3, <3>2, <3>3
      <4>2. n = Len(x)
        BY <1>6, <3>2, <4>1
      <4> HIDE DEF n
      <4> QED BY <3>3, <4>1, <4>2
    <3>5. \A i \in 1..Len(x) : 5+i \in 1..Len(b) /\ v + (5+i) = p + i
      <4>1. Len(b) = 5 + Len(x) /\ Len(x) \in Nat /\ v \in Nat /\ p = v + 5
        BY <1>2, <3>2, <3>3
      <4> HIDE DEF p
      <4> QED BY <4>1
    <3>6. \A i \in 1..Len(x) : d[p + i] = x[i]
      BY <1>4, <3>2, <3>5
    <3>7. p + 1 = v + 6 /\ p + Len(x) = v + 5 + n
      BY <1>2, <3>3, <3>4
    <3> HIDE DEF p
    <3>8. SubSeq(d, p + 1, p + Len(x)) = x
      BY <3>1, <3>4, <3>6, SubSeqIs
    <3> HIDE DEF n
    <3>9. GetBinary(d, o, <<-1>>) = IF n <= 0 \/ Len(d) < v + 5 + n THEN <<-1>> ELSE SubSeq(d, v + 6, v + 5 + n)
      BY <1>5, <2>2 DEF GetBinary, v, n
    <3>10. CASE n = 0
      <4>1. x = <<>>
        BY <3>1, <3>4, <3>10, EmptySeq
      <4>2. n <= 0
        BY <3>10
      <4> QED BY <2>2, <3>9, <4>1, <4>2
    <3>11. CASE n # 0
      <4>1. ~(n <= 0 \/ Len(d) < v + 5 + n)
        BY <1>1, <1>2, <3>3, <3>4, <3>11
      <4>2. x # <<>>
        BY <3>4, <3>11
      <4> QED BY <2>2, <3>7, <3>8, <3>9, <4>1, <4>2
    <3> QED BY <3>10, <3>11
  <2> QED BY <2>1, <2>2
<1>10. ASSUME NEW default \in BOOLEAN PROVE GetBoolean(d, o, default) = IF t = 8 THEN x ELSE default
  <2>1. CASE t # 8
    BY <1>5, <2>1 DEF GetBoolean
  <2>2. CASE t = 8
    <3>1. x \in BOOLEAN /\ b = <<IF x THEN 1 ELSE 0>>
      BY <2>2, ValuedByType
    <3>2. Len(b) = 1 /\ b[1] = IF x THEN 1 ELSE 0
      BY <3>1
    <3>3. d[v+1] = IF x THEN 1 ELSE 0
      BY <1>4, <3>2
    <3>4. (d[v+1] # 0) = x
      <4>1. CASE x = TRUE
        <5>1. d[v+1] = 1
          BY <3>3, <4>1
        <5>2. (d[v+1] # 0) = TRUE
          BY <5>1
        <5> QED BY <4>1, <5>2
      <4>2. CASE x = FALSE
        BY <3>3, <4>2
      <4> QED BY <3>1, <4>1, <4>2
    <3>5. GetBoolean(d, o, default) = (d[v+1] # 0)
      BY <1>5, <2>2 DEF GetBoolean, v
    <3> QED BY <2>2, <3>4, <3>5
  <2> QED BY <2>1, <2>2
<1>11. ASSUME NEW default \in {0, 1} PROVE GetInt32(d, o, default) = IF t = 16 THEN x ELSE default
  <2>1. CASE t # 16
    BY <1>5, <2>1 DEF GetInt32
  <2>2. CASE t = 16
    <3>1. x \in Int32 /\ b = Int4(x)
      BY <2>2, ValuedByType
    <3>2. Read4(d, v) = x
      <4>1. Len(b) = 4 /\ Read4(b, 0) = x
        BY <3>1, NumberBytes
      <4>2. Len(b) >= 4
        BY <4>1
      <4> QED BY <1>6, <4>1, <4>2
    <3>3. GetInt32(d, o, default) = Read4(d, v)
      BY <1>5, <2>2 DEF GetInt32, v
    <3> QED BY <2>2, <3>2, <3>3
  <2> QED BY <2>1, <2>2
<1>12. t \notin {2, 3, 4, 5, 8, 16} => SubSeq(d, v + 1, v + Len(b)) = x
  BY <1>1, ValuedByType
<1> QED BY <1>7, <1>8, <1>9, <1>10, <1>11, <1>12 DEF v, Reads

\* Element i of a document, in its parts.
ElementAt(d, elements, spot, i, t, x, k, b) ==
  /\ t \in 1..19 /\ k \in Seq(Char) /\ b \in Seq(Octet)
  /\ elements[i].type = t /\ elements[i].value = x
  /\ elements[i].key = k /\ elements[i].bytes = b
  /\ Valued(t, x, b) /\ Lies(d, spot[i], t, k, b)
  /\ spot[i] \in Nat /\ 2 * i + 2 <= spot[i]
  /\ spot[i+1] \in Nat /\ spot[i+1] = spot[i] + (2 + Len(k) + Len(b))
  /\ Len(k) \in Nat /\ Len(b) \in Nat /\ spot[i] + (2 + Len(k) + Len(b)) < Len(d)

\* Every element of a document is at its offset.
LEMMA LaidElement ==
  ASSUME NEW d, NEW elements, NEW spot, Laid(d, elements, spot), NEW i \in 1..Len(elements)
  PROVE  \E t, x, k, b : ElementAt(d, elements, spot, i, t, x, k, b)
<1>1. elements[i] \in BsonElement
  BY ElementOfSeq DEF Laid, LaidAt
<1> DEFINE e == elements[i]
           t == e.type
           x == e.value
           k == e.key
           b == e.bytes
<1>2. t \in 1..19 /\ k \in Seq(Char) /\ b \in Seq(Octet)
  BY <1>1 DEF BsonElement
<1>3. Len(k) \in Nat /\ Len(b) \in Nat
  BY <1>2, LenProperties
<1>4. i \in 1..Len(elements)+1 /\ i+1 \in 1..Len(elements)+1
  <2>1. Len(elements) \in Nat
    BY LenProperties DEF Laid, LaidAt
  <2> QED BY <2>1
<1>5. spot[i] \in Nat /\ spot[i+1] \in Nat
  BY <1>4 DEF Laid, LaidAt
<1>6. /\ Valued(t, x, b) /\ Lies(d, spot[i], t, k, b)
      /\ 2 * i + 2 <= spot[i] /\ spot[i+1] = spot[i] + Size(k, b)
  BY DEF Laid, LaidAt
<1>7. spot[i] + Size(k, b) < Len(d)
  BY <1>6 DEF Lies
<1>8. elements[i].type = t /\ elements[i].value = x /\ elements[i].key = k /\ elements[i].bytes = b
  OBVIOUS
<1> HIDE DEF t, x, k, b
<1>9. spot[i] + (2 + Len(k) + Len(b)) < Len(d) /\ spot[i+1] = spot[i] + (2 + Len(k) + Len(b))
  BY <1>6, <1>7 DEF Size
<1>10. ElementAt(d, elements, spot, i, t, x, k, b)
  BY <1>2, <1>3, <1>5, <1>6, <1>8, <1>9 DEF ElementAt
<1> QED BY <1>10

\* What is known of the ends of a document.
LEMMA LaidFacts ==
  ASSUME NEW d, NEW elements, NEW spot, Laid(d, elements, spot)
  PROVE  /\ d \in Seq(Octet) /\ Len(d) \in Nat /\ Len(d) >= 5 /\ Len(d) <= MaxInt
         /\ Read4(d, 0) = Len(d) /\ d[Len(d)] = 0
         /\ elements \in Seq(BsonElement) /\ Len(elements) \in Nat /\ DOMAIN elements = 1..Len(elements)
         /\ spot[1] = 4 /\ spot[Len(elements)+1] = Len(d) - 1 /\ Len(elements) < Len(d)
         /\ 2 * Len(elements) + 4 <= spot[Len(elements)+1]
         /\ \A i \in 1..Len(elements)+1 : spot[i] \in Nat
<1>1. /\ d \in Seq(Octet) /\ Len(d) \in 5..MaxInt
      /\ Read4(d, 0) = Len(d) /\ d[Len(d)] = 0
      /\ elements \in Seq(BsonElement)
      /\ spot[1] = 4 /\ spot[Len(elements)+1] = Len(d) - 1 /\ spot \in [1..Len(elements)+1 -> Nat]
  BY DEF Laid, LaidAt
<1>2. Len(d) \in Nat /\ Len(elements) \in Nat /\ DOMAIN elements = 1..Len(elements)
  BY <1>1, LenProperties
<1>3. Len(d) >= 5 /\ Len(d) <= MaxInt
  BY <1>1, Ranges
<1>4. 2 * Len(elements) + 4 <= spot[Len(elements)+1]
  <2>1. CASE Len(elements) = 0
    BY <1>1, <1>2, <2>1
  <2>2. CASE Len(elements) # 0
    <3>1. Len(elements) \in 1..Len(elements)
      BY <1>2, <2>2
    <3> DEFINE n == Len(elements)
    <3>2. PICK t, x, k, b : ElementAt(d, elements, spot, n, t, x, k, b)
      BY <3>1, LaidElement
    <3>3. /\ spot[n] \in Nat /\ 2 * n + 2 <= spot[n] /\ Len(k) \in Nat /\ Len(b) \in Nat
          /\ spot[n+1] = spot[n] + (2 + Len(k) + Len(b))
      BY <3>2 DEF ElementAt
    <3> QED BY <1>2, <3>3
  <2> QED BY <2>1, <2>2
<1>5. Len(elements) < Len(d)
  BY <1>1, <1>2, <1>4
<1> QED BY <1>1, <1>2, <1>3, <1>4, <1>5

\* What is known of name k after m elements: where the first one is, if any.
Found(elements, spot, k, m, o) ==
  \/ o = -1 /\ \A i \in 1..m : elements[i].key # k
  \/ \E i \in 1..m : elements[i].key = k /\ o = spot[i] /\ \A j \in 1..i-1 : elements[j].key # k

\* The search has passed m elements and noted the names among them,
ScannedTo(elements, spot, keys, m, s) ==
  /\ s.at = spot[m+1]
  /\ DOMAIN s.off = keys /\ \A k \in keys : Found(elements, spot, k, m, s.off[k])

\* and goes no further.
ScanEnds(elements, keys, m, s) == m = Len(elements) \/ \A k \in keys : s.off[k] >= 0

\* A round passes one element, or nothing is left to be done.
LEMMA ScanRound ==
  ASSUME NEW d, NEW elements, NEW spot, Laid(d, elements, spot), NEW keys,
         NEW m \in 0..Len(elements), NEW s, ScannedTo(elements, spot, keys, m, s)
  PROVE  \/ ScanEnds(elements, keys, m, s) /\ Scan(d, s) = s
         \/ m < Len(elements) /\ ScannedTo(elements, spot, keys, m+1, Scan(d, s))
<1>1. /\ d \in Seq(Octet) /\ Len(d) \in Nat /\ Read4(d, 0) = Len(d) /\ d[Len(d)] = 0
      /\ Len(elements) \in Nat /\ spot[Len(elements)+1] = Len(d) - 1
      /\ \A i \in 1..Len(elements)+1 : spot[i] \in Nat
  BY LaidFacts
<1>2. s.at = spot[m+1] /\ DOMAIN s.off = keys /\ \A k \in keys : Found(elements, spot, k, m, s.off[k])
  BY DEF ScannedTo
<1>3. CASE m = Len(elements)
  <2>1. s.at = Len(d) - 1
    BY <1>1, <1>2, <1>3
  <2>2. d[s.at + 1] = 0
    <3>1. s.at + 1 = Len(d)
      BY <1>1, <2>1
    <3> QED BY <1>1, <3>1
  <2>3. Scan(d, s) = s
    BY <2>2 DEF Scan
  <2> QED BY <1>3, <2>3 DEF ScanEnds
<1>4. CASE \A k \in keys : s.off[k] >= 0
  <2>1. Scan(d, s) = s
    BY <1>2, <1>4 DEF Scan
  <2> QED BY <1>4, <2>1 DEF ScanEnds
<1>5. CASE m # Len(elements) /\ ~\A k \in keys : s.off[k] >= 0
  <2> DEFINE n == m + 1
  <2>1. n \in 1..Len(elements) /\ m \in Nat /\ n \in Nat
    BY <1>1, <1>5
  <2>2. PICK t, x, k, b : ElementAt(d, elements, spot, n, t, x, k, b)
    BY <2>1, LaidElement
  <2>3. /\ elements[n].key = k /\ spot[n] \in Nat /\ spot[n+1] = spot[n] + (2 + Len(k) + Len(b))
        /\ Len(k) \in Nat /\ Len(b) \in Nat /\ spot[n] + (2 + Len(k) + Len(b)) < Len(d)
        /\ k \in Seq(Char) /\ b \in Seq(Octet) /\ Valued(t, x, b) /\ Lies(d, spot[n], t, k, b)
        /\ t # 0
    BY <2>2 DEF ElementAt
  <2> DEFINE o == spot[n]
  <2>4. s.at = o
    BY <1>2
  <2> HIDE DEF n
  <2>5. o \in Nat /\ Len(k) \in Nat /\ Len(b) \in Nat /\ o + (2 + Len(k) + Len(b)) < Len(d)
    BY <2>3
  <2>6. Lies(d, o, t, k, b) /\ Valued(t, x, b) /\ t # 0
    BY <2>3
  <2> HIDE DEF o
  <2>7. Name(d, o + 1) = k
    <3>1. d \in Seq(Octet) /\ k \in Seq(Char) /\ b \in Seq(Octet) /\ o \in Nat
      BY <1>1, <2>3, <2>5
    <3> QED BY <2>6, <3>1, LiesFacts
  <2>8. d[o+1] = t /\ \A i \in 1..Len(b) : d[o+2+Len(k)+i] = b[i]
    BY <2>6 DEF Lies
  <2> DEFINE v == o + 2 + Len(k)
  <2>9. v \in Nat /\ v + Len(b) < Len(d) /\ v = o + 1 + Len(k) + 1 /\ o < Len(d)
    BY <1>1, <2>5
  <2>10. \A i \in 1..Len(b) : d[v+i] = b[i]
    BY <2>8
  <2> HIDE DEF v
  <2>11. MeasureValue(d, t, v) = Len(b)
    <3>1. d \in Seq(Octet) /\ b \in Seq(Octet) /\ v \in Nat /\ v + Len(b) < Len(d)
      BY <1>1, <2>3, <2>9
    <3> QED BY <2>6, <2>10, <3>1, MeasureFacts
  <2>12. ~(s.at >= Read4(d, 0) \/ d[s.at+1] = 0 \/ \A j \in DOMAIN s.off : s.off[j] >= 0)
    BY <1>1, <1>2, <1>5, <2>4, <2>5, <2>6, <2>8, <2>9
  <2>13. Scan(d, s) = ScanElement(d, s)
    BY <2>12 DEF Scan
  <2> DEFINE off == [j \in keys |-> IF j = k /\ s.off[j] < 0 THEN o ELSE s.off[j]]
  <2>14. ScanElement(d, s) = [at |-> v + Len(b), off |-> off]
    <3>1. ~(Len(b) < 0)
      BY <2>5
    <3>2. ~(v >= Len(d))
      BY <1>1, <2>5, <2>9
    <3> QED BY <1>2, <2>4, <2>7, <2>8, <2>9, <2>11, <3>1, <3>2 DEF ScanElement
  <2>15. v + Len(b) = spot[n+1]
    BY <2>3, <2>5 DEF v, o
  <2>16. ASSUME NEW j \in keys PROVE Found(elements, spot, j, n, off[j])
    <3>1. Found(elements, spot, j, m, s.off[j])
      BY <1>2
    <3>2. \A i : i \in 1..n <=> i \in 1..m \/ i = n
      BY <2>1 DEF n
    <3>3. CASE s.off[j] = -1 /\ \A i \in 1..m : elements[i].key # j
      <4>1. CASE j = k
        <5>1. off[j] = o
          BY <3>3, <4>1
        <5>2. elements[n].key = j /\ o = spot[n] /\ \A i \in 1..n-1 : elements[i].key # j
          <6>1. n - 1 = m
            BY <2>1 DEF n
          <6> QED BY <2>3, <3>3, <4>1, <6>1 DEF o
        <5> QED BY <2>1, <3>2, <5>1, <5>2 DEF Found
      <4>2. CASE j # k
        <5>1. off[j] = -1
          BY <3>3, <4>2
        <5>2. \A i \in 1..n : elements[i].key # j
          BY <2>3, <3>2, <3>3, <4>2
        <5> QED BY <5>1, <5>2 DEF Found
      <4> QED BY <4>1, <4>2
    <3>4. CASE \E i \in 1..m : elements[i].key = j /\ s.off[j] = spot[i] /\ \A h \in 1..i-1 : elements[h].key # j
      <4>1. PICK i \in 1..m : elements[i].key = j /\ s.off[j] = spot[i] /\ \A h \in 1..i-1 : elements[h].key # j
        BY <3>4
      <4>2. i \in 1..Len(elements)+1
        BY <1>1, <2>1
      <4>3. spot[i] \in Nat
        BY <1>1, <4>2
      <4>4. off[j] = spot[i]
        BY <4>1, <4>3
      <4> QED BY <3>2, <4>1, <4>4 DEF Found
    <3> QED BY <3>1, <3>3, <3>4 DEF Found
  <2>17. ScannedTo(elements, spot, keys, n, [at |-> v + Len(b), off |-> off])
    <3> HIDE DEF off
    <3>1. DOMAIN off = keys
      BY DEF off
    <3> QED BY <2>15, <2>16, <3>1 DEF ScannedTo
  <2> QED BY <1>1, <1>5, <2>1, <2>13, <2>14, <2>17 DEF n
<1> QED BY <1>3, <1>4, <1>5

\* At the end the loop stays where it is.
LEMMA ScanStays ==
  ASSUME NEW d, NEW elements, NEW spot, Laid(d, elements, spot), NEW keys,
         NEW m \in 0..Len(elements), NEW s, ScannedTo(elements, spot, keys, m, s),
         ScanEnds(elements, keys, m, s)
  PROVE  Scan(d, s) = s
<1>1. CASE m = Len(elements)
  <2>1. \/ Scan(d, s) = s
        \/ m < Len(elements)
    BY ScanRound
  <2>2. Len(elements) \in Nat
    BY LaidFacts
  <2> QED BY <1>1, <2>1, <2>2
<1>2. CASE \A k \in keys : s.off[k] >= 0
  BY <1>2 DEF Scan, ScannedTo
<1> QED BY <1>1, <1>2 DEF ScanEnds

\* Props goes as many rounds as the document has bytes.
LEMMA PropsRounds ==
  ASSUME NEW d, NEW keys, Len(d) \in Nat
  PROVE  \E scan : /\ scan[0] = [at |-> 4, off |-> [k \in keys |-> -1]]
                   /\ \A n \in 1..Len(d) : scan[n] = Scan(d, scan[n-1])
                   /\ Props(d, keys) = scan[Len(d)].off
<1> DEFINE start == [at |-> 4, off |-> [k \in keys |-> -1]]
           Rounds(n, g) == g = [m \in 0..n |-> IF m = 0 THEN start ELSE Scan(d, g[m-1])]
           T == {n \in Nat : ~\E g : Rounds(n, g)}
<1>1. Props(d, keys) = (CHOOSE g : Rounds(Len(d), g))[Len(d)].off
  BY DEF Props
<1> HIDE DEF start
<1>2. T = {}
  <2> SUFFICES ASSUME T # {} PROVE FALSE
    OBVIOUS
  <2>1. \E n \in T : \A m \in T : ~(<<m, n>> \in OpToRel(<, Nat))
    BY WFMin, NatLessThanWellFounded
  <2>2. PICK n \in T : \A m \in T : ~(<<m, n>> \in OpToRel(<, Nat))
    BY <2>1
  <2>3. CASE n = 0
    <3> DEFINE g == [m \in 0..0 |-> start]
    <3>1. Rounds(0, g)
      OBVIOUS
    <3> QED BY <3>1, <2>2, <2>3
  <2>4. CASE n # 0
    <3>1. n \in Nat /\ n - 1 \in Nat /\ n - 1 < n
      BY <2>4
    <3>2. n - 1 \notin T
      BY <3>1, <2>2 DEF OpToRel
    <3>3. PICK g : Rounds(n - 1, g)
      BY <3>1, <3>2
    <3> DEFINE h == [m \in 0..n |-> IF m = 0 THEN start ELSE Scan(d, g[m-1])]
    <3>4. \A m \in 0..n-1 : g[m] = IF m = 0 THEN start ELSE Scan(d, g[m-1])
      <4>1. g = [m \in 0..n-1 |-> IF m = 0 THEN start ELSE Scan(d, g[m-1])]
        BY <3>3
      <4> HIDE DEF Rounds
      <4> QED BY <4>1
    <3>5. \A m \in 0..n : h[m] = IF m = 0 THEN start ELSE Scan(d, g[m-1])
      OBVIOUS
    <3> HIDE DEF h
    <3>6. \A m \in 0..n : m # 0 => h[m-1] = g[m-1]
      <4> SUFFICES ASSUME NEW m \in 0..n, m # 0 PROVE h[m-1] = g[m-1]
        OBVIOUS
      <4>1. m-1 \in 0..n-1 /\ m-1 \in 0..n
        BY <3>1
      <4> QED BY <4>1, <3>4, <3>5
    <3>7. Rounds(n, h)
      BY <3>6 DEF h
    <3> QED BY <3>7, <2>2
  <2> QED BY <2>3, <2>4
<1>3. \E g : Rounds(Len(d), g)
  BY <1>2
<1> DEFINE w == CHOOSE g : Rounds(Len(d), g)
<1>4. Rounds(Len(d), w)
  BY <1>3
<1>5. Props(d, keys) = w[Len(d)].off
  BY <1>1
<1> HIDE DEF w
<1>6. \A m \in 0..Len(d) : w[m] = IF m = 0 THEN start ELSE Scan(d, w[m-1])
  <2>1. w = [m \in 0..Len(d) |-> IF m = 0 THEN start ELSE Scan(d, w[m-1])]
    BY <1>4
  <2> HIDE DEF Rounds
  <2> QED BY <2>1
<1>7. w[0] = start /\ \A n \in 1..Len(d) : w[n] = Scan(d, w[n-1])
  BY <1>6
<1> QED BY <1>5, <1>7 DEF start

\* bson_get_props finds, of the names it is asked for, the first element of each.
LEMMA PropsFind ==
  ASSUME NEW d, NEW elements, NEW spot, Laid(d, elements, spot), NEW keys, NEW k \in keys
  PROVE  Found(elements, spot, k, Len(elements), Props(d, keys)[k])
<1>1. /\ Len(d) \in Nat /\ Len(elements) \in Nat /\ Len(elements) < Len(d) /\ spot[1] = 4
      /\ \A i \in 1..Len(elements)+1 : spot[i] \in Nat
  BY LaidFacts
<1>2. PICK scan : /\ scan[0] = [at |-> 4, off |-> [j \in keys |-> -1]]
                  /\ \A n \in 1..Len(d) : scan[n] = Scan(d, scan[n-1])
                  /\ Props(d, keys) = scan[Len(d)].off
  BY <1>1, PropsRounds
<1> DEFINE To(n, m) == /\ m \in 0..Len(elements) /\ ScannedTo(elements, spot, keys, m, scan[n])
                       /\ m = n \/ (m <= n /\ ScanEnds(elements, keys, m, scan[n]))
           Done(n) == \E m : To(n, m)
           T == {n \in 0..Len(d) : ~Done(n)}
<1>3. Done(0)
  <2>1. ScannedTo(elements, spot, keys, 0, scan[0])
    BY <1>1, <1>2 DEF ScannedTo, Found
  <2>2. 0 \in 0..Len(elements)
    BY <1>1
  <2>3. To(0, 0)
    BY <2>1, <2>2
  <2> QED BY <2>3
<1>4. ASSUME NEW n \in 1..Len(d), Done(n-1) PROVE Done(n)
  <2>1. PICK m : To(n-1, m)
    BY <1>4
  <2>2. n \in Nat /\ n-1 \in Nat /\ m \in Nat
    BY <1>1, <2>1
  <2>3. scan[n] = Scan(d, scan[n-1])
    BY <1>2
  <2>4. CASE ScanEnds(elements, keys, m, scan[n-1]) /\ scan[n] = scan[n-1]
    <3>1. m <= n
      BY <2>1, <2>2
    <3>2. To(n, m)
      BY <2>1, <2>4, <3>1
    <3> QED BY <3>2
  <2>5. CASE m < Len(elements) /\ ScannedTo(elements, spot, keys, m+1, scan[n]) /\ m = n-1
    <3>1. m+1 \in 0..Len(elements) /\ m+1 = n
      BY <1>1, <2>2, <2>5
    <3>2. To(n, m+1)
      <4>1. ScannedTo(elements, spot, keys, m+1, scan[n])
        BY <2>5
      <4> DEFINE p == m + 1
      <4>2. p \in 0..Len(elements) /\ p = n
        BY <3>1
      <4> HIDE DEF p
      <4>3. ScannedTo(elements, spot, keys, p, scan[n])
        BY <4>1 DEF p
      <4>4. To(n, p)
        BY <4>2, <4>3
      <4> QED BY <4>4 DEF p
    <3> QED BY <3>2
  <2>6. CASE m # n-1
    <3>1. ScanEnds(elements, keys, m, scan[n-1])
      BY <2>1, <2>6
    <3>2. scan[n] = scan[n-1]
      BY <2>3, <3>1, <2>1, ScanStays
    <3> QED BY <2>4, <3>1, <3>2
  <2>7. \/ ScanEnds(elements, keys, m, scan[n-1]) /\ Scan(d, scan[n-1]) = scan[n-1]
        \/ m < Len(elements) /\ ScannedTo(elements, spot, keys, m+1, Scan(d, scan[n-1]))
    BY <2>1, ScanRound
  <2> HIDE DEF Done
  <2> QED BY <2>3, <2>4, <2>5, <2>6, <2>7
<1> HIDE DEF Done
<1>5. T = {}
  <2> SUFFICES ASSUME T # {} PROVE FALSE
    OBVIOUS
  <2>1. T \subseteq Nat
    BY <1>1
  <2>2. \E n \in T : \A m \in T : ~(<<m, n>> \in OpToRel(<, Nat))
    BY <2>1, WFMin, NatLessThanWellFounded
  <2>3. PICK n \in T : \A m \in T : ~(<<m, n>> \in OpToRel(<, Nat))
    BY <2>2
  <2>4. n \in 1..Len(d) /\ n-1 \in 0..Len(d) /\ n-1 < n /\ n-1 \in Nat /\ n \in Nat
    <3>1. n \in 0..Len(d) /\ ~Done(n)
      OBVIOUS
    <3>2. n # 0
      BY <1>3, <3>1
    <3> QED BY <1>1, <3>1, <3>2
  <2>5. n-1 \notin T
    BY <2>3, <2>4 DEF OpToRel
  <2>6. Done(n-1)
    BY <2>4, <2>5
  <2> QED BY <1>4, <2>3, <2>4, <2>6
<1>6. Done(Len(d))
  BY <1>1, <1>5
<1>7. PICK m : To(Len(d), m)
  BY <1>6 DEF Done
<1>8. /\ m \in 0..Len(elements) /\ m # Len(d)
      /\ ScannedTo(elements, spot, keys, m, scan[Len(d)]) /\ ScanEnds(elements, keys, m, scan[Len(d)])
  BY <1>1, <1>7
<1> DEFINE o == Props(d, keys)[k]
<1>9. Found(elements, spot, k, m, o) /\ (m = Len(elements) \/ o >= 0)
  BY <1>2, <1>8 DEF ScannedTo, ScanEnds
<1> HIDE DEF o
<1>10. CASE m = Len(elements)
  BY <1>9, <1>10 DEF o
<1>11. CASE o >= 0
  <2>1. o # -1
    BY <1>11
  <2>2. PICK i \in 1..m : elements[i].key = k /\ o = spot[i] /\ \A j \in 1..i-1 : elements[j].key # k
    BY <1>9, <2>1 DEF Found
  <2>3. i \in 1..Len(elements)
    BY <1>1, <1>8
  <2> QED BY <2>2, <2>3 DEF Found, o
<1> QED BY <1>9, <1>10, <1>11

\* Whoever reads a document that is laid out so finds its elements.
LEMMA LaidHolds ==
  ASSUME NEW d, NEW elements, NEW spot, Laid(d, elements, spot)
  PROVE  Holds(d, elements)
<1>1. Len(d) = Read4(d, 0) /\ Len(elements) \in Nat /\ DOMAIN elements = 1..Len(elements) /\ d \in Seq(Octet)
  BY LaidFacts
<1>2. ASSUME NEW keys \in SUBSET Key, NEW k \in keys
      PROVE  LET o    == Props(d, keys)[k]
                 here == {i \in DOMAIN elements : elements[i].key = k}
             IN  IF here = {} THEN o = -1
                 ELSE \E i \in here : (\A j \in here : i <= j) /\ Reads(d, o, elements[i])
  <2> DEFINE o    == Props(d, keys)[k]
             here == {i \in DOMAIN elements : elements[i].key = k}
  <2>1. Found(elements, spot, k, Len(elements), o)
    BY PropsFind
  <2> HIDE DEF o
  <2>2. CASE o = -1 /\ \A i \in 1..Len(elements) : elements[i].key # k
    <3>1. here = {}
      BY <1>1, <2>2
    <3> QED BY <2>2, <3>1 DEF o
  <2>3. CASE \E i \in 1..Len(elements) : /\ elements[i].key = k /\ o = spot[i]
                                         /\ \A j \in 1..i-1 : elements[j].key # k
    <3>1. PICK i \in 1..Len(elements) : /\ elements[i].key = k /\ o = spot[i]
                                        /\ \A j \in 1..i-1 : elements[j].key # k
      BY <2>3
    <3>2. i \in here /\ i \in Nat /\ i >= 1
      BY <1>1, <3>1
    <3>3. \A j \in here : i <= j
      <4> SUFFICES ASSUME NEW j \in here, j < i PROVE FALSE
        BY <1>1, <3>2
      <4>1. j \in 1..i-1
        BY <1>1, <3>2
      <4> QED BY <3>1, <4>1
    <3>4. PICK t, x, p, b : ElementAt(d, elements, spot, i, t, x, p, b)
      BY LaidElement
    <3> DEFINE e == elements[i]
    <3>5. /\ e.type = t /\ e.value = x /\ e.bytes = b /\ p \in Seq(Char) /\ b \in Seq(Octet)
          /\ Valued(t, x, b) /\ Lies(d, o, t, p, b) /\ o \in Nat /\ 2 * i + 2 <= o
      BY <3>1, <3>4 DEF ElementAt
    <3> HIDE DEF e
    <3>6. o >= 4
      BY <3>2, <3>5
    <3>7. Reads(d, o, e)
      <4>1. d \in Seq(Octet) /\ o \in Nat /\ o >= 4 /\ p \in Seq(Char) /\ b \in Seq(Octet)
        BY <1>1, <3>5, <3>6
      <4>2. Valued(t, x, b) /\ Lies(d, o, t, p, b) /\ e.type = t /\ e.value = x /\ e.bytes = b
        BY <3>5
      <4> QED BY <4>1, <4>2, GettersGive
    <3> QED BY <3>2, <3>3, <3>7 DEF e, o
  <2> QED BY <2>1, <2>2, <2>3 DEF Found
<1> QED BY <1>1, <1>2 DEF Holds

\* The bytes of two sequences behind one another.
LEMMA JoinBytes ==
  ASSUME NEW S, NEW s \in Seq(S), NEW u \in Seq(S)
  PROVE  /\ Len(s) \in Nat /\ Len(u) \in Nat
         /\ s \o u \in Seq(S) /\ Len(s \o u) = Len(s) + Len(u)
         /\ \A i \in 1..Len(s) : (s \o u)[i] = s[i]
         /\ \A i \in 1..Len(u) : (s \o u)[Len(s) + i] = u[i]
<1>1. Len(s) \in Nat /\ Len(u) \in Nat
  BY LenProperties
<1> DEFINE r == s \o u
<1>2. /\ r \in Seq(S) /\ Len(r) = Len(s) + Len(u)
      /\ \A i \in 1..Len(s) + Len(u) : r[i] = IF i <= Len(s) THEN s[i] ELSE u[i - Len(s)]
  BY ConcatProperties
<1> HIDE DEF r
<1>3. \A i \in 1..Len(s) : r[i] = s[i]
  <2>1. \A i \in 1..Len(s) : i \in 1..Len(s) + Len(u) /\ i <= Len(s)
    BY <1>1
  <2> QED BY <1>2, <2>1
<1>4. \A i \in 1..Len(u) : r[Len(s) + i] = u[i]
  <2>1. \A i \in 1..Len(u) : Len(s) + i \in 1..Len(s) + Len(u) /\ ~(Len(s) + i <= Len(s)) /\ (Len(s) + i) - Len(s) = i
    BY <1>1
  <2> QED BY <1>2, <2>1
<1> QED BY <1>1, <1>2, <1>3, <1>4 DEF r

\* One more byte.
LEMMA JoinByte ==
  ASSUME NEW S, NEW s \in Seq(S), NEW c \in S
  PROVE  /\ Len(s) \in Nat
         /\ s \o <<c>> \in Seq(S) /\ Len(s \o <<c>>) = Len(s) + 1
         /\ \A i \in 1..Len(s) : (s \o <<c>>)[i] = s[i]
         /\ (s \o <<c>>)[Len(s) + 1] = c
<1>1. <<c>> \in Seq(S) /\ Len(<<c>>) = 1 /\ <<c>>[1] = c
  OBVIOUS
<1> DEFINE u == <<c>>
<1>2. /\ Len(s) \in Nat
      /\ s \o u \in Seq(S) /\ Len(s \o u) = Len(s) + Len(u)
      /\ \A i \in 1..Len(s) : (s \o u)[i] = s[i]
      /\ \A i \in 1..Len(u) : (s \o u)[Len(s) + i] = u[i]
  BY <1>1, JoinBytes
<1>3. 1 \in 1..Len(u)
  BY <1>1
<1> QED BY <1>1, <1>2, <1>3

\* What an element at the end of document d makes of its bytes: document f.
Grown(d, t, k, b, f) ==
  /\ f \in Seq(Octet) /\ Len(f) = Len(d) + (2 + Len(k) + Len(b))
  /\ Read4(f, 0) = Len(f) /\ f[Len(f)] = 0
  /\ \A i \in 5..Len(d)-1 : f[i] = d[i]
  /\ f[Len(d)] = t
  /\ \A i \in 1..Len(k) : f[Len(d) + i] = k[i]
  /\ f[Len(d) + 1 + Len(k)] = 0
  /\ \A i \in 1..Len(b) : f[Len(d) + 1 + Len(k) + i] = b[i]

\* Every byte of the document that an element was put into.
LEMMA AppendedBytes ==
  ASSUME NEW d \in Seq(Octet), Len(d) \in Nat, Len(d) >= 5, Read4(d, 0) = Len(d),
         NEW t \in Octet, NEW k \in Seq(Char), NEW b \in Seq(Octet),
         Len(d) + (2 + Len(k) + Len(b)) <= MaxInt
  PROVE  Grown(d, t, k, b, Appended(d, t, k, b))
<1> DEFINE h  == SubSeq(d, 5, Len(d) - 1)
           s1 == h \o <<t>>
           s2 == s1 \o k
           s3 == s2 \o <<0>>
           s4 == s3 \o b
           s5 == s4 \o <<0>>
           f  == Int4(4 + Len(s5)) \o s5
           D  == Len(d)
<1>1. f = Appended(d, t, k, b)
  BY DEF Appended
<1>2. 0 \in Octet /\ k \in Seq(Octet) /\ Len(k) \in Nat /\ Len(b) \in Nat /\ D \in Nat /\ D >= 5
        /\ MaxInt \in Nat
  <2>1. 0 \in Octet /\ MaxInt \in Nat
    BY ZeroOctet
  <2>2. k \in Seq(Octet) /\ Len(k) \in Nat
    BY TextBytes
  <2>3. Len(b) \in Nat
    BY LenProperties
  <2> QED BY <2>1, <2>2, <2>3
<1>3. h \in Seq(Octet) /\ Len(h) = D - 5 /\ \A i \in 1..D-5 : h[i] = d[4+i]
  <2>1. \A i \in 5..D-1 : d[i] \in Octet
    <3>1. \A i \in 5..D-1 : i \in 1..D
      BY <1>2
    <3> QED BY <3>1, ElementOfSeq
  <2>2. 5 \in Int /\ D - 1 \in Int /\ D - 1 - 5 + 1 = D - 5 /\ \A i \in 1..D-5 : 5 + i - 1 = 4 + i
    BY <1>2
  <2>3. /\ SubSeq(d, 5, D - 1) \in Seq(Octet)
        /\ Len(SubSeq(d, 5, D - 1)) = IF 5 <= D - 1 THEN D - 1 - 5 + 1 ELSE 0
        /\ \A i \in 1..D - 1 - 5 + 1 : SubSeq(d, 5, D - 1)[i] = d[5 + i - 1]
    BY <2>1, <2>2, SubSeqProperties
  <2>4. Len(h) = D - 5
    BY <1>2, <2>3
  <2> QED BY <2>2, <2>3, <2>4
<1> HIDE DEF h, D
<1>4. /\ s1 \in Seq(Octet) /\ Len(s1) = D - 4 /\ s1[D-4] = t
      /\ \A i \in 1..D-5 : s1[i] = d[4+i]
  <2>1. /\ s1 \in Seq(Octet) /\ Len(s1) = Len(h) + 1 /\ s1[Len(h) + 1] = t
        /\ \A i \in 1..Len(h) : s1[i] = h[i]
    <3>1. h \in Seq(Octet) /\ t \in Octet
      BY <1>3
    <3> QED BY <3>1, JoinByte
  <2>2. Len(h) + 1 = D - 4
    BY <1>2, <1>3
  <2> HIDE DEF s1
  <2> QED BY <1>3, <2>1, <2>2
<1> HIDE DEF s1
<1>5. /\ s2 \in Seq(Octet) /\ Len(s2) = D - 4 + Len(k) /\ \A i \in 1..D-4 : s2[i] = s1[i]
      /\ \A i \in 1..Len(k) : s2[D-4 + i] = k[i]
  <2>1. /\ s2 \in Seq(Octet) /\ Len(s2) = Len(s1) + Len(k) /\ \A i \in 1..Len(s1) : s2[i] = s1[i]
        /\ \A i \in 1..Len(k) : s2[Len(s1) + i] = k[i]
    <3>1. s1 \in Seq(Octet) /\ k \in Seq(Octet)
      BY <1>2, <1>4
    <3> QED BY <3>1, JoinBytes
  <2> HIDE DEF s2
  <2> QED BY <1>4, <2>1
<1> HIDE DEF s2
<1>6. /\ s3 \in Seq(Octet) /\ Len(s3) = D - 4 + Len(k) + 1 /\ s3[D - 4 + Len(k) + 1] = 0
      /\ \A i \in 1..D-4+Len(k) : s3[i] = s2[i]
  <2>1. /\ s3 \in Seq(Octet) /\ Len(s3) = Len(s2) + 1 /\ s3[Len(s2) + 1] = 0
        /\ \A i \in 1..Len(s2) : s3[i] = s2[i]
    <3>1. s2 \in Seq(Octet) /\ 0 \in Octet
      BY <1>2, <1>5
    <3> QED BY <3>1, JoinByte
  <2> HIDE DEF s3
  <2> QED BY <1>5, <2>1
<1> HIDE DEF s3
<1>7. /\ s4 \in Seq(Octet) /\ Len(s4) = D - 4 + Len(k) + 1 + Len(b)
      /\ \A i \in 1..D-4+Len(k)+1 : s4[i] = s3[i]
      /\ \A i \in 1..Len(b) : s4[D - 4 + Len(k) + 1 + i] = b[i]
  <2>1. /\ s4 \in Seq(Octet) /\ Len(s4) = Len(s3) + Len(b) /\ \A i \in 1..Len(s3) : s4[i] = s3[i]
        /\ \A i \in 1..Len(b) : s4[Len(s3) + i] = b[i]
    <3>1. s3 \in Seq(Octet) /\ b \in Seq(Octet)
      BY <1>6
    <3> QED BY <3>1, JoinBytes
  <2> HIDE DEF s4
  <2> QED BY <1>6, <2>1
<1> HIDE DEF s4
<1> DEFINE m == D - 4 + Len(k) + 1 + Len(b)
<1>8. /\ s5 \in Seq(Octet) /\ Len(s5) = m + 1 /\ s5[m + 1] = 0
      /\ \A i \in 1..m : s5[i] = s4[i]
  <2>1. /\ s5 \in Seq(Octet) /\ Len(s5) = Len(s4) + 1 /\ s5[Len(s4) + 1] = 0
        /\ \A i \in 1..Len(s4) : s5[i] = s4[i]
    <3>1. s4 \in Seq(Octet) /\ 0 \in Octet
      BY <1>2, <1>7
    <3> QED BY <3>1, JoinByte
  <2> HIDE DEF s5
  <2> QED BY <1>7, <2>1
<1> HIDE DEF s5
<1>9. 4 + Len(s5) = D + (2 + Len(k) + Len(b)) /\ 4 + Len(s5) \in Int32 /\ m \in Nat
  <2>1. 4 + Len(s5) = D + (2 + Len(k) + Len(b)) /\ m \in Nat
    BY <1>2, <1>8
  <2>2. 4 + Len(s5) \in Nat /\ 4 + Len(s5) <= MaxInt
    BY <1>2, <2>1 DEF D
  <2>3. -MaxInt-1 <= 4 + Len(s5) /\ 4 + Len(s5) \in Int
    BY <1>2, <2>2
  <2>4. 4 + Len(s5) \in Int32
    BY <2>2, <2>3, Ranges
  <2> QED BY <2>1, <2>4
<1>10. /\ f \in Seq(Octet) /\ Len(f) = 4 + Len(s5) /\ Read4(f, 0) = 4 + Len(s5)
       /\ \A i \in 1..Len(s5) : f[4+i] = s5[i]
  BY <1>8, <1>9, WordFirst
<1> HIDE DEF f
<1>11. f[D + (2 + Len(k) + Len(b))] = 0
  <2>1. m + 1 \in 1..Len(s5) /\ 4 + (m + 1) = D + (2 + Len(k) + Len(b))
    BY <1>2, <1>8, <1>9
  <2> HIDE DEF m
  <2>2. f[4 + (m + 1)] = s5[m + 1]
    BY <1>10, <2>1
  <2> QED BY <1>8, <2>1, <2>2
<1>12. \A i \in 1..m : f[4+i] = s4[i]
  <2>1. \A i \in 1..m : i \in 1..Len(s5)
    BY <1>8, <1>9
  <2> QED BY <1>8, <1>10, <2>1
<1>13. ASSUME NEW i \in 5..D-1 PROVE f[i] = d[i]
  <2> DEFINE j == i - 4
  <2>1. j \in 1..D-5 /\ j \in 1..D-4 /\ j \in 1..D-4+Len(k) /\ j \in 1..D-4+Len(k)+1 /\ j \in 1..m /\ 4 + j = i
    BY <1>2
  <2> HIDE DEF j, m
  <2> QED BY <1>4, <1>5, <1>6, <1>7, <1>12, <2>1, ZenonT(30)
<1>14. f[D] = t
  <2> DEFINE j == D - 4
  <2>1. j \in 1..D-4 /\ j \in 1..D-4+Len(k) /\ j \in 1..D-4+Len(k)+1 /\ j \in 1..m /\ 4 + j = D
    BY <1>2
  <2>2. s1[j] = t
    BY <1>4
  <2> HIDE DEF j, m
  <2> QED BY <1>5, <1>6, <1>7, <1>12, <2>1, <2>2
<1>15. ASSUME NEW i \in 1..Len(k) PROVE f[D + i] = k[i]
  <2> DEFINE j == D - 4 + i
  <2>1. j \in 1..D-4+Len(k) /\ j \in 1..D-4+Len(k)+1 /\ j \in 1..m /\ 4 + j = D + i
    BY <1>2
  <2>2. s2[j] = k[i]
    BY <1>5
  <2> HIDE DEF j, m
  <2> QED BY <1>6, <1>7, <1>12, <2>1, <2>2
<1>16. f[D + 1 + Len(k)] = 0
  <2> DEFINE j == D - 4 + Len(k) + 1
  <2>1. j \in 1..D-4+Len(k)+1 /\ j \in 1..m /\ 4 + j = D + 1 + Len(k)
    BY <1>2
  <2>2. s3[j] = 0
    BY <1>6
  <2> HIDE DEF j, m
  <2> QED BY <1>7, <1>12, <2>1, <2>2
<1>17. ASSUME NEW i \in 1..Len(b) PROVE f[D + 1 + Len(k) + i] = b[i]
  <2> DEFINE j == D - 4 + Len(k) + 1 + i
  <2>1. j \in 1..m /\ 4 + j = D + 1 + Len(k) + i
    BY <1>2
  <2>2. s4[j] = b[i]
    BY <1>7
  <2> HIDE DEF j, m
  <2> QED BY <1>12, <2>1, <2>2
<1>18. Len(f) = D + (2 + Len(k) + Len(b)) /\ Read4(f, 0) = D + (2 + Len(k) + Len(b))
  BY <1>9, <1>10
<1>19. f[Len(f)] = 0 /\ Read4(f, 0) = Len(f)
  BY <1>11, <1>18
<1>20. Grown(d, t, k, b, f)
  BY <1>10, <1>13, <1>14, <1>15, <1>16, <1>17, <1>18, <1>19 DEF D, Grown
<1> QED BY <1>1, <1>20

\* An element stays in place when the bytes up to its end are kept.
LEMMA LiesKept ==
  ASSUME NEW d, NEW f, NEW o \in Nat, o >= 4,
         NEW t, NEW k \in Seq(Char), NEW b \in Seq(Octet), Lies(d, o, t, k, b),
         NEW z \in Nat, o + (2 + Len(k) + Len(b)) <= z, Len(f) \in Nat, z < Len(f),
         \A j \in 5..z : f[j] = d[j]
  PROVE  Lies(f, o, t, k, b)
<1>1. Len(k) \in Nat /\ Len(b) \in Nat
  BY LenProperties
<1>2. /\ d[o+1] = t /\ d[o+2+Len(k)] = 0
      /\ \A i \in 1..Len(k) : d[o+1+i] = k[i]
      /\ \A i \in 1..Len(b) : d[o+2+Len(k)+i] = b[i]
  BY DEF Lies
<1>3. /\ o+1 \in 5..z /\ o+2+Len(k) \in 5..z
      /\ \A i \in 1..Len(k) : o+1+i \in 5..z
      /\ \A i \in 1..Len(b) : o+2+Len(k)+i \in 5..z
  BY <1>1, SMTT(30)
<1>4. f[o+1] = t /\ f[o+2+Len(k)] = 0
  BY <1>2, <1>3
<1>5. \A i \in 1..Len(k) : f[o+1+i] = k[i]
  BY <1>2, <1>3
<1>6. \A i \in 1..Len(b) : f[o+2+Len(k)+i] = b[i]
  BY <1>2, <1>3
<1>7. o + (2 + Len(k) + Len(b)) < Len(f)
  BY <1>1
<1> QED BY <1>4, <1>5, <1>6, <1>7 DEF Lies, Size

\* What Laid says of one element.
LEMMA ElementParts ==
  ASSUME NEW e \in BsonElement
  PROVE  e.type \in 1..19 /\ e.type \in Octet /\ e.type # 0 /\ e.key \in Seq(Char) /\ e.bytes \in Seq(Octet)
<1>1. e.type \in 1..19 /\ e.key \in Seq(Char) /\ e.bytes \in Seq(Octet)
  BY DEF BsonElement
<1>2. \A n \in 1..19 : n \in Nat /\ n <= 255 /\ n # 0
  OBVIOUS
<1>3. \A n \in 1..19 : n \in Octet
  BY <1>2, Ranges
<1> QED BY <1>1, <1>2, <1>3

\* An element is put behind the others, and the offsets of those stay.
LEMMA AppendLaid ==
  ASSUME NEW d, NEW elements, NEW spot, Laid(d, elements, spot),
         NEW e \in BsonElement, Valued(e.type, e.value, e.bytes), Len(d) + Size(e.key, e.bytes) <= MaxInt
  PROVE  LET f == Appended(d, e.type, e.key, e.bytes)
         IN  /\ Len(f) = Len(d) + Size(e.key, e.bytes)
             /\ \E place : /\ Laid(f, Append(elements, e), place)
                           /\ \A i \in 1..Len(elements)+1 : place[i] = spot[i]
<1> DEFINE L == Len(elements)
           D == Len(d)
           t == e.type
           x == e.value
           k == e.key
           b == e.bytes
           f == Appended(d, t, k, b)
           all == Append(elements, e)
           n == D + (2 + Len(k) + Len(b))
<1>1. /\ d \in Seq(Octet) /\ D \in Nat /\ D >= 5 /\ Read4(d, 0) = D
      /\ elements \in Seq(BsonElement) /\ L \in Nat
      /\ spot[1] = 4 /\ spot[L+1] = D - 1 /\ 2 * L + 4 <= spot[L+1]
      /\ \A i \in 1..L+1 : spot[i] \in Nat
  BY LaidFacts
<1>2. t \in Octet /\ t # 0 /\ k \in Seq(Char) /\ b \in Seq(Octet)
  BY ElementParts
<1>3. all \in Seq(BsonElement) /\ Len(all) = L + 1 /\ all[L+1] = e /\ \A i \in 1..L : all[i] = elements[i]
  BY <1>1
<1>4. D + (2 + Len(k) + Len(b)) <= MaxInt /\ Valued(t, x, b)
  BY DEF Size
<1> HIDE DEF t, x, k, b, all
<1>5. /\ Len(k) \in Nat /\ Len(b) \in Nat
      /\ f \in Seq(Octet) /\ Len(f) = n /\ Read4(f, 0) = n /\ f[n] = 0
      /\ \A i \in 5..D-1 : f[i] = d[i]
      /\ f[D] = t
      /\ \A i \in 1..Len(k) : f[D + i] = k[i]
      /\ f[D + 1 + Len(k)] = 0
      /\ \A i \in 1..Len(b) : f[D + 1 + Len(k) + i] = b[i]
  <2>1. /\ d \in Seq(Octet) /\ Len(d) \in Nat /\ Len(d) >= 5 /\ Read4(d, 0) = Len(d)
        /\ t \in Octet /\ k \in Seq(Char) /\ b \in Seq(Octet) /\ Len(d) + (2 + Len(k) + Len(b)) <= MaxInt
    BY <1>1, <1>2, <1>4
  <2>2. Grown(d, t, k, b, f)
    BY <2>1, AppendedBytes
  <2>3. Len(k) \in Nat /\ Len(b) \in Nat
    BY <1>2, LenProperties
  <2> HIDE DEF f
  <2>4. Len(f) = n /\ f[n] = 0 /\ Read4(f, 0) = n
    BY <2>2 DEF Grown
  <2> QED BY <2>2, <2>3, <2>4 DEF Grown
<1> HIDE DEF f, L, D
<1>6. n \in Nat /\ n >= D + 2 /\ n <= MaxInt /\ Len(f) = n
  BY <1>1, <1>4, <1>5
<1> DEFINE place == [i \in 1..L+2 |-> IF i <= L+1 THEN spot[i] ELSE n - 1]
<1>7. /\ place \in [1..L+2 -> Nat] /\ place[L+2] = n - 1
      /\ \A i \in 1..L+1 : place[i] = spot[i]
  <2>1. \A i \in 1..L+2 : i <= L+1 => i \in 1..L+1
    BY <1>1
  <2>2. L+2 \in 1..L+2 /\ ~(L+2 <= L+1) /\ n - 1 \in Nat /\ \A i \in 1..L+1 : i \in 1..L+2 /\ i <= L+1
    BY <1>1, <1>6
  <2> QED BY <1>1, <2>1, <2>2
<1> HIDE DEF place, n
<1>8. place[1] = 4
  BY <1>1, <1>7
<1>9. ASSUME NEW i \in 1..L PROVE LaidAt(f, all, place, i)
  <2>1. PICK u, y, p, c : ElementAt(d, elements, spot, i, u, y, p, c)
    BY LaidElement DEF L
  <2>2. i \in 1..L+1 /\ i+1 \in 1..L+1
    BY <1>1
  <2>3. place[i] = spot[i] /\ place[i+1] = spot[i+1] /\ all[i] = elements[i]
    BY <1>3, <1>7, <2>2
  <2>4. /\ p \in Seq(Char) /\ c \in Seq(Octet) /\ Valued(u, y, c) /\ Lies(d, spot[i], u, p, c)
        /\ spot[i] \in Nat /\ 2 * i + 2 <= spot[i] /\ spot[i+1] = spot[i] + (2 + Len(p) + Len(c))
        /\ Len(p) \in Nat /\ Len(c) \in Nat /\ spot[i] + (2 + Len(p) + Len(c)) < D
    BY <2>1 DEF ElementAt, D
  <2>5. elements[i].type = u /\ elements[i].value = y /\ elements[i].key = p /\ elements[i].bytes = c
    BY <2>1 DEF ElementAt
  <2>6. spot[i] >= 4 /\ D - 1 \in Nat /\ spot[i] + (2 + Len(p) + Len(c)) <= D - 1 /\ D - 1 < Len(f) /\ Len(f) \in Nat
    BY <1>1, <1>6, <2>4, SMTT(30)
  <2>7. Lies(f, spot[i], u, p, c)
    <3> DEFINE z == D - 1
    <3>1. z \in Nat /\ spot[i] + (2 + Len(p) + Len(c)) <= z /\ z < Len(f) /\ \A j \in 5..z : f[j] = d[j]
      BY <1>5, <2>6
    <3> HIDE DEF z
    <3>2. spot[i] \in Nat /\ spot[i] >= 4 /\ p \in Seq(Char) /\ c \in Seq(Octet) /\ Lies(d, spot[i], u, p, c)
      BY <2>4, <2>6
    <3> QED BY <2>6, <3>1, <3>2, LiesKept
  <2> QED BY <2>3, <2>4, <2>5, <2>7 DEF LaidAt, Size
<1>10. LaidAt(f, all, place, L+1)
  <2> DEFINE o == D - 1
  <2>1. L+1 \in 1..L+1 /\ (L+1)+1 = L+2
    BY <1>1
  <2>2. place[L+1] = o /\ place[(L+1)+1] = n - 1 /\ 2 * (L+1) + 2 <= o
    BY <1>1, <1>7, <2>1
  <2>3. /\ o \in Nat /\ o+1 = D /\ o+2+Len(k) = D+1+Len(k) /\ n - 1 = o + (2 + Len(k) + Len(b))
        /\ \A i \in 1..Len(k) : o+1+i = D+i
        /\ \A i \in 1..Len(b) : o+2+Len(k)+i = D+1+Len(k)+i
    BY <1>1, <1>5 DEF n
  <2>4. o + (2 + Len(k) + Len(b)) < Len(f)
    BY <1>5, <1>6, <2>3
  <2> HIDE DEF o
  <2>5. f[o+1] = t /\ f[o+2+Len(k)] = 0
    BY <1>5, <2>3
  <2>6. /\ \A i \in 1..Len(k) : f[o+1+i] = k[i]
        /\ \A i \in 1..Len(b) : f[o+2+Len(k)+i] = b[i]
    BY <1>5, <2>3
  <2>7. Lies(f, o, t, k, b)
    BY <2>4, <2>5, <2>6 DEF Lies, Size
  <2>8. place[(L+1)+1] = o + Size(k, b)
    BY <2>2, <2>3 DEF Size
  <2>9. all[L+1].type = t /\ all[L+1].value = x /\ all[L+1].key = k /\ all[L+1].bytes = b
    BY <1>3 DEF t, x, k, b
  <2> QED BY <1>4, <2>2, <2>7, <2>8, <2>9 DEF LaidAt
<1>11. \A i \in 1..Len(all) : LaidAt(f, all, place, i)
  <2>1. \A i \in 1..Len(all) : i \in 1..L \/ i = L+1
    BY <1>1, <1>3
  <2> QED BY <1>9, <1>10, <2>1
<1>12. Laid(f, all, place)
  <2>1. Len(f) \in 5..MaxInt /\ Len(all) + 1 = L + 2 /\ f[Len(f)] = 0 /\ Read4(f, 0) = Len(f)
    <3>1. MaxInt \in Nat
      BY ZeroOctet
    <3>2. Len(f) \in 5..MaxInt /\ Len(all) + 1 = L + 2
      BY <1>1, <1>3, <1>6, <3>1
    <3>3. f[Len(f)] = 0 /\ Read4(f, 0) = Len(f)
      BY <1>5, <1>6
    <3> QED BY <3>2, <3>3
  <2>2. place \in [1..Len(all)+1 -> Nat] /\ place[Len(all)+1] = Len(f) - 1
    BY <1>5, <1>7, <2>1
  <2> QED BY <1>3, <1>5, <1>8, <1>11, <2>1, <2>2 DEF Laid, LaidAt
<1>13. Len(f) = D + Size(k, b)
  BY <1>5 DEF n, Size
<1> QED BY <1>7, <1>12, <1>13 DEF f, t, k, b, all, L, D

\* Bytes m to n of a sequence.
LEMMA Piece ==
  ASSUME NEW S, NEW d \in Seq(S), NEW m \in Nat, NEW n \in Nat, m + n <= Len(d)
  PROVE  /\ SubSeq(d, m + 1, m + n) \in Seq(S) /\ Len(SubSeq(d, m + 1, m + n)) = n
         /\ \A i \in 1..n : SubSeq(d, m + 1, m + n)[i] = d[m + i]
<1> DEFINE p == m + 1
           q == m + n
<1>1. Len(d) \in Nat
  BY LenProperties
<1>2. p \in Int /\ q \in Int /\ q - p + 1 = n /\ (p <= q <=> n > 0) /\ \A i \in 1..n : p + i - 1 = m + i
  OBVIOUS
<1>3. \A i \in p..q : d[i] \in S
  <2>1. \A i \in p..q : i \in 1..Len(d)
    BY <1>1
  <2> QED BY <2>1, ElementOfSeq
<1> HIDE DEF p, q
<1>4. /\ SubSeq(d, p, q) \in Seq(S)
      /\ Len(SubSeq(d, p, q)) = IF p <= q THEN q - p + 1 ELSE 0
      /\ \A i \in 1..q-p+1 : SubSeq(d, p, q)[i] = d[p+i-1]
  BY <1>2, <1>3, SubSeqProperties
<1>5. Len(SubSeq(d, p, q)) = n
  BY <1>2, <1>4
<1>6. \A i \in 1..n : SubSeq(d, p, q)[i] = d[m+i]
  BY <1>2, <1>4
<1> QED BY <1>4, <1>5, <1>6 DEF p, q

\* What bson_shrink_binary makes of document d, whose last content begins
\* behind the word at v: document f, with n bytes of it.
Shrunk(d, v, n, f) ==
  /\ f \in Seq(Octet) /\ Len(f) = v + 6 + n /\ Read4(f, 0) = Len(f) /\ f[Len(f)] = 0
  /\ \A i \in 5..v : f[i] = d[i]
  /\ \A i \in 1..4 : f[v+i] = Int4(n)[i]
  /\ \A i \in 5..5+n : f[v+i] = d[v+i]

\* Every byte of the document that bson_shrink_binary makes.
LEMMA ShrunkBytes ==
  ASSUME NEW d \in Seq(Octet), NEW v \in Nat, v >= 4, NEW n \in Nat, v + 6 + n <= Len(d), Len(d) <= MaxInt,
         NEW w, w = v + 6 + n
  PROVE  Shrunk(d, v, n, Int4(w) \o SubSeq(d, 5, v) \o Int4(n) \o SubSeq(d, v + 5, v + 5 + n) \o <<0>>)
<1> DEFINE h  == SubSeq(d, 5, v)
           c  == Int4(n)
           g  == SubSeq(d, v + 5, v + 5 + n)
           s0 == Int4(w) \o h
           s1 == s0 \o c
           s2 == s1 \o g
           s3 == s2 \o <<0>>
<1>1. Len(d) \in Nat /\ MaxInt \in Nat /\ 0 \in Octet
  BY LenProperties, ZeroOctet
<1>2. w \in Int32 /\ w \in Nat
  <2>1. w \in Nat /\ w \in Int /\ -MaxInt-1 <= w /\ w <= MaxInt
    BY <1>1
  <2> QED BY <2>1, Ranges
<1>3. h \in Seq(Octet) /\ Len(h) = v - 4 /\ \A i \in 1..v-4 : h[i] = d[4+i]
  <2> DEFINE m == v - 4
  <2>1. m \in Nat /\ 4 + m <= Len(d) /\ 4 + m = v
    BY <1>1
  <2> HIDE DEF m
  <2>2. /\ SubSeq(d, 4 + 1, 4 + m) \in Seq(Octet) /\ Len(SubSeq(d, 4 + 1, 4 + m)) = m
        /\ \A i \in 1..m : SubSeq(d, 4 + 1, 4 + m)[i] = d[4 + i]
    BY <2>1, Piece
  <2>3. h = SubSeq(d, 4 + 1, 4 + m)
    BY <2>1
  <2> QED BY <2>2, <2>3 DEF m
<1>4. g \in Seq(Octet) /\ Len(g) = n + 1 /\ \A i \in 1..n+1 : g[i] = d[v+4+i]
  <2> DEFINE m == v + 4
             p == n + 1
  <2>1. m \in Nat /\ p \in Nat /\ m + p <= Len(d) /\ m + 1 = v + 5 /\ m + p = v + 5 + n
    BY <1>1
  <2> HIDE DEF m, p
  <2>2. /\ SubSeq(d, m + 1, m + p) \in Seq(Octet) /\ Len(SubSeq(d, m + 1, m + p)) = p
        /\ \A i \in 1..p : SubSeq(d, m + 1, m + p)[i] = d[m + i]
    BY <2>1, Piece
  <2>3. g = SubSeq(d, m + 1, m + p)
    BY <2>1
  <2> QED BY <2>2, <2>3 DEF m, p
<1>5. c \in Seq(Octet) /\ Len(c) = 4
  <2>1. n \in Int /\ -MaxInt-1 <= n /\ n <= MaxInt
    BY <1>1
  <2>2. n \in Int32
    BY <2>1, Ranges
  <2>3. Int4(n) \in Seq(Octet) /\ Len(Int4(n)) = 4
    BY <2>2, NumberBytes
  <2> QED BY <2>3
<1> HIDE DEF h, c, g
<1>6. /\ s0 \in Seq(Octet) /\ Len(s0) = v /\ Read4(s0, 0) = w
      /\ \A i \in 1..v-4 : s0[4+i] = h[i]
  <2>1. /\ s0 \in Seq(Octet) /\ Len(s0) = 4 + Len(h) /\ Read4(s0, 0) = w
        /\ \A i \in 1..Len(h) : s0[4+i] = h[i]
    BY <1>2, <1>3, WordFirst
  <2> HIDE DEF s0
  <2> QED BY <1>3, <2>1
<1> HIDE DEF s0
<1>7. /\ s1 \in Seq(Octet) /\ Len(s1) = v + 4 /\ \A i \in 1..v : s1[i] = s0[i]
      /\ \A i \in 1..4 : s1[v+i] = c[i]
  <2>1. /\ s1 \in Seq(Octet) /\ Len(s1) = Len(s0) + Len(c) /\ \A i \in 1..Len(s0) : s1[i] = s0[i]
        /\ \A i \in 1..Len(c) : s1[Len(s0)+i] = c[i]
    <3>1. s0 \in Seq(Octet) /\ c \in Seq(Octet)
      BY <1>5, <1>6
    <3> QED BY <3>1, JoinBytes
  <2> HIDE DEF s1
  <2> QED BY <1>5, <1>6, <2>1
<1> HIDE DEF s1
<1>8. /\ s2 \in Seq(Octet) /\ Len(s2) = v + 5 + n /\ \A i \in 1..v+4 : s2[i] = s1[i]
      /\ \A i \in 1..n+1 : s2[v+4+i] = g[i]
  <2>1. /\ s2 \in Seq(Octet) /\ Len(s2) = Len(s1) + Len(g) /\ \A i \in 1..Len(s1) : s2[i] = s1[i]
        /\ \A i \in 1..Len(g) : s2[Len(s1)+i] = g[i]
    <3>1. s1 \in Seq(Octet) /\ g \in Seq(Octet)
      BY <1>4, <1>7
    <3> QED BY <3>1, JoinBytes
  <2> HIDE DEF s2
  <2> QED BY <1>4, <1>7, <2>1
<1> HIDE DEF s2
<1>9. /\ s3 \in Seq(Octet) /\ Len(s3) = v + 6 + n /\ s3[v+6+n] = 0
      /\ \A i \in 1..v+5+n : s3[i] = s2[i]
  <2>1. /\ s3 \in Seq(Octet) /\ Len(s3) = Len(s2) + 1 /\ s3[Len(s2)+1] = 0
        /\ \A i \in 1..Len(s2) : s3[i] = s2[i]
    <3>1. s2 \in Seq(Octet) /\ 0 \in Octet
      BY <1>1, <1>8
    <3> QED BY <3>1, JoinByte
  <2>2. Len(s2) + 1 = v + 6 + n
    BY <1>8
  <2> HIDE DEF s3
  <2> QED BY <1>8, <2>1, <2>2
<1> HIDE DEF s3
<1>10. Read4(s3, 0) = w
  <2>1. \A i \in 1..4 : i \in 1..v /\ i \in 1..v+4 /\ i \in 1..v+5+n /\ 0+i = i
    OBVIOUS
  <2>2. \A i \in 1..4 : s3[0+i] = s0[0+i]
    BY <1>7, <1>8, <1>9, <2>1
  <2> QED BY <1>6, <2>2, Read4Equal
<1>11. ASSUME NEW i \in 5..v PROVE s3[i] = d[i]
  <2> DEFINE j == i - 4
  <2>1. i \in 1..v /\ i \in 1..v+4 /\ i \in 1..v+5+n /\ j \in 1..v-4 /\ 4 + j = i
    OBVIOUS
  <2> HIDE DEF j
  <2>2. s3[i] = s2[i] /\ s2[i] = s1[i] /\ s1[i] = s0[i]
    BY <1>7, <1>8, <1>9, <2>1
  <2>3. s0[4+j] = h[j] /\ h[j] = d[4+j]
    BY <1>3, <1>6, <2>1
  <2> QED BY ONLY <2>1, <2>2, <2>3
<1>12. ASSUME NEW i \in 1..4 PROVE s3[v+i] = c[i]
  <2>1. v+i \in 1..v+4 /\ v+i \in 1..v+5+n
    OBVIOUS
  <2> QED BY <1>7, <1>8, <1>9, <2>1
<1>13. ASSUME NEW i \in 5..5+n PROVE s3[v+i] = d[v+i]
  <2> DEFINE j == i - 4
  <2>1. v+i \in 1..v+5+n /\ j \in 1..n+1 /\ v+4+j = v+i
    OBVIOUS
  <2> HIDE DEF j
  <2>2. s3[v+i] = s2[v+i]
    BY <1>9, <2>1
  <2>3. s2[v+4+j] = g[j] /\ g[j] = d[v+4+j]
    BY <1>4, <1>8, <2>1
  <2> QED BY ONLY <2>1, <2>2, <2>3
<1>14. Shrunk(d, v, n, s3)
  BY <1>9, <1>10, <1>11, <1>12, <1>13 DEF Shrunk, c
<1> QED BY <1>14 DEF s3, s2, s1, s0, h, g, c

\* The next element begins before the last one, or is it.
LEMMA OffsetsGrow ==
  ASSUME NEW d, NEW elements, NEW spot, Laid(d, elements, spot),
         NEW i \in 1..Len(elements), i # Len(elements)
  PROVE  spot[i+1] <= spot[Len(elements)]
<1> DEFINE L == Len(elements)
           T == {m \in Nat : i < m /\ m <= L /\ ~(spot[i+1] <= spot[m])}
<1>1. L \in Nat /\ i \in Nat /\ i < L /\ \A j \in 1..L+1 : spot[j] \in Nat
  BY LaidFacts
<1> HIDE DEF L
<1>2. T = {}
  <2> SUFFICES ASSUME T # {} PROVE FALSE
    OBVIOUS
  <2>1. \E m \in T : \A j \in T : ~(<<j, m>> \in OpToRel(<, Nat))
    BY WFMin, NatLessThanWellFounded
  <2>2. PICK m \in T : \A j \in T : ~(<<j, m>> \in OpToRel(<, Nat))
    BY <2>1
  <2>3. m \in Nat /\ i < m /\ m <= L /\ ~(spot[i+1] <= spot[m])
    BY <2>2
  <2>4. i+1 \in 1..L+1 /\ spot[i+1] \in Nat
    BY <1>1
  <2>5. m # i+1
    BY <2>3, <2>4
  <2> DEFINE h == m - 1
  <2>6. h \in Nat /\ i < h /\ h <= L /\ h < m /\ h \in 1..L /\ h + 1 = m
    BY <1>1, <2>3, <2>5
  <2> HIDE DEF h
  <2>7. h \notin T
    BY <2>2, <2>3, <2>6 DEF OpToRel
  <2>8. spot[i+1] <= spot[h]
    BY <2>6, <2>7
  <2>9. PICK t, x, k, b : ElementAt(d, elements, spot, h, t, x, k, b)
    BY <2>6, LaidElement DEF L
  <2>10. /\ spot[h] \in Nat /\ spot[h+1] = spot[h] + (2 + Len(k) + Len(b))
         /\ Len(k) \in Nat /\ Len(b) \in Nat
    BY <2>9 DEF ElementAt
  <2> QED BY <2>3, <2>4, <2>6, <2>8, <2>10
<1>3. L \notin T
  BY <1>2
<1> QED BY <1>1, <1>3 DEF L

\* The last element is a binary of more than n bytes, and f is the document with
\* n of them; and that f has the element with as many.
Shrinks(d, elements, spot, L, k, x, n, f) ==
  /\ Laid(d, elements, spot) /\ L = Len(elements) /\ L # 0
  /\ elements[L].type = 5 /\ elements[L].key = k /\ elements[L].value = x
  /\ n \in Nat /\ n < Len(x) /\ Shrunk(d, spot[L] + 2 + Len(k), n, f)

ShrunkLaid(elements, spot, L, k, x, n, f) ==
  \E place : /\ Laid(f, [elements EXCEPT ![L] = BinaryElement(k, SubSeq(x, 1, n))], place)
             /\ \A i \in 1..L : place[i] = spot[i]

\* The last binary is shorter, and all elements are where they were.
LEMMA ShrinkLaid ==
  ASSUME NEW d, NEW elements, NEW spot, NEW L, NEW k, NEW x, NEW n, NEW f,
         Shrinks(d, elements, spot, L, k, x, n, f)
  PROVE  ShrunkLaid(elements, spot, L, k, x, n, f)
<1> Laid(d, elements, spot)
  BY DEF Shrinks
<1> L = Len(elements) /\ L # 0
  BY DEF Shrinks
<1> elements[L].type = 5 /\ elements[L].key = k /\ elements[L].value = x
  BY DEF Shrinks
<1> n \in Nat /\ n < Len(x)
  BY DEF Shrinks
<1> Shrunk(d, spot[L] + 2 + Len(k), n, f)
  BY DEF Shrinks
<1> DEFINE o == spot[L]
           D == Len(d)
           v == o + 2 + Len(k)
           y == SubSeq(x, 1, n)
           c == Int4(n) \o <<0>> \o y
           e == BinaryElement(k, y)
           all == [elements EXCEPT ![L] = e]
           place == [i \in 1..L+1 |-> IF i = L+1 THEN v + 5 + n ELSE spot[i]]
<1>1. /\ d \in Seq(Octet) /\ D \in Nat /\ D >= 5 /\ D <= MaxInt /\ elements \in Seq(BsonElement) /\ L \in Nat
      /\ L \in 1..L /\ spot[1] = 4 /\ spot[L+1] = D - 1 /\ \A i \in 1..L+1 : spot[i] \in Nat
  BY LaidFacts
<1>2. PICK t, z, p, b : ElementAt(d, elements, spot, L, t, z, p, b)
  BY <1>1, LaidElement
<1>3. /\ k \in Seq(Char) /\ b \in Seq(Octet) /\ Valued(5, x, b) /\ Lies(d, o, 5, k, b)
      /\ o \in Nat /\ 2 * L + 2 <= o /\ D - 1 = o + (2 + Len(k) + Len(b))
      /\ Len(k) \in Nat /\ Len(b) \in Nat
  BY <1>1, <1>2 DEF ElementAt
<1>4. x \in Seq(Octet) /\ Len(x) <= MaxInt /\ b = Int4(Len(x)) \o <<0>> \o x
  <2>1. Valued(5, x, b)
    BY <1>3
  <2> QED BY <2>1, ValuedByType
<1>5. Len(b) = 5 + Len(x) /\ b[5] = 0 /\ (\A i \in 1..Len(x) : b[5+i] = x[i]) /\ Len(x) \in Nat
  BY <1>4, BinaryBytes, LenProperties
<1>6. y \in Seq(Octet) /\ Len(y) = n /\ \A i \in 1..n : y[i] = x[i]
  <2>1. 0 \in Nat /\ 0 + n <= Len(x) /\ 0 + 1 = 1 /\ 0 + n = n /\ \A i \in 1..n : 0 + i = i
    BY <1>5
  <2>2. /\ SubSeq(x, 0 + 1, 0 + n) \in Seq(Octet) /\ Len(SubSeq(x, 0 + 1, 0 + n)) = n
        /\ \A i \in 1..n : SubSeq(x, 0 + 1, 0 + n)[i] = x[0 + i]
    BY <1>4, <2>1, Piece
  <2> QED BY <2>1, <2>2
<1> HIDE DEF y
<1>7. n <= MaxInt
  BY <1>4, <1>5, ZeroOctet
<1>8. /\ c \in Seq(Octet) /\ Len(c) = 5 + n /\ c[5] = 0
      /\ (\A i \in 1..4 : c[i] = Int4(n)[i]) /\ \A i \in 1..n : c[5+i] = y[i]
  BY <1>6, <1>7, BinaryBytes
<1>9. Valued(5, y, c)
  BY <1>6, <1>7 DEF Valued
<1>10. e.type = 5 /\ e.key = k /\ e.value = y /\ e.bytes = c /\ e \in BsonElement
  <2>1. e = [type |-> 5, key |-> k, value |-> y, bytes |-> c]
    BY <1>6 DEF BinaryElement, Element
  <2> HIDE DEF c, e
  <2>2. y \in BsonValue /\ 5 \in 1..19
    BY <1>6 DEF BsonValue
  <2> QED BY <1>3, <1>6, <1>8, <2>1, <2>2 DEF BsonElement
<1> HIDE DEF c, e
<1>11. /\ all \in Seq(BsonElement) /\ Len(all) = L /\ all[L] = e
       /\ \A i \in 1..L : i # L => all[i] = elements[i]
  BY <1>1, <1>10, ExceptSeq
<1> HIDE DEF all
<1>12. v \in Nat /\ v + 5 + Len(x) = D - 1 /\ v >= 4 /\ o >= 4 /\ v + 6 + n <= D
  <2>1. o \in Nat /\ Len(k) \in Nat /\ Len(x) \in Nat /\ D \in Nat /\ D - 1 = o + (2 + Len(k) + (5 + Len(x)))
          /\ 2 * L + 2 <= o /\ L \in Nat /\ L >= 1
    BY <1>1, <1>3, <1>5
  <2> HIDE DEF o, D
  <2> QED BY <2>1
<1>13. /\ f \in Seq(Octet) /\ Len(f) = v + 6 + n /\ Read4(f, 0) = Len(f) /\ f[Len(f)] = 0
       /\ \A i \in 5..v : f[i] = d[i]
       /\ \A i \in 1..4 : f[v+i] = Int4(n)[i]
       /\ \A i \in 5..5+n : f[v+i] = d[v+i]
  <2>1. Shrunk(d, v, n, f)
    OBVIOUS
  <2> QED BY <2>1 DEF Shrunk
<1>14. /\ d[o+1] = 5 /\ d[v] = 0 /\ \A i \in 1..Len(k) : d[o+1+i] = k[i]
       /\ \A i \in 1..Len(b) : d[v+i] = b[i]
  BY <1>3 DEF Lies
<1>15. /\ v = o + 2 + Len(k) /\ o \in Nat /\ Len(k) \in Nat /\ Len(c) = 5 + n /\ Len(f) = v + 6 + n
       /\ Len(b) = 5 + Len(x)
  BY <1>3, <1>5, <1>8, <1>13
<1> HIDE DEF o, v, D
<1>16. place \in [1..L+1 -> Nat] /\ place[L+1] = v + 5 + n /\ \A i \in 1..L : place[i] = spot[i]
  <2>1. L+1 \in 1..L+1 /\ v + 5 + n \in Nat /\ \A i \in 1..L : i \in 1..L+1 /\ i # L+1
    BY <1>1, <1>12
  <2> DEFINE behind == v + 5 + n
  <2> HIDE DEF behind
  <2>2. place = [i \in 1..L+1 |-> IF i = L+1 THEN behind ELSE spot[i]] /\ behind \in Nat
    BY <2>1 DEF behind
  <2> HIDE DEF place
  <2>3. place \in [1..L+1 -> Nat] /\ place[L+1] = behind /\ \A i \in 1..L : place[i] = spot[i]
    BY <1>1, <2>1, <2>2
  <2> QED BY <2>3 DEF behind
<1> HIDE DEF place
<1>17. LaidAt(f, all, place, L)
  <2>1. o + 1 \in 5..v /\ v \in 5..v /\ (\A i \in 1..Len(k) : o+1+i \in 5..v) /\ o + (2 + Len(k) + Len(c)) = v + 5 + n
          /\ v + 5 + n < Len(f)
    <3>1. v \in Nat /\ v >= 4 /\ o >= 4 /\ v = o + 2 + Len(k) /\ o \in Nat /\ Len(k) \in Nat
            /\ Len(c) = 5 + n /\ Len(f) = v + 6 + n /\ n \in Nat
      BY <1>12, <1>15
    <3> HIDE DEF v, o, c
    <3>2. o + 1 \in 5..v /\ v \in 5..v
      BY <3>1
    <3>3. \A i \in 1..Len(k) : o+1+i \in 5..v
      BY <3>1
    <3>4. o + (2 + Len(k) + Len(c)) = v + 5 + n /\ v + 5 + n < Len(f)
      BY <3>1
    <3> QED BY <3>2, <3>3, <3>4
  <2>2. f[o+1] = 5 /\ f[v] = 0 /\ \A i \in 1..Len(k) : f[o+1+i] = k[i]
    BY <1>13, <1>14, <2>1
  <2>3. ASSUME NEW i \in 1..Len(c) PROVE f[v+i] = c[i]
    <3>1. CASE i \in 1..4
      BY <1>8, <1>13, <3>1
    <3>2. CASE i = 5
      <4>1. 5 \in 5..5+n /\ 5 \in 1..Len(b)
        BY <1>5
      <4>2. f[v+5] = d[v+5] /\ d[v+5] = b[5]
        BY <1>13, <1>14, <4>1
      <4> QED BY <1>5, <1>8, <3>2, <4>2
    <3>3. CASE i \in 6..5+n
      <4> DEFINE j == i - 5
      <4>1. i \in 5..5+n /\ i \in 1..Len(b) /\ j \in 1..n /\ j \in 1..Len(x) /\ 5 + j = i
        BY <1>5, <3>3
      <4> HIDE DEF j
      <4>2. c[i] = x[j] /\ b[i] = x[j]
        BY <1>5, <1>6, <1>8, <4>1
      <4> QED BY <1>13, <1>14, <4>1, <4>2
    <3>4. i \in 1..4 \/ i = 5 \/ i \in 6..5+n
      BY <1>8
    <3> QED BY <3>1, <3>2, <3>3, <3>4
  <2>4. Lies(f, o, 5, k, c)
    <3>1. o + (2 + Len(k) + Len(c)) < Len(f) /\ f[o + 2 + Len(k)] = 0
            /\ \A i \in 1..Len(c) : f[o + 2 + Len(k) + i] = c[i]
      BY <1>15, <2>1, <2>2, <2>3
    <3> QED BY <2>2, <3>1 DEF Lies, Size
  <2>5. place[L] = o /\ place[L+1] = o + Size(k, c)
    <3>1. place[L] = spot[L]
      BY <1>1, <1>16
    <3> QED BY <1>16, <2>1, <3>1 DEF Size, o
  <2>6. all[L].type = 5 /\ all[L].value = y /\ all[L].key = k /\ all[L].bytes = c
    BY <1>10, <1>11
  <2> QED BY <1>3, <1>9, <2>4, <2>5, <2>6 DEF LaidAt
<1>18. ASSUME NEW i \in 1..L, i # L PROVE LaidAt(f, all, place, i)
  <2>1. PICK u, g, q, h : ElementAt(d, elements, spot, i, u, g, q, h)
    BY LaidElement
  <2>2. i+1 \in 1..L
    BY <1>1, <1>18
  <2>3. place[i] = spot[i] /\ place[i+1] = spot[i+1] /\ all[i] = elements[i]
    BY <1>11, <1>16, <1>18, <2>2
  <2>4. /\ q \in Seq(Char) /\ h \in Seq(Octet) /\ Valued(u, g, h) /\ Lies(d, spot[i], u, q, h)
        /\ spot[i] \in Nat /\ 2 * i + 2 <= spot[i] /\ spot[i+1] = spot[i] + (2 + Len(q) + Len(h))
        /\ Len(q) \in Nat /\ Len(h) \in Nat
    BY <2>1 DEF ElementAt
  <2>5. elements[i].type = u /\ elements[i].value = g /\ elements[i].key = q /\ elements[i].bytes = h
    BY <2>1 DEF ElementAt
  <2>6. spot[i+1] <= o
    <3>1. i \in 1..Len(elements) /\ i # Len(elements)
      BY <1>18
    <3> QED BY <3>1, OffsetsGrow DEF o
  <2>7. /\ spot[i] >= 4 /\ spot[i] + (2 + Len(q) + Len(h)) <= v /\ v < Len(f) /\ Len(f) \in Nat
    <3>1. /\ spot[i] \in Nat /\ i \in Nat /\ i >= 1 /\ 2 * i + 2 <= spot[i] /\ Len(q) \in Nat /\ Len(h) \in Nat
          /\ spot[i+1] = spot[i] + (2 + Len(q) + Len(h)) /\ spot[i+1] <= o /\ o \in Nat
      BY <1>15, <2>4, <2>6
    <3>2. o <= v /\ v < Len(f) /\ Len(f) \in Nat /\ v \in Nat
      <4>1. v \in Nat /\ v = o + 2 + Len(k) /\ o \in Nat /\ Len(k) \in Nat /\ Len(f) = v + 6 + n /\ n \in Nat
        BY <1>12, <1>15
      <4> HIDE DEF v, o
      <4> QED BY <4>1
    <3> HIDE DEF v, o
    <3> QED BY <3>1, <3>2, SMTT(30)
  <2>8. Lies(f, spot[i], u, q, h)
    <3>1. \A j \in 5..v : f[j] = d[j]
      BY <1>13
    <3> HIDE DEF v
    <3> QED BY <1>12, <2>4, <2>7, <3>1, LiesKept
  <2> QED BY <2>3, <2>4, <2>5, <2>8 DEF LaidAt, Size
<1>19. \A i \in 1..Len(all) : LaidAt(f, all, place, i)
  BY <1>11, <1>17, <1>18
<1>20. Laid(f, all, place)
  <2>1. Len(f) \in 5..MaxInt /\ place[1] = 4 /\ place[Len(all)+1] = Len(f) - 1
    <3>1. MaxInt \in Nat
      BY ZeroOctet
    <3>2. Len(f) \in 5..MaxInt /\ v + 5 + n = Len(f) - 1
      BY <1>1, <1>12, <1>15, <3>1
    <3>3. 1 \in 1..L
      BY <1>1
    <3> QED BY <1>1, <1>11, <1>16, <3>2, <3>3
  <2> QED BY <1>11, <1>13, <1>16, <1>19, <2>1 DEF Laid, LaidAt
<1> QED BY <1>16, <1>20 DEF all, e, y, ShrunkLaid

-----------------------------------------------------------------------------
\* The buffer of shrink_binary is the content of one of the binaries.
BufferAt(spot) ==
  \/ buf = -1
  \/ \E i \in 1..Len(put) : put[i].type = 5 /\ buf = spot[i] + 2 + Len(put[i].key) + 5

\* Both documents are laid out as their elements say, in measured memory.
DocumentsLaid ==
  /\ \E spot : Laid(doc, put, spot) /\ BufferAt(spot)
  /\ \E spot : Laid(other, given, spot)
  /\ room \in Nat /\ Len(doc) <= room /\ room <= MaxRoom

\* A document fits a 32-bit length.
LEMMA RoomFits == MaxRoom \in Nat /\ 5 <= MaxRoom /\ MaxRoom <= MaxInt
<1>1. MaxRoom \in 5..MaxInt /\ MaxInt \in Nat
  BY BsonAssumption, ZeroOctet
<1> QED BY <1>1

\* Every bson_set_* keeps the invariant.
LEMMA SetKeeps ==
  ASSUME DocumentsLaid, NEW e \in BsonElement, Valued(e.type, e.value, e.bytes), Set(e, Size(e.key, e.bytes)),
         \/ buf' = buf
         \/ e.type = 5 /\ buf' = Len(doc) + 1 + Len(e.key) + 5
  PROVE  DocumentsLaid'
<1> DEFINE k == e.key
           z == Size(k, e.bytes)
           L == Len(put)
           D == Len(doc)
           f == Appended(doc, e.type, k, e.bytes)
<1>1. PICK spot : Laid(doc, put, spot) /\ BufferAt(spot)
  BY DEF DocumentsLaid
<1>2. /\ doc' = f /\ put' = Append(put, e) /\ room' = room + z /\ room + z <= MaxRoom
      /\ other' = other /\ given' = given
  BY DEF Set
<1>3. z \in Nat /\ Len(k) \in Nat
  <2>1. e.key \in Seq(Char) /\ e.bytes \in Seq(Octet)
    BY ElementParts
  <2> DEFINE b == e.bytes
  <2>2. Len(k) \in Nat /\ Len(b) \in Nat /\ z = 2 + Len(k) + Len(b)
    BY <2>1, LenProperties DEF Size
  <2> HIDE DEF k, b, z
  <2> QED BY <2>2
<1>4. D \in Nat /\ L \in Nat /\ put \in Seq(BsonElement) /\ spot[L+1] = D - 1
  BY <1>1, LaidFacts
<1>5. room \in Nat /\ D <= room
  BY DEF DocumentsLaid
<1>6. D + z <= MaxInt /\ room' \in Nat /\ room' <= MaxRoom
  <2>1. MaxRoom \in Nat /\ MaxRoom <= MaxInt /\ MaxInt \in Nat
    BY RoomFits, ZeroOctet
  <2> HIDE DEF D, z
  <2> QED BY <1>2, <1>3, <1>4, <1>5, <2>1
<1>7. Len(f) = D + z /\ \E place : /\ Laid(f, Append(put, e), place)
                                   /\ \A i \in 1..L+1 : place[i] = spot[i]
  <2>1. Laid(doc, put, spot) /\ e \in BsonElement /\ Valued(e.type, e.value, e.bytes)
          /\ Len(doc) + Size(e.key, e.bytes) <= MaxInt
    BY <1>1, <1>6
  <2> QED BY <2>1, AppendLaid
<1>8. PICK place : Laid(doc', put', place) /\ \A i \in 1..L+1 : place[i] = spot[i]
  BY <1>2, <1>7
<1>9. Len(doc') = D + z /\ Len(doc') <= room'
  <2>1. Len(doc') = D + z
    BY <1>2, <1>7
  <2> HIDE DEF D, z
  <2> QED BY <1>2, <1>3, <1>4, <1>5, <2>1
<1>10. Len(put') = L + 1 /\ put'[L+1] = e /\ \A i \in 1..L : put'[i] = put[i]
  BY <1>2, <1>4, AppendProperties
<1>11. BufferAt(place)'
  <2>1. CASE buf = -1 /\ buf' = buf
    BY <2>1 DEF BufferAt
  <2>2. CASE buf # -1 /\ buf' = buf
    <3>1. PICK i \in 1..L : put[i].type = 5 /\ buf = spot[i] + 2 + Len(put[i].key) + 5
      BY <1>1, <2>2 DEF BufferAt
    <3>2. i \in 1..L+1
      BY <1>4
    <3>3. put'[i] = put[i] /\ place[i] = spot[i] /\ i \in 1..Len(put')
      BY <1>8, <1>10, <3>2
    <3>4. i \in 1..Len(put') /\ put'[i].type = 5 /\ buf' = place[i] + 2 + Len(put'[i].key) + 5
      BY <2>2, <3>1, <3>3
    <3> QED BY <3>4 DEF BufferAt
  <2>3. CASE e.type = 5 /\ buf' = D + 1 + Len(k) + 5
    <3>1. L+1 \in 1..L+1
      BY <1>4
    <3> DEFINE i == L + 1
    <3>2. place[i] = D - 1 /\ put'[i].key = k /\ put'[i].type = 5 /\ i \in 1..Len(put')
      BY <1>4, <1>8, <1>10, <2>3, <3>1
    <3> HIDE DEF i
    <3>3. buf' = place[i] + 2 + Len(k) + 5
      <4> HIDE DEF D, k
      <4> QED BY <1>3, <1>4, <2>3, <3>2
    <3>4. i \in 1..Len(put') /\ put'[i].type = 5 /\ buf' = place[i] + 2 + Len(put'[i].key) + 5
      BY <3>2, <3>3
    <3> QED BY <3>4 DEF BufferAt
  <2> QED BY <2>1, <2>2, <2>3
<1>12. \E s : Laid(other', given', s)
  BY <1>2 DEF DocumentsLaid
<1>13. \E s : Laid(doc', put', s) /\ BufferAt(s)'
  BY <1>8, <1>11
<1> QED BY <1>6, <1>9, <1>12, <1>13 DEF DocumentsLaid

\* bson_empty_document is a document without elements.
LEMMA EmptyLaid == Len(EmptyDocument) = 5 /\ \E spot : Laid(EmptyDocument, <<>>, spot)
<1> DEFINE d == EmptyDocument
           spot == [i \in 1..1 |-> 4]
<1>1. 0 \in Octet /\ 5 \in Int32 /\ MaxInt \in Nat /\ 5 <= MaxInt
  BY ZeroOctet, Ranges, RoomFits
<1>2. Int4(5) \in Seq(Octet) /\ Len(Int4(5)) = 4
  BY Int4Facts
<1>3. /\ d \in Seq(Octet) /\ Len(d) = 4 + 1
      /\ \A i \in 1..4 : d[i] = Int4(5)[i]
      /\ d[4 + 1] = 0
  <2> DEFINE w == Int4(5)
  <2>1. w \in Seq(Octet) /\ Len(w) = 4
    BY <1>2
  <2>2. d = w \o <<0>>
    BY DEF EmptyDocument
  <2> HIDE DEF w, d
  <2>3. /\ w \o <<0>> \in Seq(Octet) /\ Len(w \o <<0>>) = Len(w) + 1
        /\ (\A i \in 1..Len(w) : (w \o <<0>>)[i] = w[i])
        /\ (w \o <<0>>)[Len(w) + 1] = 0
    BY <1>1, <2>1, JoinByte, ZenonT(30)
  <2>4. d \in Seq(Octet) /\ Len(d) = 4 + 1 /\ (\A i \in 1..4 : d[i] = w[i]) /\ d[4 + 1] = 0
    BY <2>1, <2>2, <2>3
  <2> QED BY <2>4 DEF w
<1> HIDE DEF d
<1>4. Read4(d, 0) = 5
  <2>1. Int4(5)[0+1] = Int4(5)[1] /\ Int4(5)[0+2] = Int4(5)[2] /\ Int4(5)[0+3] = Int4(5)[3] /\ Int4(5)[0+4] = Int4(5)[4]
    OBVIOUS
  <2>2. Read4(Int4(5), 0) = 5
    BY <1>1, NumberBytes
  <2>3. \A i \in 1..4 : d[0+i] = Int4(5)[0+i]
    BY <1>3
  <2>4. Read4(d, 0) = Read4(Int4(5), 0)
    BY <2>3, Read4Equal
  <2> QED BY <2>2, <2>4
<1>5. Len(d) = 5 /\ Len(d) \in 5..MaxInt /\ d[Len(d)] = 0
  BY <1>1, <1>3
<1>6. /\ Len(<<>>) = 0 /\ <<>> \in Seq(BsonElement)
      /\ spot \in [1..1 -> Nat] /\ spot[1] = 4 /\ 0 + 1 = 1
      /\ \A i \in 1..0 : FALSE
  OBVIOUS
<1>7. Laid(d, <<>>, spot)
  BY <1>3, <1>4, <1>5, <1>6 DEF Laid, LaidAt
<1> QED BY <1>5, <1>7 DEF d

\* A new document keeps it.
LEMMA NewKeeps ==
  ASSUME NewDocument, \E spot : Laid(other', given', spot)
  PROVE  DocumentsLaid'
<1>1. PICK spot : Laid(doc', put', spot) /\ Len(doc') = 5
  BY EmptyLaid DEF NewDocument
<1>2. BufferAt(spot)'
  BY DEF NewDocument, BufferAt
<1>3. room' \in Nat /\ Len(doc') <= room' /\ room' <= MaxRoom
  BY <1>1, RoomFits DEF NewDocument
<1> QED BY <1>1, <1>2, <1>3 DEF DocumentsLaid

\* The invariant holds at the start.
LEMMA BsonStart == BsonInit => DocumentsLaid
<1> SUFFICES ASSUME BsonInit PROVE DocumentsLaid
  OBVIOUS
<1>1. PICK spot : Laid(doc, put, spot) /\ Len(doc) = 5
  BY EmptyLaid DEF BsonInit
<1>2. BufferAt(spot)
  BY DEF BsonInit, BufferAt
<1>3. room \in Nat /\ Len(doc) <= room /\ room <= MaxRoom
  BY <1>1, RoomFits DEF BsonInit
<1>4. \E s : Laid(other, given, s)
  BY EmptyLaid DEF BsonInit
<1> QED BY <1>1, <1>2, <1>3, <1>4 DEF DocumentsLaid

\* What values there are.
LEMMA BsonValues == Seq(Octet) \subseteq BsonValue /\ Int \subseteq BsonValue /\ BOOLEAN \subseteq BsonValue
BY DEF BsonValue

\* An element that one of the firmware's functions makes.
LEMMA ElementWritten ==
  ASSUME NEW t, t \in 1..19, NEW k \in Seq(Char), NEW x, x \in BsonValue, NEW b \in Seq(Octet)
  PROVE  LET e == Element(t, k, x, b)
         IN  e \in BsonElement /\ e.type = t /\ e.key = k /\ e.value = x /\ e.bytes = b
BY DEF Element, BsonElement

\* bson_set_string: its length fits, as the memory was measured.
LEMMA SetStringKeeps ==
  ASSUME DocumentsLaid, NEW k \in Key, NEW t \in Text, set_string(k, t)
  PROVE  DocumentsLaid'
<1> DEFINE b == Int4(Len(t) + 1) \o t \o <<0>>
           e == Element(2, k, t, b)
           z == 1 + (Len(k) + 1) + 4 + (Len(t) + 1)
<1>1. k \in Seq(Char) /\ t \in Seq(Char)
  BY BsonAssumption
<1>2. Set(e, z) /\ buf' = buf
  BY DEF set_string
<1> HIDE DEF z, b
<1>3. Len(k) \in Nat /\ Len(t) \in Nat /\ z = 1 + (Len(k) + 1) + 4 + (Len(t) + 1)
  BY <1>1, LenProperties DEF z
<1>4. Len(t) < MaxInt
  <2>1. room + z <= MaxRoom /\ room \in Nat /\ MaxRoom \in Nat /\ MaxRoom <= MaxInt /\ MaxInt \in Nat
    BY <1>2, RoomFits, ZeroOctet DEF Set, DocumentsLaid
  <2> QED BY <1>3, <2>1
<1>5. b \in Seq(Octet) /\ Len(b) = 4 + Len(t) + 1
  BY <1>1, <1>4, StringBytes DEF b
<1>6. t \in Seq(Octet)
  BY <1>1, TextBytes
<1>7. e \in BsonElement /\ e.type = 2 /\ e.key = k /\ e.value = t /\ e.bytes = b
  <2>1. t \in BsonValue /\ 2 \in 1..19
    BY <1>6, BsonValues
  <2> QED BY <1>1, <1>5, <2>1, ElementWritten
<1> HIDE DEF e
<1>8. z = Size(e.key, e.bytes)
  <2>1. z = 2 + Len(k) + Len(b)
    BY <1>3, <1>5
  <2> QED BY <1>7, <2>1 DEF Size
<1>9. Valued(e.type, e.value, e.bytes)
  BY <1>1, <1>4, <1>7 DEF Valued, b
<1>10. e \in BsonElement /\ Valued(e.type, e.value, e.bytes) /\ Set(e, Size(e.key, e.bytes)) /\ buf' = buf
  BY <1>2, <1>7, <1>8, <1>9
<1> QED BY <1>10, SetKeeps

\* The setters that go through set_subelement.
LEMMA SetSubKeeps ==
  ASSUME DocumentsLaid, NEW e \in BsonElement, Valued(e.type, e.value, e.bytes), SetSub(e)
  PROVE  DocumentsLaid'
<1> DEFINE k == e.key
           b == e.bytes
           z == 1 + (Len(k) + 1) + Len(b)
<1>1. Set(e, z) /\ buf' = buf
  BY DEF SetSub
<1>2. k \in Seq(Char) /\ b \in Seq(Octet)
  BY ElementParts
<1>3. z = Size(e.key, e.bytes)
  <2>1. Len(k) \in Nat /\ Len(b) \in Nat
    BY <1>2, LenProperties
  <2>2. Size(k, b) = 2 + Len(k) + Len(b) /\ z = 1 + (Len(k) + 1) + Len(b)
    BY DEF Size
  <2> HIDE DEF k, b, z
  <2>3. z = Size(k, b)
    BY <2>1, <2>2
  <2> QED BY <2>3 DEF k, b
<1>4. Set(e, Size(e.key, e.bytes)) /\ buf' = buf
  BY <1>1, <1>3
<1> QED BY <1>4, SetKeeps

\* bson_set_boolean, bson_set_int32 and bson_set_null.
LEMMA SetSmallKeeps ==
  ASSUME DocumentsLaid, NEW k \in Key,
         \/ \E b \in BOOLEAN : set_boolean(k, b)
         \/ \E n \in Number : set_int32(k, n)
         \/ set_null(k)
  PROVE  DocumentsLaid'
<1>1. k \in Seq(Char)
  BY BsonAssumption
<1>2. ASSUME NEW b \in BOOLEAN, set_boolean(k, b) PROVE DocumentsLaid'
  <2> DEFINE c == <<IF b THEN 1 ELSE 0>>
             e == Element(8, k, b, c)
  <2>1. c \in Seq(Octet)
    <3>1. \A i \in {0, 1} : i \in Octet
      BY Ranges
    <3>2. (IF b THEN 1 ELSE 0) \in Octet
      BY <3>1
    <3> QED BY <3>2
  <2> HIDE DEF c
  <2>2. e \in BsonElement /\ e.type = 8 /\ e.key = k /\ e.value = b /\ e.bytes = c
    <3>1. b \in BsonValue /\ 8 \in 1..19
      BY <1>2, BsonValues
    <3> QED BY <1>1, <2>1, <3>1, ElementWritten
  <2>3. SetSub(e)
    BY <1>2 DEF set_boolean, c
  <2> HIDE DEF e
  <2>4. Valued(e.type, e.value, e.bytes)
    BY <2>2 DEF Valued, c
  <2> QED BY <2>2, <2>3, <2>4, SetSubKeeps
<1>3. ASSUME NEW n \in Number, set_int32(k, n) PROVE DocumentsLaid'
  <2> DEFINE e == Element(16, k, n, Int4(n))
  <2>1. n \in Int32 /\ n \in Int
    BY BsonAssumption, Ranges
  <2>2. Int4(n) \in Seq(Octet) /\ 16 \in 1..19 /\ n \in BsonValue
    <3>1. Int4(n) \in Seq(Octet)
      BY <2>1, NumberBytes
    <3>2. n \in BsonValue
      BY <2>1, BsonValues
    <3> QED BY <3>1, <3>2
  <2>3. e \in BsonElement /\ e.type = 16 /\ e.key = k /\ e.value = n /\ e.bytes = Int4(n)
    BY <1>1, <2>1, <2>2, ElementWritten
  <2>4. SetSub(e)
    BY <1>3 DEF set_int32
  <2> HIDE DEF e
  <2>5. Valued(e.type, e.value, e.bytes)
    BY <2>1, <2>3 DEF Valued
  <2> QED BY <2>3, <2>4, <2>5, SetSubKeeps
<1>4. ASSUME set_null(k) PROVE DocumentsLaid'
  <2> DEFINE c == <<>>
             e == Element(10, k, c, c)
  <2>1. c \in Seq(Octet) /\ 10 \in 1..19
    OBVIOUS
  <2> HIDE DEF c
  <2>2. c \in BsonValue
    BY <2>1, BsonValues
  <2>3. e \in BsonElement /\ e.type = 10 /\ e.key = k /\ e.value = c /\ e.bytes = c
    BY <1>1, <2>1, <2>2, ElementWritten
  <2>4. SetSub(e)
    BY <1>4 DEF set_null, c
  <2> HIDE DEF e
  <2>5. Valued(e.type, e.value, e.bytes)
    BY <2>3 DEF Valued, c
  <2> QED BY <2>3, <2>4, <2>5, SetSubKeeps
<1> QED BY <1>2, <1>3, <1>4

\* bson_set_subdocument and bson_set_array: the other document, whole.
LEMMA SetSubdocumentKeeps ==
  ASSUME DocumentsLaid, NEW k \in Key, NEW type \in {3, 4}, set_subdocument(k, type)
  PROVE  DocumentsLaid'
<1> DEFINE b == SubSeq(other, 1, Read4(other, 0))
           e == Element(type, k, other, b)
<1>1. k \in Seq(Char) /\ type \in 1..19
  BY BsonAssumption
<1>2. other \in Seq(Octet) /\ Len(other) >= 5 /\ Read4(other, 0) = Len(other)
  BY LaidFacts DEF DocumentsLaid
<1>3. b = other
  <2>1. SubSeq(other, 1, Len(other)) = other
    BY <1>2
  <2> QED BY <1>2, <2>1
<1>4. SetSub(e)
  BY DEF set_subdocument
<1> HIDE DEF b
<1>5. e \in BsonElement /\ e.type = type /\ e.key = k /\ e.value = other /\ e.bytes = other
  <2>1. other \in BsonValue
    BY <1>2, BsonValues
  <2> QED BY <1>1, <1>2, <1>3, <2>1, ElementWritten
<1> HIDE DEF e
<1>6. Valued(e.type, e.value, e.bytes)
  BY <1>2, <1>5 DEF Valued
<1> QED BY <1>4, <1>5, <1>6, SetSubKeeps

\* bson_set_binary_generic, and the buffer it returns.
LEMMA SetBinaryKeeps ==
  ASSUME DocumentsLaid, NEW k \in Key, NEW x \in Binary, set_binary(k, x)
  PROVE  DocumentsLaid'
<1> DEFINE b == Int4(Len(x)) \o <<0>> \o x
           e == Element(5, k, x, b)
           z == 1 + (Len(k) + 1) + 4 + 1 + Len(x)
           v == Read4(doc, 0) - 1 + 1 + (Len(k) + 1) + 4 + 1
<1>1. k \in Seq(Char) /\ x \in Seq(Octet)
  BY BsonAssumption
<1>2. Set(e, z) /\ buf' = v
  BY DEF set_binary, BinaryElement
<1> HIDE DEF z, b
<1>3. Len(k) \in Nat /\ Len(x) \in Nat /\ z = 1 + (Len(k) + 1) + 4 + 1 + Len(x)
  BY <1>1, LenProperties DEF z
<1>4. Len(x) <= MaxInt
  <2>1. room + z <= MaxRoom /\ room \in Nat /\ MaxRoom \in Nat /\ MaxRoom <= MaxInt /\ MaxInt \in Nat
    BY <1>2, RoomFits, ZeroOctet DEF Set, DocumentsLaid
  <2> QED BY <1>3, <2>1
<1>5. b \in Seq(Octet) /\ Len(b) = 5 + Len(x)
  BY <1>1, <1>4, BinaryBytes DEF b
<1>6. e \in BsonElement /\ e.type = 5 /\ e.key = k /\ e.value = x /\ e.bytes = b
  <2>1. x \in BsonValue /\ 5 \in 1..19
    BY <1>1, BsonValues
  <2> QED BY <1>1, <1>5, <2>1, ElementWritten
<1> HIDE DEF e
<1>7. z = Size(e.key, e.bytes)
  <2>1. z = 2 + Len(k) + Len(b)
    BY <1>3, <1>5
  <2> QED BY <1>6, <2>1 DEF Size
<1>8. Valued(e.type, e.value, e.bytes)
  BY <1>1, <1>4, <1>6 DEF Valued, b
<1>9. buf' = Len(doc) + 1 + Len(e.key) + 5
  <2>1. Read4(doc, 0) = Len(doc) /\ Len(doc) \in Nat
    BY LaidFacts DEF DocumentsLaid
  <2>2. v = Len(doc) + 1 + Len(k) + 5
    BY <1>3, <2>1
  <2> QED BY <1>2, <1>6, <2>2
<1>10. /\ e \in BsonElement /\ Valued(e.type, e.value, e.bytes) /\ Set(e, Size(e.key, e.bytes))
       /\ e.type = 5 /\ buf' = Len(doc) + 1 + Len(e.key) + 5
  BY <1>2, <1>6, <1>7, <1>8, <1>9
<1> QED BY <1>10, SetKeeps

\* The element that bson_set_element copies is the first of its name.
LEMMA SetElementKeeps ==
  ASSUME DocumentsLaid, NEW k \in Key, NEW from \in Key, set_element(k, from)
  PROVE  DocumentsLaid'
<1> DEFINE o     == Props(other, {from})[from]
           type  == other[o+1]
           v     == ValueAt(other, o)
           size  == MeasureValue(other, type, v)
           c     == SubSeq(other \o Behind, v + 1, v + size)
           e     == Element(type, k, Original(from), c)
           z     == 1 + (Len(k) + 1) + size
<1>1. PICK spot : Laid(other, given, spot)
  BY DEF DocumentsLaid
<1>2. o >= 4 /\ size >= 0 /\ Set(e, z) /\ buf' = buf
  BY DEF set_element
<1>3. k \in Seq(Char)
  BY BsonAssumption
<1>4. /\ other \in Seq(Octet) /\ Len(other) \in Nat /\ Len(given) \in Nat /\ DOMAIN given = 1..Len(given)
      /\ given \in Seq(BsonElement)
  BY <1>1, LaidFacts
<1>5. Found(given, spot, from, Len(given), o)
  BY <1>1, PropsFind
<1> HIDE DEF o
<1>6. PICK i \in 1..Len(given) : given[i].key = from /\ o = spot[i] /\ \A j \in 1..i-1 : given[j].key # from
  BY <1>2, <1>5 DEF Found
<1>7. Original(from) = given[i].value
  <2> DEFINE first == {j \in DOMAIN given : given[j].key = from /\ \A h \in 1..j-1 : given[h].key # from}
  <2>1. i \in first
    BY <1>4, <1>6
  <2>2. ASSUME NEW j \in first PROVE j = i
    <3>1. j \in 1..Len(given) /\ given[j].key = from /\ \A h \in 1..j-1 : given[h].key # from
      BY <1>4
    <3>2. ~(j < i)
      <4> SUFFICES ASSUME j < i PROVE FALSE
        OBVIOUS
      <4>1. j \in 1..i-1
        BY <3>1
      <4> QED BY <1>6, <3>1, <4>1
    <3>3. ~(i < j)
      <4> SUFFICES ASSUME i < j PROVE FALSE
        OBVIOUS
      <4>1. i \in 1..j-1
        BY <3>1
      <4> QED BY <1>6, <3>1, <4>1
    <3> QED BY <3>1, <3>2, <3>3
  <2>3. Original(from) = IF first = {} THEN <<>> ELSE given[CHOOSE j \in first : TRUE].value
    BY DEF Original
  <2> HIDE DEF first
  <2>4. (CHOOSE j \in first : TRUE) = i
    <3>1. (CHOOSE j \in first : TRUE) \in first
      BY <2>1
    <3> QED BY <2>2, <3>1
  <2> QED BY <2>1, <2>3, <2>4
<1>8. PICK t, x, p, b : ElementAt(other, given, spot, i, t, x, p, b)
  BY <1>1, LaidElement
<1>9. /\ t \in 1..19 /\ p \in Seq(Char) /\ b \in Seq(Octet) /\ Valued(t, x, b) /\ Lies(other, o, t, p, b)
      /\ o \in Nat /\ given[i].value = x /\ Len(p) \in Nat /\ Len(b) \in Nat
  BY <1>6, <1>8 DEF ElementAt
<1>10. v = o + 2 + Len(p)
  <2>1. other \in Seq(Octet) /\ o \in Nat /\ p \in Seq(Char) /\ b \in Seq(Octet) /\ Lies(other, o, t, p, b)
    BY <1>4, <1>9
  <2> QED BY <2>1, LiesFacts
<1>11. other[o+1] = t /\ v + Len(b) < Len(other) /\ \A j \in 1..Len(b) : other[v+j] = b[j]
  <2>1. /\ other[o+1] = t /\ o + (2 + Len(p) + Len(b)) < Len(other)
        /\ \A j \in 1..Len(b) : other[o+2+Len(p)+j] = b[j]
    BY <1>9 DEF Lies, Size
  <2> HIDE DEF v
  <2> QED BY <1>4, <1>9, <1>10, <2>1
<1>12. v \in Nat
  <2> HIDE DEF v
  <2> QED BY <1>9, <1>10
<1> HIDE DEF v
<1>13. MeasureValue(other, t, v) = Len(b)
  BY <1>4, <1>9, <1>11, <1>12, MeasureFacts
<1>14. type = t /\ size = Len(b) /\ c = b
  <2> DEFINE f == other \o Behind
  <2>1. Behind \in Seq(Octet)
    BY BsonAssumption
  <2>2. \A j \in 1..Len(other) : f[j] = other[j]
    BY <1>4, <2>1, ConcatProperties
  <2> HIDE DEF f
  <2>3. \A j \in 1..Len(b) : v+j \in 1..Len(other)
    BY <1>4, <1>9, <1>11, <1>12
  <2>4. \A j \in 1..Len(b) : f[v+j] = b[j]
    BY <1>11, <2>2, <2>3
  <2>5. SubSeq(f, v + 1, v + Len(b)) = b
    BY <1>9, <1>12, <2>4, SubSeqIs
  <2>6. type = t /\ size = Len(b)
    BY <1>11, <1>13
  <2> QED BY <2>5, <2>6 DEF f
<1> HIDE DEF size, c, type
<1>15. x \in BsonValue
  <2>1. given[i] \in BsonElement
    BY <1>4, ElementOfSeq
  <2> QED BY <1>9, <2>1 DEF BsonElement
<1>16. e = Element(t, k, x, b)
  BY <1>7, <1>9, <1>14
<1> HIDE DEF e
<1>17. e \in BsonElement /\ e.type = t /\ e.key = k /\ e.value = x /\ e.bytes = b
  <2>1. t \in 1..19 /\ k \in Seq(Char) /\ x \in BsonValue /\ b \in Seq(Octet)
    BY <1>3, <1>9, <1>15
  <2> DEFINE g == Element(t, k, x, b)
  <2>2. g \in BsonElement /\ g.type = t /\ g.key = k /\ g.value = x /\ g.bytes = b
    BY <2>1, ElementWritten, SMTT(30)
  <2> HIDE DEF g
  <2>3. e = g
    BY <1>16 DEF g
  <2> QED BY <2>2, <2>3
<1>18. z = Size(e.key, e.bytes)
  <2>1. Len(k) \in Nat
    BY <1>3, LenProperties
  <2>2. z = 2 + Len(k) + Len(b)
    BY <1>9, <1>14, <2>1
  <2> QED BY <1>17, <2>2 DEF Size
<1> HIDE DEF z
<1>19. e \in BsonElement /\ Valued(e.type, e.value, e.bytes) /\ Set(e, Size(e.key, e.bytes)) /\ buf' = buf
  BY <1>2, <1>9, <1>17, <1>18
<1> QED BY <1>19, SetKeeps

\* Only a binary that is the last element is shrunk: the next one would have
\* its type where the end marker is expected.
LEMMA ShrinkKeeps ==
  ASSUME DocumentsLaid, NEW n \in Nat, shrink_binary(n)
  PROVE  DocumentsLaid'
<1> DEFINE L   == Len(put)
           D   == Len(doc)
           old == Read4(doc, buf - 5)
           y   == SubSeq(put[L].value, 1, n)
           q   == put[L].key
<1>1. PICK spot : Laid(doc, put, spot) /\ BufferAt(spot)
  BY DEF DocumentsLaid
<1>2. /\ buf >= 0 /\ doc[buf + old + 1] = 0 /\ n < old
      /\ doc' = Int4(Read4(doc, 0) - (old - n)) \o SubSeq(doc, 5, buf - 5)
                  \o Int4(n) \o SubSeq(doc, buf, buf + n) \o <<0>>
      /\ put' = [put EXCEPT ![L] = BinaryElement(q, y)]
      /\ room' = room /\ buf' = buf /\ other' = other /\ given' = given
  BY DEF shrink_binary
<1>3. buf # -1
  BY <1>2
<1>4. PICK i \in 1..L : put[i].type = 5 /\ buf = spot[i] + 2 + Len(put[i].key) + 5
  BY <1>1, <1>3 DEF BufferAt
<1>5. /\ doc \in Seq(Octet) /\ D \in Nat /\ D <= MaxInt /\ Read4(doc, 0) = D
      /\ put \in Seq(BsonElement) /\ L \in Nat /\ spot[L+1] = D - 1
  BY <1>1, LaidFacts
<1>6. PICK t, x, k, b : ElementAt(doc, put, spot, i, t, x, k, b)
  BY <1>1, LaidElement
<1>7. /\ t = 5 /\ put[i].value = x /\ put[i].key = k /\ k \in Seq(Char) /\ b \in Seq(Octet)
      /\ Valued(5, x, b) /\ Lies(doc, spot[i], 5, k, b)
      /\ spot[i] \in Nat /\ 2 * i + 2 <= spot[i] /\ spot[i+1] = spot[i] + (2 + Len(k) + Len(b))
      /\ Len(k) \in Nat /\ Len(b) \in Nat
  BY <1>4, <1>6 DEF ElementAt
<1> DEFINE v == spot[i] + 2 + Len(k)
<1>8. x \in Seq(Octet) /\ Len(x) <= MaxInt /\ b = Int4(Len(x)) \o <<0>> \o x
  <2>1. Valued(5, x, b)
    BY <1>7
  <2> QED BY <2>1, ValuedByType
<1>9. Len(b) = 5 + Len(x) /\ Read4(b, 0) = Len(x) /\ Len(x) \in Nat
  BY <1>8, BinaryBytes, LenProperties
<1>10. v \in Nat /\ v >= 4 /\ buf - 5 = v /\ buf = v + 5 /\ spot[i+1] = v + 5 + Len(x)
  <2>1. /\ spot[i] \in Nat /\ i \in Nat /\ 2 * i + 2 <= spot[i] /\ i >= 1
        /\ spot[i+1] = spot[i] + (2 + Len(k) + Len(b)) /\ Len(k) \in Nat
        /\ Len(b) = 5 + Len(x) /\ Len(x) \in Nat
        /\ buf = spot[i] + 2 + Len(k) + 5
    BY <1>4, <1>5, <1>7, <1>9
  <2> DEFINE p == spot[i]
             r == spot[i+1]
  <2>2. /\ p \in Nat /\ i \in Nat /\ 2 * i + 2 <= p /\ i >= 1
        /\ r = p + (2 + Len(k) + Len(b)) /\ Len(k) \in Nat
        /\ Len(b) = 5 + Len(x) /\ Len(x) \in Nat
        /\ buf = p + 2 + Len(k) + 5 /\ v = p + 2 + Len(k)
    BY <2>1
  <2> HIDE DEF p, r, v
  <2>3. v \in Nat /\ v >= 4 /\ buf - 5 = v /\ buf = v + 5 /\ r = v + 5 + Len(x)
    BY <2>2
  <2> QED BY <2>3 DEF r
<1>11. \A j \in 1..Len(b) : doc[v+j] = b[j]
  BY <1>7 DEF Lies
<1> HIDE DEF v
<1>12. old = Len(x)
  <2>1. \A j \in 1..4 : j \in 1..Len(b) /\ 0 + j = j
    BY <1>9
  <2>2. \A j \in 1..4 : doc[v+j] = b[0+j]
    BY <1>11, <2>1
  <2>3. Read4(doc, v) = Read4(b, 0)
    BY <1>10, <2>2, Read4Equal
  <2> QED BY <1>9, <1>10, <2>3
<1> HIDE DEF old
<1>13. i = L
  <2> SUFFICES ASSUME i # L PROVE FALSE
    OBVIOUS
  <2>1. i+1 \in 1..L
    BY <1>5
  <2> DEFINE h == i + 1
  <2>2. PICK u, g, r, m : ElementAt(doc, put, spot, h, u, g, r, m)
    BY <1>1, <2>1, LaidElement
  <2>3. doc[spot[h]+1] = u /\ u \in 1..19
    BY <2>2 DEF ElementAt, Lies
  <2>4. spot[h] + 1 = buf + old + 1
    BY <1>9, <1>10, <1>12
  <2>5. u = 0
    BY <1>2, <2>3, <2>4
  <2> QED BY <2>3, <2>5
<1>14. D - 1 = v + 5 + Len(x) /\ n < Len(x)
  BY <1>2, <1>5, <1>10, <1>12, <1>13
<1> DEFINE w == D - (Len(x) - n)
<1>15. w = v + 6 + n /\ v + 6 + n <= D /\ buf + n = v + 5 + n
  <2> HIDE DEF D
  <2> QED BY <1>5, <1>9, <1>10, <1>14
<1> HIDE DEF w
<1>16. doc' = Int4(w) \o SubSeq(doc, 5, v) \o Int4(n) \o SubSeq(doc, v + 5, v + 5 + n) \o <<0>>
  <2>1. Read4(doc, 0) - (old - n) = w
    BY <1>5, <1>12 DEF w
  <2> QED BY <1>2, <1>10, <1>15, <2>1
<1>17. Shrunk(doc, v, n, doc')
  BY <1>5, <1>10, <1>15, <1>16, ShrunkBytes
<1>18. q = k /\ put[L].value = x /\ L # 0 /\ put[L].type = 5
  BY <1>4, <1>7, <1>13
<1>19. put' = [put EXCEPT ![L] = BinaryElement(k, SubSeq(x, 1, n))]
  BY <1>2, <1>18
<1>20. v = spot[L] + 2 + Len(k)
  BY <1>13 DEF v
<1>21. PICK place : Laid(doc', put', place) /\ \A j \in 1..L : place[j] = spot[j]
  <2>1. Shrinks(doc, put, spot, L, k, x, n, doc')
    BY <1>1, <1>14, <1>17, <1>18, <1>20 DEF Shrinks
  <2>2. ShrunkLaid(put, spot, L, k, x, n, doc')
    BY <2>1, ShrinkLaid
  <2> QED BY <1>19, <2>2 DEF ShrunkLaid
<1>22. Len(doc') <= room' /\ room' \in Nat /\ room' <= MaxRoom
  <2>1. Len(doc') = v + 6 + n
    BY <1>17 DEF Shrunk
  <2>2. D <= room /\ room \in Nat /\ room <= MaxRoom
    BY DEF DocumentsLaid
  <2> HIDE DEF D
  <2> QED BY <1>2, <1>5, <1>10, <1>15, <2>1, <2>2
<1>23. L \in 1..Len(put') /\ put'[L].type = 5 /\ put'[L].key = k
  <2> DEFINE e == BinaryElement(k, SubSeq(x, 1, n))
  <2>1. e.type = 5 /\ e.key = k
    BY DEF BinaryElement, Element
  <2> HIDE DEF e
  <2>2. L \in 1..L /\ put' = [put EXCEPT ![L] = e]
    BY <1>13, <1>19 DEF e
  <2>3. Len(put') = L /\ put'[L] = e
    BY <1>5, <2>2
  <2> QED BY <2>1, <2>2, <2>3
<1>24. BufferAt(place)'
  <2>1. place[L] = spot[L] /\ buf' = spot[L] + 2 + Len(k) + 5
    BY <1>2, <1>4, <1>7, <1>13, <1>21
  <2>2. L \in 1..Len(put') /\ put'[L].type = 5 /\ buf' = place[L] + 2 + Len(put'[L].key) + 5
    BY <1>23, <2>1
  <2> QED BY <2>2 DEF BufferAt
<1>25. (\E s : Laid(other', given', s)) /\ \E s : Laid(doc', put', s) /\ BufferAt(s)'
  BY <1>2, <1>21, <1>24 DEF DocumentsLaid
<1> QED BY <1>22, <1>25 DEF DocumentsLaid

\* What clients send are elements as well, code with scope excepted.
LEMMA ClientElement ==
  ASSUME NEW k \in Key, NEW c \in FromClient, c.type # 15
  PROVE  LET e == Element(c.type, k, c.value, c.bytes)
         IN  e \in BsonElement /\ Valued(e.type, e.value, e.bytes) /\ e.type = c.type /\ e.key = k /\ e.bytes = c.bytes
<1> DEFINE e == Element(c.type, k, c.value, c.bytes)
<1>1. k \in Seq(Char)
  BY BsonAssumption
<1>2. CASE \E n \in Number : c = [type |-> 16, value |-> n, bytes |-> Int4(n)]
  <2>1. PICK n \in Number : c = [type |-> 16, value |-> n, bytes |-> Int4(n)]
    BY <1>2
  <2>2. c.type = 16 /\ c.value = n /\ c.bytes = Int4(n)
    BY <2>1
  <2>3. n \in Int32 /\ n \in Int
    BY BsonAssumption, Ranges
  <2>4. 16 \in 1..19 /\ n \in BsonValue /\ Int4(n) \in Seq(Octet)
    <3>1. Int4(n) \in Seq(Octet)
      BY <2>3, NumberBytes
    <3>2. n \in BsonValue
      BY <2>3, BsonValues
    <3> QED BY <3>1, <3>2
  <2> DEFINE g == Element(16, k, n, Int4(n))
  <2>5. g \in BsonElement /\ g.type = 16 /\ g.key = k /\ g.value = n /\ g.bytes = Int4(n)
    BY <1>1, <2>4, ElementWritten
  <2> HIDE DEF g
  <2>6. Valued(g.type, g.value, g.bytes)
    BY <2>3, <2>5 DEF Valued
  <2>7. e = g
    BY <2>2 DEF g
  <2> QED BY <2>2, <2>5, <2>6, <2>7
<1>3. CASE \E o \in Others : c = [type |-> o.type, value |-> o.bytes, bytes |-> o.bytes]
  <2>1. PICK o \in Others : c = [type |-> o.type, value |-> o.bytes, bytes |-> o.bytes]
    BY <1>3
  <2> DEFINE t == o.type
             b == o.bytes
  <2>2. c.type = t /\ c.value = b /\ c.bytes = b
    BY <2>1
  <2>3. b \in Seq(Octet) /\ Foreign(t, b) /\ t # 15
    BY <2>2, BsonAssumption
  <2> HIDE DEF t, b
  <2>4. t \in 1..19
    BY <2>3, ForeignTypes
  <2>5. b \in BsonValue
    BY <2>3, BsonValues
  <2> DEFINE g == Element(t, k, b, b)
  <2>6. g \in BsonElement /\ g.type = t /\ g.key = k /\ g.value = b /\ g.bytes = b
    BY <1>1, <2>3, <2>4, <2>5, ElementWritten
  <2> HIDE DEF g
  <2>7. Valued(g.type, g.value, g.bytes)
    BY <2>3, <2>6 DEF Valued
  <2>8. e = g
    BY <2>2 DEF g
  <2> QED BY <2>2, <2>6, <2>7, <2>8
<1> QED BY <1>2, <1>3 DEF FromClient

\* Two elements put behind one another.
LEMMA AppendTwo ==
  ASSUME NEW S, NEW a \in S, NEW b \in S
  PROVE  Append(Append(<<>>, a), b) = <<a, b>>
<1> DEFINE r == <<a, b>>
           s == <<a>>
           u == Append(s, b)
<1>1. Append(<<>>, a) = <<a>>
  OBVIOUS
<1>2. s \in Seq(S) /\ Len(s) = 1 /\ s[1] = a
  OBVIOUS
<1>3. r \in Seq(S) /\ Len(r) = 2 /\ r[1] = a /\ r[2] = b
  OBVIOUS
<1> HIDE DEF r, s
<1>4. /\ u \in Seq(S) /\ Len(u) = Len(s) + 1 /\ u[Len(s) + 1] = b
      /\ \A i \in 1..Len(s) : u[i] = s[i]
  <2>1. s \in Seq(S)
    BY <1>2
  <2> QED BY <2>1, AppendProperties
<1> HIDE DEF u
<1>5. u[1] = a /\ u[2] = b /\ Len(u) = 2
  BY <1>2, <1>4
<1>6. \A i \in 1..Len(u) : u[i] = r[i]
  <2>1. \A i \in 1..Len(u) : i = 1 \/ i = 2
    BY <1>5
  <2> QED BY <1>3, <1>5, <2>1
<1>7. u = r
  BY <1>3, <1>4, <1>5, <1>6, SeqEqual
<1> QED BY <1>1, <1>7 DEF r, s, u

\* A request without code with scope is a document of its two elements.
LEMMA RequestKeeps ==
  ASSUME DocumentsLaid, NEW k1 \in Key, NEW e1 \in FromClient, NEW k2 \in Key, NEW e2 \in FromClient,
         Request(k1, e1, k2, e2), e1.type # 15, e2.type # 15
  PROVE  DocumentsLaid'
<1> DEFINE a  == Element(e1.type, k1, e1.value, e1.bytes)
           b  == Element(e2.type, k2, e2.value, e2.bytes)
           f  == Appended(EmptyDocument, a.type, a.key, a.bytes)
           g  == Appended(f, b.type, b.key, b.bytes)
           y  == Size(a.key, a.bytes)
           z  == Size(b.key, b.bytes)
           one == Append(<<>>, a)
           two == Append(one, b)
<1>1. /\ a \in BsonElement /\ Valued(a.type, a.value, a.bytes)
      /\ a.type = e1.type /\ a.key = k1 /\ a.bytes = e1.bytes
  BY ClientElement
<1>2. /\ b \in BsonElement /\ Valued(b.type, b.value, b.bytes)
      /\ b.type = e2.type /\ b.key = k2 /\ b.bytes = e2.bytes
  BY ClientElement
<1>3. other' = g /\ given' = two
  <2>1. other' = g
    BY <1>1, <1>2 DEF Request
  <2>2. given' = <<a, b>>
    BY DEF Request
  <2> HIDE DEF a, b
  <2>3. two = <<a, b>>
    BY <1>1, <1>2, AppendTwo
  <2> QED BY <2>1, <2>2, <2>3
<1>4. y \in Nat /\ z \in Nat /\ 5 + y + z <= MaxInt
  <2> DEFINE r1 == e1.bytes
             r2 == e2.bytes
  <2>1. 5 + (1 + Len(k1) + 1 + Len(r1)) + (1 + Len(k2) + 1 + Len(r2)) <= MaxRoom
    BY DEF Request
  <2>2. y = 2 + Len(k1) + Len(r1) /\ z = 2 + Len(k2) + Len(r2)
    BY <1>1, <1>2 DEF Size
  <2>3. k1 \in Seq(Char) /\ r1 \in Seq(Octet) /\ k2 \in Seq(Char) /\ r2 \in Seq(Octet)
    BY <1>1, <1>2, ElementParts
  <2> HIDE DEF y, z, r1, r2
  <2>4. Len(k1) \in Nat /\ Len(r1) \in Nat /\ Len(k2) \in Nat /\ Len(r2) \in Nat
    BY <2>3, LenProperties
  <2>5. MaxRoom \in Nat /\ MaxRoom <= MaxInt /\ MaxInt \in Nat
    BY RoomFits, ZeroOctet
  <2> QED BY <2>1, <2>2, <2>4, <2>5
<1> HIDE DEF a, b
<1>5. PICK s0 : Laid(EmptyDocument, <<>>, s0) /\ Len(EmptyDocument) = 5
  BY EmptyLaid
<1>6. Len(EmptyDocument) + y <= MaxInt
  <2>1. MaxInt \in Nat
    BY ZeroOctet
  <2> HIDE DEF y, z
  <2> QED BY <1>4, <1>5, <2>1
<1>7. PICK s1 : Laid(f, one, s1) /\ Len(f) = 5 + y
  <2>1. /\ Laid(EmptyDocument, <<>>, s0) /\ a \in BsonElement /\ Valued(a.type, a.value, a.bytes)
        /\ Len(EmptyDocument) + Size(a.key, a.bytes) <= MaxInt
    BY <1>1, <1>5, <1>6
  <2>2. Len(f) = Len(EmptyDocument) + y /\ \E s : Laid(f, one, s)
    BY <2>1, AppendLaid
  <2> QED BY <1>5, <2>2
<1>8. Len(f) + z <= MaxInt
  <2>1. MaxInt \in Nat
    BY ZeroOctet
  <2> HIDE DEF y, z, f
  <2> QED BY <1>4, <1>7, <2>1
<1> HIDE DEF f, one
<1>9. \E s : Laid(g, two, s)
  <2>1. Laid(f, one, s1) /\ b \in BsonElement /\ Valued(b.type, b.value, b.bytes) /\ Len(f) + Size(b.key, b.bytes) <= MaxInt
    BY <1>2, <1>7, <1>8
  <2> QED BY <2>1, AppendLaid
<1>10. UNCHANGED <<doc, put, room, buf>>
  BY DEF Request
<1>11. PICK spot : Laid(doc, put, spot) /\ BufferAt(spot)
  BY DEF DocumentsLaid
<1>12. Laid(doc', put', spot) /\ BufferAt(spot)'
  BY <1>10, <1>11 DEF BufferAt
<1>13. room' \in Nat /\ Len(doc') <= room' /\ room' <= MaxRoom
  BY <1>10 DEF DocumentsLaid
<1>14. \E s : Laid(other', given', s)
  BY <1>3, <1>9
<1> QED BY <1>12, <1>13, <1>14 DEF DocumentsLaid

\* The documents are laid out as their elements say, unless the request has
\* code with scope.  That is gone when the reply is sent, and nothing else
\* becomes the document beside the reply until then.
BsonInv == Scoped(given) \/ DocumentsLaid

\* Every step keeps the invariant.
LEMMA BsonStep == BsonInv /\ [BsonNext]_bsonVars => BsonInv'
<1> SUFFICES ASSUME BsonInv, [BsonNext]_bsonVars, ~Scoped(given') PROVE DocumentsLaid'
  BY DEF BsonInv
<1>1. CASE Sent
  BY <1>1, NewKeeps, EmptyLaid DEF Sent
<1>2. CASE ~Sent
  <2>1. given = <<>> => DocumentsLaid
    BY DEF BsonInv, Scoped
  <2>2. given' = given => DocumentsLaid
    BY DEF BsonInv
  <2>3. CASE Nest
    BY <2>1, <2>3, NewKeeps DEF Nest, DocumentsLaid
  <2>4. ASSUME NEW k1 \in Key, NEW k2 \in Key, NEW e1 \in FromClient, NEW e2 \in FromClient, Request(k1, e1, k2, e2)
        PROVE  DocumentsLaid'
    <3>1. DocumentsLaid
      BY <2>1, <2>4 DEF Request
    <3>2. given' = <<Element(e1.type, k1, e1.value, e1.bytes), Element(e2.type, k2, e2.value, e2.bytes)>>
      BY <2>4 DEF Request
    <3>3. given'[1].type = e1.type /\ given'[2].type = e2.type /\ 1 \in DOMAIN given' /\ 2 \in DOMAIN given'
      BY <3>2 DEF Element
    <3>4. e1.type # 15 /\ e2.type # 15
      BY <3>3 DEF Scoped
    <3> QED BY <2>4, <3>1, <3>4, RequestKeeps
  <2>5. ASSUME NEW k \in Key, NEW t \in Text, set_string(k, t) PROVE DocumentsLaid'
    BY <2>2, <2>5, SetStringKeeps DEF set_string, Set
  <2>6. ASSUME NEW k \in Key, NEW b \in BOOLEAN, set_boolean(k, b) PROVE DocumentsLaid'
    BY <2>2, <2>6, SetSmallKeeps DEF set_boolean, SetSub, Set
  <2>7. ASSUME NEW k \in Key, NEW n \in Number, set_int32(k, n) PROVE DocumentsLaid'
    BY <2>2, <2>7, SetSmallKeeps DEF set_int32, SetSub, Set
  <2>8. ASSUME NEW k \in Key, set_null(k) PROVE DocumentsLaid'
    BY <2>2, <2>8, SetSmallKeeps DEF set_null, SetSub, Set
  <2>9. ASSUME NEW k \in Key, NEW type \in {3, 4}, set_subdocument(k, type) PROVE DocumentsLaid'
    BY <2>2, <2>9, SetSubdocumentKeeps DEF set_subdocument, SetSub, Set
  <2>10. ASSUME NEW k \in Key, NEW x \in Binary, set_binary(k, x) PROVE DocumentsLaid'
    BY <2>2, <2>10, SetBinaryKeeps DEF set_binary, Set
  <2>11. ASSUME NEW k \in Key, NEW from \in Key, set_element(k, from) PROVE DocumentsLaid'
    BY <2>2, <2>11, SetElementKeeps DEF set_element, Set
  <2>12. ASSUME NEW x \in Binary, NEW n \in 0..Len(x), shrink_binary(n) PROVE DocumentsLaid'
    <3>1. n \in Nat
      BY <2>12
    <3>2. given' = given
      BY <2>12 DEF shrink_binary
    <3> QED BY <2>2, <2>12, <3>1, <3>2, ShrinkKeeps
  <2>13. CASE UNCHANGED bsonVars
    BY <2>2, <2>13 DEF bsonVars, DocumentsLaid, BufferAt
  <2> QED BY <1>2, <2>3, <2>4, <2>5, <2>6, <2>7, <2>8, <2>9, <2>10, <2>11, <2>12, <2>13 DEF BsonNext
<1> QED BY <1>1, <1>2

\* The invariant gives the property.
LEMMA BsonInvHolds == BsonInv => RoundTrip
<1> SUFFICES ASSUME DocumentsLaid PROVE RoundTrip
  BY DEF BsonInv, RoundTrip
<1>1. Holds(doc, put) /\ Holds(other, given)
  BY LaidHolds DEF DocumentsLaid
<1> QED BY <1>1 DEF RoundTrip, DocumentsLaid

\* Of every sequence of calls, with requests of any well-formed elements: the
\* reply and the document beside it are laid out as they were given, unless
\* there is code with scope in the request.
THEOREM BsonInvariant == BsonSpec => []BsonInv
<1>1. BsonInit => BsonInv
  BY BsonStart DEF BsonInv
<1> QED BY <1>1, BsonStep, PTL DEF BsonSpec

\* Whatever is set, copied, nested or shrunk in place (bson_set_*,
\* bson_shrink_binary) is found and read back by bson_get_*, and no document is
\* longer than what was measured for it, unless there is code with scope in the
\* request, which measure_value measures wrongly (bson.c:39).
THEOREM DocumentsRoundTrip == BsonSpec => []RoundTrip
<1> QED BY BsonInvariant, BsonInvHolds, PTL

=============================================================================
