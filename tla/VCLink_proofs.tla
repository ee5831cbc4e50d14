---------------------------- MODULE VCLink_proofs ----------------------------
(***************************************************************************)
(* Theorems about VCLink, for every number of messages, sizes, bounds and  *)
(* losses: the transmitter keeps what VCReceiver assumes of it, so what is *)
(* proved there holds of a link; no message gets a byte of another; a link *)
(* without crashes is HandOver; and with patient timers no daemon gives up *)
(* waiting for an acknowledgement while few packets are lost.              *)
(*                                                                         *)
(* The argument is about order.  A packet of a message that is done with   *)
(* finds the receiver still at that message, because all packets of the    *)
(* next one are behind it; and what comes back behind an acknowledgement   *)
(* is acknowledgements.                                                    *)
(***************************************************************************)
EXTENDS VCLink, MCReceiver, VCReceiver_proofs, FiniteSetTheorems

USE ReceiverAssumption, LinkAssumption

Idle == outstate \in {"IDLE", "ENDED"}
InQueue(m) == \E i \in DOMAIN queue : queue[i] = m

(* The receiver is done with message m.                                     *)
Done(m) == chan.msgid = m /\ (chan.state = "ENDED" \/ pc = "acked")

Packet == [type : {"SOM", "DATA", "EOM", "MQE", "SOMA", "EOMA", "NAK"},
           id : Msgs \cup {NoMsg}, addr : 0 .. MsgSize, len : 0 .. MsgSize]

ToReceiver(p) ==
  \/ p.id \in Msgs /\ p = SOM(p.id)
  \/ p.id \in Msgs /\ p = EOM(p.id)
  \/ /\ p.type = "DATA" /\ p.id \in Msgs
     /\ p.addr \in Addr /\ p.len \in 1 .. MaxPkt /\ p.addr + p.len <= MsgSize
  \/ p = MQE

ToTransmitter(p) ==
  \/ p.type = "SOMA" /\ p.id \in Msgs
  \/ p.type = "EOMA" /\ p.id \in acked
  \/ p.type = "NAK" /\ p.addr \in Addr /\ p.len \in 1 .. MsgSize /\ p.addr + p.len <= MsgSize

LinkTypes ==
  /\ writing \in BOOLEAN /\ has \in BOOLEAN /\ eof \in BOOLEAN /\ circuit \in BOOLEAN
  /\ outstate \in {"IDLE", "STARTING", "ACTIVE", "ENDING", "ENDED"}
  /\ outaddr \in 0 .. MsgSize /\ outsaved.addr \in 0 .. MsgSize
  /\ queue \in Seq(Msgs)
  /\ fwd \in Seq(Packet) /\ \A i \in DOMAIN fwd : ToReceiver(fwd[i])
  /\ back \in Seq(Packet) /\ \A i \in DOMAIN back : ToTransmitter(back[i])

(* The transmitter works at the head of its queue, or at nothing; a message *)
(* leaves the queue only when it was acknowledged.                          *)
QueueRight ==
  /\ \A i, j \in DOMAIN queue : queue[i] = queue[j] => i = j
  /\ \A i \in DOMAIN queue : queue[i] = tmsg => i = 1
  /\ \A i \in DOMAIN queue : queue[i] \in acked => queue[i] = tmsg
  /\ InQueue(tmsg) \/ tmsg \in acked
  /\ InQueue(outsaved.id) => outsaved.id = tmsg
  /\ has => InQueue(tmsg)
  /\ ~Idle => has
  /\ has /\ Idle => tmsg \in acked
  /\ canceled = {}

(* There is data to be sent when the transmitter means to send it.          *)
DataLeft ==
  /\ outstate = "ACTIVE" /\ ~eof => outaddr < MsgSize
  /\ outstate = "STARTING" /\ count > 0 /\ ~eof => outaddr < MsgSize

(* The two ends are in step: what the receiver assembles is what the        *)
(* transmitter sends.                                                       *)
Together ==
  /\ ~circuit => fwd = <<>> /\ back = <<>>
  /\ circuit => up /\ writing
  /\ Reading /\ Assembling => chan.msgid = tmsg /\ somad
  /\ circuit /\ outstate \in {"ACTIVE", "ENDING"} => somad
  /\ circuit /\ Idle =>
       /\ pc # "passed" /\ (pc = "ready" => ~Assembling)
       /\ \A i \in DOMAIN back : back[i].type = "EOMA"
  /\ mixed = {}

(* Packets on their way to the receiver.                                    *)
FwdRight ==
  /\ \A i \in DOMAIN fwd : fwd[i].id # NoMsg /\ (fwd[i].id # tmsg \/ Idle) =>
       Done(fwd[i].id) /\ fwd[i].id \in acked
  /\ \A i, j \in DOMAIN fwd : i < j /\ fwd[i].id = tmsg => fwd[j].id \in {tmsg, NoMsg}
  /\ \A i \in DOMAIN fwd : fwd[i].type = "EOM" /\ fwd[i].id = tmsg => somad
  /\ \A i \in DOMAIN fwd : fwd[i].type = "MQE" => queue = <<>> /\ ~has

(* Packets on their way to the transmitter.                                 *)
BackRight ==
  /\ \A i \in DOMAIN back : back[i].type = "NAK" => somad
  /\ \A i \in DOMAIN back : back[i].type = "SOMA" /\ back[i].id = tmsg => somad
  /\ \A i \in DOMAIN back : back[i].type = "EOMA" /\ back[i].id = tmsg => Done(tmsg)
  /\ \A i, j \in DOMAIN back :
       i < j /\ back[i].type = "EOMA" /\ back[i].id = tmsg => back[j].type = "EOMA"

WireInv == LinkTypes /\ QueueRight /\ DataLeft /\ Together /\ FwdRight /\ BackRight

LinkInv == RouteInv /\ WireInv

-----------------------------------------------------------------------------
(* Queues of packets: new is old with packets of S after it, ...            *)
Grown(new, old, S) ==
  /\ new \in Seq(Packet) /\ Len(old) <= Len(new)
  /\ \A i \in DOMAIN new : IF i \in DOMAIN old THEN new[i] = old[i] ELSE new[i] \in S

(* ... or old without its oldest packet.                                    *)
Shortened(new, old) ==
  new \in Seq(Packet) /\ \A i \in DOMAIN new : i + 1 \in DOMAIN old /\ new[i] = old[i + 1]

(* Nothing, one packet or several are added, or one is taken.               *)
LEMMA SameGrown ==
  ASSUME NEW old \in Seq(Packet), NEW S
  PROVE  Grown(old, old, S)
  BY DEF Grown

(* One packet is added.                                                     *)
LEMMA AppendGrown ==
  ASSUME NEW old \in Seq(Packet), NEW p \in Packet, NEW S, p \in S
  PROVE  Grown(Append(old, p), old, S)
<1>1. /\ Append(old, p) \in Seq(Packet) /\ Len(Append(old, p)) = Len(old) + 1
      /\ DOMAIN Append(old, p) = 1 .. Len(old) + 1 /\ DOMAIN old = 1 .. Len(old) /\ Len(old) \in Nat
      /\ \A i \in 1 .. Len(old) + 1 : Append(old, p)[i] = IF i <= Len(old) THEN old[i] ELSE p
  OBVIOUS
<1>2. QED
  BY <1>1 DEF Grown

(* Several are added.                                                       *)
LEMMA ConcatGrown ==
  ASSUME NEW old \in Seq(Packet), NEW s \in Seq(Packet), NEW S, \A i \in DOMAIN s : s[i] \in S
  PROVE  Grown(old \o s, old, S)
<1>1. /\ old \o s \in Seq(Packet) /\ Len(old \o s) = Len(old) + Len(s)
      /\ DOMAIN (old \o s) = 1 .. Len(old) + Len(s) /\ DOMAIN old = 1 .. Len(old) /\ Len(old) \in Nat
      /\ DOMAIN s = 1 .. Len(s) /\ Len(s) \in Nat
      /\ \A i \in 1 .. Len(old) + Len(s) :
           (old \o s)[i] = IF i <= Len(old) THEN old[i] ELSE s[i - Len(old)]
  OBVIOUS
<1>2. QED
  BY <1>1 DEF Grown

(* The oldest is taken.                                                     *)
LEMMA TailShortened ==
  ASSUME NEW old \in Seq(Packet), old # <<>>
  PROVE  /\ Shortened(Tail(old), old)
         /\ 1 \in DOMAIN old /\ Head(old) = old[1] /\ Head(old) \in Packet
<1>1. /\ Tail(old) \in Seq(Packet) /\ Len(Tail(old)) = Len(old) - 1 /\ Len(old) \in Nat
      /\ Len(old) > 0
      /\ DOMAIN Tail(old) = 1 .. Len(old) - 1 /\ DOMAIN old = 1 .. Len(old)
      /\ \A i \in 1 .. Len(old) - 1 : Tail(old)[i] = old[i + 1]
  OBVIOUS
<1>2. QED
  BY <1>1 DEF Shortened

(* The types of the transmitter's fields and of the packets, after a step.  *)
LEMMA TypesKept ==
  ASSUME writing' \in BOOLEAN, has' \in BOOLEAN, eof' \in BOOLEAN, circuit' \in BOOLEAN,
         outstate' \in {"IDLE", "STARTING", "ACTIVE", "ENDING", "ENDED"},
         outaddr' \in 0 .. MsgSize, outsaved'.addr \in 0 .. MsgSize, queue' \in Seq(Msgs),
         fwd' \in Seq(Packet), \A i \in DOMAIN fwd' : ToReceiver(fwd'[i]),
         back' \in Seq(Packet), acked \subseteq acked',
         \A i \in DOMAIN back' :
           ToTransmitter(back'[i]) \/ (back'[i].type = "EOMA" /\ back'[i].id \in acked')
  PROVE  LinkTypes'
  BY DEF LinkTypes, ToTransmitter, ToReceiver

-----------------------------------------------------------------------------
(* Steps of the transmitter that send packets of its message, or an MQE.    *)
Sendable(p) ==
  /\ p \in Packet /\ ToReceiver(p)
  /\ IF p.type = "MQE" THEN queue = <<>> /\ ~has
     ELSE p.id = tmsg /\ ~Idle /\ (p.type = "EOM" => somad)

SendStep ==
  /\ Quiet /\ UNCHANGED <<writing, has, queue, circuit>> /\ circuit /\ writing
  /\ Idle' <=> Idle
  /\ outstate' \in {"IDLE", "STARTING", "ACTIVE", "ENDING", "ENDED"}
  /\ outaddr' \in 0 .. MsgSize /\ eof' \in BOOLEAN
  /\ outsaved' = outsaved \/ SaveOut
  /\ DataLeft'
  /\ outstate' \in {"ACTIVE", "ENDING"} => somad
  /\ back' = back \/ Shortened(back', back)
  /\ Grown(fwd', fwd, {p \in Packet : Sendable(p)})

(* They keep the invariant.                                                 *)
LEMMA SendKeeps ==
  ASSUME LinkInv, SendStep
  PROVE  WireInv'
<1>q. /\ UNCHANGED <<up, pc, chan, tmsg, somad, acked, mixed, canceled, has, queue, writing, circuit>>
      /\ circuit /\ writing
  BY DEF SendStep, Quiet, vars, readVars, sendVars, histVars
<1>f. /\ fwd \in Seq(Packet) /\ fwd' \in Seq(Packet) /\ back \in Seq(Packet) /\ back' \in Seq(Packet)
      /\ \A i \in DOMAIN fwd' : IF i \in DOMAIN fwd THEN fwd'[i] = fwd[i]
                                ELSE fwd'[i] \in Packet /\ Sendable(fwd'[i])
  BY DEF LinkInv, WireInv, LinkTypes, SendStep, Grown, Shortened
<1>d. /\ DOMAIN fwd = 1 .. Len(fwd) /\ Len(fwd) \in Nat /\ DOMAIN fwd' = 1 .. Len(fwd') /\ Len(fwd') \in Nat
      /\ Len(fwd) <= Len(fwd')
  BY <1>f DEF SendStep, Grown
<1>b. \A i \in DOMAIN back' : \E k \in {0, 1} : i + k \in DOMAIN back /\ back'[i] = back[i + k]
  <2>1. CASE back' = back
    BY <2>1, <1>f
  <2>2. CASE Shortened(back', back)
    BY <2>2 DEF Shortened
  <2>3. QED
    BY <2>1, <2>2 DEF SendStep
<1>c. \A i, j \in DOMAIN back' : i < j =>
        \E k \in {0, 1} : /\ i + k \in DOMAIN back /\ back'[i] = back[i + k]
                          /\ j + k \in DOMAIN back /\ back'[j] = back[j + k] /\ i + k < j + k
  <2>1. CASE back' = back
    <3> SUFFICES ASSUME NEW i \in DOMAIN back', NEW j \in DOMAIN back', i < j
                 PROVE  /\ i + 0 \in DOMAIN back /\ back'[i] = back[i + 0]
                        /\ j + 0 \in DOMAIN back /\ back'[j] = back[j + 0] /\ i + 0 < j + 0
      OBVIOUS
    <3> QED
      BY <2>1, <1>f
  <2>2. CASE Shortened(back', back)
    <3> SUFFICES ASSUME NEW i \in DOMAIN back', NEW j \in DOMAIN back', i < j
                 PROVE  /\ i + 1 \in DOMAIN back /\ back'[i] = back[i + 1]
                        /\ j + 1 \in DOMAIN back /\ back'[j] = back[j + 1] /\ i + 1 < j + 1
      OBVIOUS
    <3> QED
      BY <2>2, <1>f DEF Shortened
  <2>3. QED
    BY <2>1, <2>2 DEF SendStep
<1>1. LinkTypes'
  <2>1. \A i \in DOMAIN fwd' : ToReceiver(fwd'[i])
    BY <1>f DEF LinkInv, WireInv, LinkTypes, Sendable
  <2>2. \A i \in DOMAIN back' : ToTransmitter(back'[i])
    BY <1>b DEF LinkInv, WireInv, LinkTypes
  <2>3. \A p : ToReceiver(p)' <=> ToReceiver(p)
    BY DEF ToReceiver, SOM, EOM, MQE
  <2>4. \A p : ToTransmitter(p)' <=> ToTransmitter(p)
    BY <1>q DEF ToTransmitter
  <2>5. outsaved'.addr \in 0 .. MsgSize
    BY DEF SendStep, SaveOut, LinkInv, WireInv, LinkTypes
  <2>6. QED
    BY <1>f, <1>q, <2>1, <2>2, <2>5 DEF LinkInv, WireInv, LinkTypes, SendStep, ToTransmitter, ToReceiver
<1>2. QueueRight'
  <2>1. outsaved'.id \in {outsaved.id, tmsg, NoMsg}
    BY <1>q DEF SendStep, SaveOut
  <2>2. InQueue(NoMsg) => FALSE
    BY DEF InQueue, LinkInv, WireInv, LinkTypes
  <2>3. (InQueue(outsaved.id) => outsaved.id = tmsg)'
    BY <1>q, <2>1, <2>2 DEF LinkInv, WireInv, QueueRight, InQueue
  <2>4. QED
    BY <1>q, <2>3 DEF LinkInv, WireInv, QueueRight, InQueue, SendStep
<1>3. Together'
  <2>1. \A i \in DOMAIN back' : Idle => back'[i].type = "EOMA"
    BY <1>b, <1>q DEF LinkInv, WireInv, Together
  <2>2. QED
    BY <1>q, <2>1 DEF LinkInv, WireInv, Together, SendStep, Reading, Assembling
<1>4. FwdRight'
  <2>1. \A i \in DOMAIN fwd' : fwd'[i].id # NoMsg /\ (fwd'[i].id # tmsg \/ Idle) =>
          Done(fwd'[i].id) /\ fwd'[i].id \in acked
    <3>1. \A i \in DOMAIN fwd : fwd[i].id # NoMsg /\ (fwd[i].id # tmsg \/ Idle) =>
            Done(fwd[i].id) /\ fwd[i].id \in acked
      BY DEF LinkInv, WireInv, FwdRight
    <3>2. \A p : Sendable(p) => p.id = NoMsg \/ (p.id = tmsg /\ ~Idle)
      BY DEF Sendable, ToReceiver, SOM, EOM, MQE
    <3>3. \A i \in DOMAIN fwd' : (fwd'[i] = fwd[i] /\ i \in DOMAIN fwd) \/ Sendable(fwd'[i])
      BY <1>f
    <3>4. QED
      BY <3>1, <3>2, <3>3
  <2>2. \A i, j \in DOMAIN fwd' : i < j /\ fwd'[i].id = tmsg => fwd'[j].id \in {tmsg, NoMsg}
    <3> SUFFICES ASSUME NEW i \in DOMAIN fwd', NEW j \in DOMAIN fwd', i < j, fwd'[i].id = tmsg
                 PROVE  fwd'[j].id \in {tmsg, NoMsg}
      OBVIOUS
    <3>1. CASE j \in DOMAIN fwd
      <4>1. i \in DOMAIN fwd
        BY <3>1, <1>d
      <4>2. QED
        BY <3>1, <4>1, <1>f DEF LinkInv, WireInv, FwdRight
    <3>2. CASE j \notin DOMAIN fwd
      BY <3>2, <1>f DEF Sendable, ToReceiver, SOM, EOM, MQE
    <3>3. QED
      BY <3>1, <3>2
  <2>3. \A i \in DOMAIN fwd' : fwd'[i].type = "EOM" /\ fwd'[i].id = tmsg => somad
    BY <1>f DEF LinkInv, WireInv, FwdRight, Sendable
  <2>4. \A i \in DOMAIN fwd' : fwd'[i].type = "MQE" => queue = <<>> /\ ~has
    BY <1>f DEF LinkInv, WireInv, FwdRight, Sendable
  <2>5. Idle' <=> Idle
    BY DEF SendStep
  <2>6. \A m : Done(m)' <=> Done(m)
    BY <1>q DEF Done
  <2>7. QED
    BY <1>q, <2>1, <2>2, <2>3, <2>4, <2>5 DEF FwdRight, Done
<1>5. BackRight'
  <2>1. \A i \in DOMAIN back' : back'[i].type = "NAK" => somad
    BY <1>b DEF LinkInv, WireInv, BackRight
  <2>2. \A i \in DOMAIN back' : back'[i].type = "SOMA" /\ back'[i].id = tmsg => somad
    BY <1>b DEF LinkInv, WireInv, BackRight
  <2>3. \A i \in DOMAIN back' : back'[i].type = "EOMA" /\ back'[i].id = tmsg => Done(tmsg)
    BY <1>b DEF LinkInv, WireInv, BackRight
  <2>4. \A i, j \in DOMAIN back' :
          i < j /\ back'[i].type = "EOMA" /\ back'[i].id = tmsg => back'[j].type = "EOMA"
    BY <1>c DEF LinkInv, WireInv, BackRight
  <2>5. Done(tmsg)' <=> Done(tmsg)
    BY <1>q DEF Done
  <2>6. QED
    BY <1>q, <2>1, <2>2, <2>3, <2>4, <2>5 DEF BackRight
<1>6. QED
  BY <1>1, <1>2, <1>3, <1>4, <1>5 DEF WireInv, SendStep

(* What a packet of data can be.                                            *)
LEMMA DataPacket ==
  ASSUME tmsg \in Msgs, NEW a \in Addr, NEW n \in 1 .. MaxPkt
  PROVE  /\ DATA(tmsg, a, Size(a, n)) \in Packet
         /\ ToReceiver(DATA(tmsg, a, Size(a, n)))
         /\ a + Size(a, n) \in 1 .. MsgSize
<1>1. Size(a, n) \in 1 .. MaxPkt /\ Size(a, n) \in 0 .. MsgSize /\ a + Size(a, n) \in 1 .. MsgSize
  BY DEF Size, Addr
<1>2. a \in 0 .. MsgSize
  BY DEF Addr
<1>3. QED
  BY <1>1, <1>2 DEF DATA, Packet, ToReceiver

(* SOMs, EOMs and MQEs.                                                     *)
LEMMA OtherPackets ==
  ASSUME tmsg \in Msgs
  PROVE  /\ SOM(tmsg) \in Packet /\ ToReceiver(SOM(tmsg))
         /\ EOM(tmsg) \in Packet /\ ToReceiver(EOM(tmsg))
         /\ MQE \in Packet /\ ToReceiver(MQE)
<1>1. MsgSize \in 0 .. MsgSize /\ 0 \in 0 .. MsgSize
  OBVIOUS
<1>2. SOM(tmsg).id = tmsg /\ EOM(tmsg).id = tmsg
  BY DEF SOM, EOM
<1>3. SOM(tmsg) \in Packet /\ EOM(tmsg) \in Packet /\ MQE \in Packet
  BY <1>1 DEF SOM, EOM, MQE, Packet
<1>4. QED
  BY <1>2, <1>3 DEF ToReceiver

(* The answer to a NAK is packets of data of the message.                   *)
LEMMA ChunksRight ==
  ASSUME tmsg \in Msgs, NEW a \in Addr, NEW n \in 1 .. MsgSize, a + n <= MsgSize
  PROVE  /\ Chunks(a, n) \in Seq(Packet)
         /\ \A i \in DOMAIN Chunks(a, n) :
              /\ ToReceiver(Chunks(a, n)[i])
              /\ Chunks(a, n)[i].type = "DATA" /\ Chunks(a, n)[i].id = tmsg
<1> DEFINE size == IF OutDataSize > n THEN n ELSE OutDataSize
           k    == (n + size - 1) \div size
           at(i) == a + (i - 1) * size
<1>1. size \in 1 .. n /\ size \in 1 .. MaxPkt /\ size \in Nat \ {0}
  OBVIOUS
<1>2. k \in Nat /\ k * size <= n + size - 1
  <2>1. \A x \in Nat, s \in Nat \ {0} : x \div s \in Nat /\ (x \div s) * s <= x
    OBVIOUS
  <2>2. n + size - 1 \in Nat
    BY <1>1
  <2> HIDE DEF size
  <2>3. QED
    BY <2>1, <2>2, <1>1
<1>3. ASSUME NEW i \in 1 .. k PROVE at(i) \in Addr
  <2> HIDE DEF size, k
  <2>1. i \in Nat /\ 1 <= i /\ i <= k /\ i - 1 \in Nat
    BY <1>2
  <2>2. (i - 1) * size \in Nat
    BY <2>1, <1>1
  <2>3. i * size <= k * size
    BY <2>1, <1>1, <1>2
  <2>4. (i - 1) * size = i * size - size /\ i * size \in Nat /\ k * size \in Nat
    BY <2>1, <1>1, <1>2
  <2>5. (i - 1) * size <= n - 1
    BY <2>2, <2>3, <2>4, <1>1, <1>2
  <2>6. QED
    BY <2>2, <2>5 DEF Addr
<1>4. ASSUME NEW i \in 1 .. k
      PROVE  DATA(tmsg, at(i), Size(at(i), size)) \in Packet /\ ToReceiver(DATA(tmsg, at(i), Size(at(i), size)))
  <2> HIDE DEF size, k, at
  <2> QED
    BY <1>1, <1>3, <1>4, DataPacket
<1>5. Chunks(a, n) = [i \in 1 .. k |-> DATA(tmsg, at(i), Size(at(i), size))]
  BY DEF Chunks
<1>6. QED
  <2> HIDE DEF size, k, at
  <2>1. Chunks(a, n) \in Seq(Packet) /\ DOMAIN Chunks(a, n) = 1 .. k
    BY <1>2, <1>4, <1>5
  <2>2. \A i \in 1 .. k : Chunks(a, n)[i] = DATA(tmsg, at(i), Size(at(i), size))
    BY <1>5
  <2>3. QED
    BY <1>4, <2>1, <2>2 DEF DATA

(* Sending a packet of the message, whatever else is done.                  *)
LEMMA Sends ==
  ASSUME LinkInv, NEW p, Sendable(p), Send(p), circuit
  PROVE  /\ UNCHANGED circuit /\ circuit /\ back' = back
         /\ Grown(fwd', fwd, {q \in Packet : Sendable(q)})
<1>1. p \in Packet /\ p \in {q \in Packet : Sendable(q)}
  BY DEF Sendable
<1>2. fwd \in Seq(Packet) /\ fwd' = Append(fwd, p) /\ back' = back /\ circuit' = circuit
  BY DEF LinkInv, WireInv, LinkTypes, Send
<1>3. Grown(Append(fwd, p), fwd, {q \in Packet : Sendable(q)})
  BY <1>1, <1>2, AppendGrown
<1>4. QED
  BY <1>2, <1>3

(* What is sendable while a message is under way.                           *)
LEMMA SendableNow ==
  ASSUME LinkInv, ~Idle
  PROVE  /\ Sendable(SOM(tmsg))
         /\ somad => Sendable(EOM(tmsg))
         /\ \A a \in Addr, n \in 1 .. MaxPkt : Sendable(DATA(tmsg, a, Size(a, n)))
<1>1. tmsg \in Msgs
  BY DEF LinkInv, RouteInv, IInv, TypeOK
<1>2. Sendable(SOM(tmsg)) /\ (somad => Sendable(EOM(tmsg)))
  BY <1>1, OtherPackets DEF Sendable, SOM, EOM
<1>3. ASSUME NEW a \in Addr, NEW n \in 1 .. MaxPkt PROVE Sendable(DATA(tmsg, a, Size(a, n)))
  <2>1. DATA(tmsg, a, Size(a, n)) \in Packet /\ ToReceiver(DATA(tmsg, a, Size(a, n)))
    BY <1>1, DataPacket
  <2>2. DATA(tmsg, a, Size(a, n)).type = "DATA" /\ DATA(tmsg, a, Size(a, n)).id = tmsg
    BY DEF DATA
  <2>3. QED
    BY <2>1, <2>2 DEF Sendable
<1>4. QED
  BY <1>2, <1>3

(* The transmitter's own packets.                                           *)
LEMMA TransmitSends ==
  ASSUME LinkInv, SendSOM \/ SendAhead \/ SendNext \/ FirstEOM \/ RepeatEOM
  PROVE  SendStep
<1>t. /\ LinkTypes /\ Together /\ DataLeft /\ tmsg \in Msgs
      /\ outstate \in {"IDLE", "STARTING", "ACTIVE", "ENDING", "ENDED"} /\ outaddr \in 0 .. MsgSize
      /\ eof \in BOOLEAN /\ writing \in BOOLEAN /\ circuit \in BOOLEAN
  BY DEF LinkInv, WireInv, RouteInv, IInv, TypeOK, LinkTypes
<1>d. ASSUME outaddr < MsgSize, SendData, circuit, ~Idle
      PROVE  /\ UNCHANGED circuit /\ circuit /\ back' = back
             /\ Grown(fwd', fwd, {q \in Packet : Sendable(q)})
             /\ outaddr' \in 0 .. MsgSize /\ eof' \in BOOLEAN /\ (~eof' => outaddr' < MsgSize)
  <2>1. outaddr \in Addr /\ OutDataSize \in 1 .. MaxPkt
    BY <1>t, <1>d DEF Addr
  <2>2. Sendable(DATA(tmsg, outaddr, Size(outaddr, OutDataSize)))
    BY <1>d, <2>1, SendableNow
  <2>3. outaddr + Size(outaddr, OutDataSize) \in 1 .. MsgSize
    BY <1>t, <2>1, DataPacket
  <2>4. Send(DATA(tmsg, outaddr, Size(outaddr, OutDataSize)))
    BY <1>d DEF SendData
  <2>5. /\ UNCHANGED circuit /\ circuit /\ back' = back
        /\ Grown(fwd', fwd, {q \in Packet : Sendable(q)})
    BY <1>d, <2>2, <2>4, Sends
  <2>6. outaddr' = outaddr + Size(outaddr, OutDataSize) /\ eof' = (outaddr' = MsgSize)
    BY <1>d DEF SendData
  <2>7. outaddr' \in 1 .. MsgSize
    BY <2>3, <2>6
  <2>8. eof' \in BOOLEAN /\ (~eof' => outaddr' # MsgSize)
    BY <2>6, Zenon
  <2>9. ~eof' => outaddr' < MsgSize
    BY <2>7, <2>8
  <2>10. QED
    BY <2>5, <2>7, <2>8, <2>9
<1>1. CASE SendSOM
  <2>1. ~Idle /\ Send(SOM(tmsg)) /\ circuit /\ writing
    BY <1>1 DEF SendSOM, Sending, Idle
  <2>2. /\ UNCHANGED circuit /\ back' = back /\ Grown(fwd', fwd, {q \in Packet : Sendable(q)})
    BY <2>1, SendableNow, Sends
  <2>3. QED
    BY <1>1, <1>t, <2>1, <2>2 DEF SendSOM, SendStep, Idle, DataLeft
<1>2. CASE SendAhead
  <2>1. ~Idle /\ circuit /\ writing
    BY <1>2 DEF SendAhead, Sending, Idle
  <2>2. CASE eof
    <3>1. UNCHANGED <<outaddr, eof, circuit, fwd, back>>
      BY <1>2, <2>2 DEF SendAhead, wireVars
    <3>2. Grown(fwd', fwd, {q \in Packet : Sendable(q)})
      BY <3>1, <1>t, SameGrown DEF LinkTypes
    <3>3. QED
      BY <1>2, <1>t, <2>1, <2>2, <3>1, <3>2 DEF SendAhead, SendStep, Idle, DataLeft
  <2>3. CASE ~eof
    <3>1. SendData /\ outaddr < MsgSize
      BY <1>2, <1>t, <2>3 DEF SendAhead, DataLeft
    <3>2. QED
      BY <1>2, <1>d, <1>t, <2>1, <3>1 DEF SendAhead, SendStep, Idle, DataLeft
  <2>4. QED
    BY <2>2, <2>3
<1>3. CASE SendNext
  <2>1. ~Idle /\ circuit /\ writing /\ SendData /\ outaddr < MsgSize
    BY <1>3, <1>t DEF SendNext, Sending, Idle, DataLeft
  <2>2. QED
    BY <1>3, <1>d, <1>t, <2>1 DEF SendNext, SendStep, Idle, DataLeft, Together
<1>4. CASE FirstEOM
  <2>1. ~Idle /\ Send(EOM(tmsg)) /\ circuit /\ writing /\ somad
    BY <1>4, <1>t DEF FirstEOM, Sending, Idle, Together
  <2>2. /\ UNCHANGED circuit /\ back' = back /\ Grown(fwd', fwd, {q \in Packet : Sendable(q)})
    BY <2>1, SendableNow, Sends
  <2>3. QED
    BY <1>4, <1>t, <2>1, <2>2 DEF FirstEOM, SendStep, Idle, DataLeft
<1>5. CASE RepeatEOM
  <2>1. ~Idle /\ Send(EOM(tmsg)) /\ circuit /\ writing /\ somad
    BY <1>5, <1>t DEF RepeatEOM, Sending, Idle, Together
  <2>2. /\ UNCHANGED circuit /\ back' = back /\ Grown(fwd', fwd, {q \in Packet : Sendable(q)})
    BY <2>1, SendableNow, Sends
  <2>3. QED
    BY <1>5, <1>t, <2>1, <2>2 DEF RepeatEOM, SendStep, Idle, DataLeft
<1>6. QED
  BY <1>1, <1>2, <1>3, <1>4, <1>5

(* An MQE, when there is nothing to send.                                   *)
LEMMA MQESends ==
  ASSUME LinkInv, SendMQE
  PROVE  SendStep
<1>t. /\ LinkTypes /\ Together /\ DataLeft /\ QueueRight /\ tmsg \in Msgs
  BY DEF LinkInv, WireInv, RouteInv, IInv, TypeOK
<1>1. Sendable(MQE) /\ Send(MQE) /\ circuit /\ writing
  BY <1>t, OtherPackets DEF Sendable, SendMQE, Sending, MQE
<1>2. /\ UNCHANGED circuit /\ back' = back /\ Grown(fwd', fwd, {q \in Packet : Sendable(q)})
  BY <1>1, Sends
<1>3. UNCHANGED <<writing, has, outstate, outaddr, eof, count, queue, outsaved>>
  BY DEF SendMQE, outVars
<1>4. QED
  BY <1>t, <1>1, <1>2, <1>3 DEF SendMQE, SendStep, Idle, DataLeft, LinkTypes, Together

-----------------------------------------------------------------------------
(* Packets to the transmitter.                                              *)

(* The oldest is taken from its queue.                                      *)
LEMMA TakesAnswer ==
  ASSUME LinkInv, NEW p, Receiving(p)
  PROVE  /\ writing /\ circuit /\ 1 \in DOMAIN back /\ p = back[1] /\ ToTransmitter(p) /\ p \in Packet
         /\ Shortened(Tail(back), back)
         /\ p.type # "EOMA" => ~Idle
         /\ p.type = "NAK" \/ (p.type = "SOMA" /\ p.id = tmsg) => somad
<1>1. back \in Seq(Packet) /\ back # <<>> /\ p = Head(back) /\ writing /\ circuit
  BY DEF Receiving, LinkInv, WireInv, LinkTypes
<1>2. Shortened(Tail(back), back) /\ 1 \in DOMAIN back /\ p = back[1] /\ p \in Packet
  BY <1>1, TailShortened
<1>3. QED
  BY <1>1, <1>2 DEF LinkInv, WireInv, LinkTypes, BackRight, Together

(* An answer that is not for this message is dropped.                       *)
LEMMA DropsAnswer ==
  ASSUME LinkInv, NEW p, Receiving(p), Received, Quiet, UNCHANGED outVars
  PROVE  SendStep
<1>1. fwd \in Seq(Packet) /\ Shortened(back', back) /\ UNCHANGED <<circuit, fwd>> /\ circuit /\ writing
  BY TakesAnswer DEF Received, LinkInv, WireInv, LinkTypes
<1>2. Grown(fwd', fwd, {q \in Packet : Sendable(q)})
  BY <1>1, SameGrown
<1>3. QED
  BY <1>1, <1>2 DEF SendStep, outVars, Idle, DataLeft, LinkInv, WireInv, LinkTypes, Together

(* A SOMA sets the transmitter to work, or to ending.                       *)
LEMMA SOMASends ==
  ASSUME LinkInv, NEW p, RecvSOMA(p)
  PROVE  SendStep
<1>t. /\ LinkTypes /\ Together /\ DataLeft /\ QueueRight /\ tmsg \in Msgs /\ fwd \in Seq(Packet)
      /\ outstate \in {"IDLE", "STARTING", "ACTIVE", "ENDING", "ENDED"} /\ outaddr \in 0 .. MsgSize
      /\ eof \in BOOLEAN
  BY DEF LinkInv, WireInv, RouteInv, IInv, TypeOK, LinkTypes
<1>p. /\ writing /\ circuit /\ p \in Packet /\ Shortened(Tail(back), back) /\ ~Idle
      /\ (p.id = tmsg => somad) /\ p.addr \in 0 .. MsgSize
  BY TakesAnswer DEF RecvSOMA, Packet
<1>1. CASE ~Mine(p)
  BY <1>1, DropsAnswer DEF RecvSOMA
<1>2. CASE Mine(p)
  <2>1. /\ outaddr' = IF p.addr # 0 THEN p.addr ELSE outaddr
        /\ IF outaddr' < MsgSize
           THEN /\ outstate' = "ACTIVE" /\ eof' = FALSE /\ Received /\ UNCHANGED count
           ELSE /\ outstate' = "ENDING" /\ count' = MAX_EOMS - 1 /\ UNCHANGED eof
                /\ back' = Tail(back) /\ fwd' = Append(fwd, EOM(tmsg))
                /\ UNCHANGED <<circuit, losses>>
        /\ UNCHANGED <<writing, has, somdue, queue>> /\ SaveOut /\ Quiet
    BY <1>2 DEF RecvSOMA
  <2>2. somad /\ outaddr' \in 0 .. MsgSize
    BY <1>2, <1>p, <1>t, <2>1 DEF Mine
  <2>3. back' = Tail(back) /\ UNCHANGED circuit
    BY <2>1 DEF Received
  <2>4. Grown(fwd', fwd, {q \in Packet : Sendable(q)})
    <3>1. CASE outaddr' < MsgSize
      <4>1. fwd' = fwd
        BY <2>1, <3>1 DEF Received
      <4>2. QED
        BY <4>1, <1>t, SameGrown
    <3>2. CASE ~(outaddr' < MsgSize)
      <4>1. fwd' = Append(fwd, EOM(tmsg)) /\ Sendable(EOM(tmsg)) /\ EOM(tmsg) \in Packet
        BY <2>1, <2>2, <3>2, <1>p, <1>t, SendableNow, OtherPackets
      <4>2. EOM(tmsg) \in {q \in Packet : Sendable(q)}
        BY <4>1
      <4>3. Grown(Append(fwd, EOM(tmsg)), fwd, {q \in Packet : Sendable(q)})
        BY <4>1, <4>2, <1>t, AppendGrown
      <4>4. QED
        BY <4>1, <4>3
    <3>3. QED
      BY <3>1, <3>2
  <2>5. outstate' \in {"ACTIVE", "ENDING"} /\ eof' \in BOOLEAN /\ (outstate' = "ACTIVE" => outaddr' < MsgSize)
    BY <2>1, <1>t
  <2>6. DataLeft'
    BY <2>5 DEF DataLeft
  <2>7. QED
    BY <1>p, <2>1, <2>2, <2>3, <2>4, <2>5, <2>6 DEF SendStep, Idle
<1>3. QED
  BY <1>1, <1>2

(* A NAK is answered with the data it asks for, or by starting again there. *)
LEMMA NAKSends ==
  ASSUME LinkInv, NEW p, RecvNAK(p)
  PROVE  SendStep
<1>t. /\ LinkTypes /\ Together /\ DataLeft /\ QueueRight /\ tmsg \in Msgs /\ fwd \in Seq(Packet)
      /\ outstate \in {"IDLE", "STARTING", "ACTIVE", "ENDING", "ENDED"} /\ outaddr \in 0 .. MsgSize
      /\ eof \in BOOLEAN
  BY DEF LinkInv, WireInv, RouteInv, IInv, TypeOK, LinkTypes
<1>p. /\ writing /\ circuit /\ p \in Packet /\ Shortened(Tail(back), back) /\ ~Idle /\ somad
      /\ p.addr \in Addr /\ p.len \in 1 .. MsgSize /\ p.addr + p.len <= MsgSize
      /\ Receiving(p) /\ Quiet
  <2>1. Receiving(p) /\ p.type = "NAK" /\ Quiet
    BY DEF RecvNAK
  <2>2. QED
    BY <2>1, TakesAnswer DEF ToTransmitter
<1>1. CASE outstate \in {"IDLE", "ENDED"} \/ outaddr < p.addr
  BY <1>1, <1>p, DropsAnswer DEF RecvNAK
<1>2. CASE ~(outstate \in {"IDLE", "ENDED"} \/ outaddr < p.addr) /\ p.len = MsgSize
  <2>1. /\ outstate' = "ACTIVE" /\ outaddr' = p.addr /\ eof' = FALSE
        /\ Received /\ UNCHANGED <<writing, has, count, somdue, queue, outsaved>>
    BY <1>2 DEF RecvNAK
  <2>2. fwd' = fwd /\ back' = Tail(back) /\ UNCHANGED circuit
    BY <2>1 DEF Received
  <2>3. Grown(fwd', fwd, {q \in Packet : Sendable(q)})
    BY <2>2, <1>t, SameGrown
  <2>4. outaddr' \in 0 .. MsgSize /\ outaddr' < MsgSize
    BY <2>1, <1>p DEF Addr
  <2>5. DataLeft'
    BY <2>1, <2>4 DEF DataLeft
  <2>6. QED
    BY <1>p, <2>1, <2>2, <2>3, <2>4, <2>5 DEF SendStep, Idle
<1>3. CASE ~(outstate \in {"IDLE", "ENDED"} \/ outaddr < p.addr) /\ p.len # MsgSize
  <2>1. /\ back' = Tail(back) /\ fwd' = fwd \o Chunks(p.addr, p.len)
        /\ UNCHANGED <<outVars, circuit, losses>>
    BY <1>3 DEF RecvNAK
  <2>2. /\ Chunks(p.addr, p.len) \in Seq(Packet)
        /\ \A i \in DOMAIN Chunks(p.addr, p.len) :
             /\ ToReceiver(Chunks(p.addr, p.len)[i])
             /\ Chunks(p.addr, p.len)[i].type = "DATA" /\ Chunks(p.addr, p.len)[i].id = tmsg
    BY <1>p, <1>t, ChunksRight
  <2>3. ASSUME NEW c \in Seq(Packet), \A i \in DOMAIN c : ToReceiver(c[i]) /\ c[i].type = "DATA" /\ c[i].id = tmsg
        PROVE  \A i \in DOMAIN c : c[i] \in {q \in Packet : Sendable(q)}
    BY <2>3, <1>p, ElementOfSeq DEF Sendable
  <2>4. \A i \in DOMAIN Chunks(p.addr, p.len) : Chunks(p.addr, p.len)[i] \in {q \in Packet : Sendable(q)}
    BY <2>2, <2>3
  <2>5. Grown(fwd', fwd, {q \in Packet : Sendable(q)})
    BY <2>1, <2>2, <2>4, <1>t, ConcatGrown
  <2>6. UNCHANGED <<writing, has, outstate, outaddr, eof, count, somdue, queue, outsaved, circuit>>
    BY <2>1 DEF outVars
  <2>7. QED
    BY <1>p, <1>t, <2>1, <2>5, <2>6 DEF SendStep, Idle, DataLeft
<1>4. QED
  BY <1>1, <1>2, <1>3

(* The acknowledgement that lets the transmitter go on: all packets of the  *)
(* message are now late ones, and what else comes back is acknowledgements. *)
LEMMA EOMAKeeps ==
  ASSUME LinkInv, NEW p, RecvEOMA(p)
  PROVE  WireInv'
<1>p. /\ writing /\ circuit /\ 1 \in DOMAIN back /\ p = back[1] /\ ToTransmitter(p)
      /\ Shortened(back', back) /\ p.type = "EOMA" /\ Receiving(p) /\ Received /\ Quiet
      /\ UNCHANGED <<writing, has, outaddr, eof, count, somdue, queue>>
  BY TakesAnswer DEF RecvEOMA, Received
<1>1. CASE ~Mine(p)
  <2>1. UNCHANGED outVars
    BY <1>1, <1>p DEF RecvEOMA, outVars
  <2>2. QED
    BY <1>p, <2>1, DropsAnswer, SendKeeps
<1>2. CASE Mine(p)
  <2>q. /\ UNCHANGED <<up, pc, chan, tmsg, somad, acked, mixed, canceled, has, queue, writing, circuit, fwd>>
        /\ UNCHANGED <<outaddr, eof, count>>
        /\ outstate' = "IDLE" /\ SaveOut /\ has /\ p.id = tmsg /\ tmsg \in acked
        /\ tmsg \in Msgs /\ Phase
    BY <1>2, <1>p DEF Quiet, vars, readVars, sendVars, histVars, Received, RecvEOMA, Mine, ToTransmitter,
       LinkInv, RouteInv, IInv, TypeOK
  <2>b. \A i \in DOMAIN back' : i + 1 \in DOMAIN back /\ back'[i] = back[i + 1] /\ i \in Nat /\ 1 < i + 1
    BY <1>p DEF Shortened
  <2>d. Done(tmsg)
    BY <1>p, <2>q DEF LinkInv, WireInv, BackRight
  <2>e. \A i \in DOMAIN back' : back'[i].type = "EOMA"
    BY <1>p, <2>q, <2>b DEF LinkInv, WireInv, BackRight
  <2>1. LinkTypes'
    <3>1. \A i \in DOMAIN back' : ToTransmitter(back'[i])
      BY <2>b DEF LinkInv, WireInv, LinkTypes
    <3>2. back' \in Seq(Packet) /\ outsaved'.addr \in 0 .. MsgSize
      BY <1>p, <2>q DEF Shortened, SaveOut, LinkInv, WireInv, LinkTypes
    <3>3. QED
      BY <2>q, <3>1, <3>2 DEF LinkInv, WireInv, LinkTypes, ToTransmitter, ToReceiver
  <2>2. QueueRight'
    <3>1. outsaved'.id = tmsg
      BY <2>q DEF SaveOut
    <3>2. QED
      BY <2>q, <3>1 DEF LinkInv, WireInv, QueueRight, InQueue, Idle
  <2>3. DataLeft'
    BY <2>q DEF DataLeft
  <2>4. Together'
    <3>1. pc # "passed" /\ (pc = "ready" => ~Assembling)
      BY <2>q, <2>d DEF Done, Phase, Assembling
    <3>2. /\ Assembling' <=> Assembling
          /\ Reading' <=> Reading
      BY <2>q DEF Assembling, Reading
    <3>3. Together
      BY DEF LinkInv, WireInv
    <3>4. outstate' \notin {"ACTIVE", "ENDING"}
      BY <2>q
    <3>5. circuit
      BY <1>p
    <3>6. QED
      BY <2>q, <2>e, <3>1, <3>2, <3>3, <3>4, <3>5 DEF Together
  <2>5. FwdRight'
    BY <2>q, <2>d DEF LinkInv, WireInv, FwdRight, Idle, Done
  <2>6. BackRight'
    BY <2>q, <2>d, <2>e DEF BackRight, Done
  <2>7. QED
    BY <2>1, <2>2, <2>3, <2>4, <2>5, <2>6 DEF WireInv
<1>3. QED
  BY <1>1, <1>2

-----------------------------------------------------------------------------
(* The command files.                                                       *)

(* The head of the queue, and the rest.                                     *)
LEMMA QueueHead ==
  ASSUME LinkInv, queue # <<>>
  PROVE  /\ 1 \in DOMAIN queue /\ Head(queue) = queue[1] /\ Head(queue) \in Msgs
         /\ Tail(queue) \in Seq(Msgs)
         /\ \A i \in DOMAIN Tail(queue) :
              i + 1 \in DOMAIN queue /\ i \in Nat /\ i >= 1 /\ Tail(queue)[i] = queue[i + 1]
<1>1. queue \in Seq(Msgs) /\ Len(queue) \in Nat /\ Len(queue) > 0 /\ DOMAIN queue = 1 .. Len(queue)
  BY DEF LinkInv, WireInv, LinkTypes
<1>2. /\ Tail(queue) \in Seq(Msgs) /\ Len(Tail(queue)) = Len(queue) - 1
      /\ DOMAIN Tail(queue) = 1 .. Len(queue) - 1
      /\ \A i \in 1 .. Len(queue) - 1 : Tail(queue)[i] = queue[i + 1]
      /\ Head(queue) = queue[1]
  BY <1>1
<1>3. QED
  BY <1>1, <1>2

(* Removing that of the acknowledged message.                               *)
LEMMA CleanUpKeeps ==
  ASSUME LinkInv, CleanUp
  PROVE  WireInv'
<1>q. /\ UNCHANGED <<up, pc, chan, tmsg, somad, acked, mixed, canceled>>
      /\ UNCHANGED <<writing, outstate, outaddr, eof, count, somdue, outsaved, circuit, fwd, back>>
      /\ Idle /\ has /\ has' = FALSE /\ queue' = Tail(queue)
      /\ tmsg \in acked /\ InQueue(tmsg)
  BY DEF CleanUp, Quiet, vars, readVars, sendVars, histVars, wireVars, Idle, LinkInv, WireInv, QueueRight
<1>h. /\ queue # <<>> /\ queue' \in Seq(Msgs) /\ 1 \in DOMAIN queue
      /\ \A i \in DOMAIN queue' : i + 1 \in DOMAIN queue /\ i \in Nat /\ i >= 1 /\ queue'[i] = queue[i + 1]
  <2>1. queue # <<>>
    BY <1>q DEF InQueue
  <2>2. QED
    BY <1>q, <2>1, QueueHead
<1>u. /\ \A i, j \in DOMAIN queue : queue[i] = queue[j] => i = j
      /\ \A i \in DOMAIN queue : queue[i] = tmsg => i = 1
      /\ \A i \in DOMAIN queue : queue[i] \in acked => queue[i] = tmsg
      /\ InQueue(outsaved.id) => outsaved.id = tmsg
      /\ canceled = {}
  BY DEF LinkInv, WireInv, QueueRight
<1>n. \A i \in DOMAIN queue' : queue'[i] # tmsg /\ queue'[i] \notin acked
  <2>1. SUFFICES ASSUME NEW i \in DOMAIN queue', queue'[i] = tmsg \/ queue'[i] \in acked PROVE FALSE
    OBVIOUS
  <2>2. queue[i + 1] = tmsg /\ i + 1 \in DOMAIN queue /\ i \in Nat /\ i >= 1
    BY <1>h, <1>u, <2>1
  <2>3. i + 1 = 1
    BY <1>u, <2>2
  <2>4. QED
    BY <2>2, <2>3
<1>1. LinkTypes'
  <2>1. /\ \A i \in DOMAIN fwd' : ToReceiver(fwd'[i])
        /\ \A i \in DOMAIN back' : ToTransmitter(back'[i])
        /\ fwd' \in Seq(Packet) /\ back' \in Seq(Packet)
    BY <1>q DEF LinkInv, WireInv, LinkTypes
  <2>2. /\ writing' \in BOOLEAN /\ has' \in BOOLEAN /\ eof' \in BOOLEAN /\ circuit' \in BOOLEAN
        /\ outstate' \in {"IDLE", "STARTING", "ACTIVE", "ENDING", "ENDED"}
        /\ outaddr' \in 0 .. MsgSize /\ outsaved'.addr \in 0 .. MsgSize /\ queue' \in Seq(Msgs)
    BY <1>q, <1>h DEF LinkInv, WireInv, LinkTypes
  <2>3. acked \subseteq acked'
    BY <1>q
  <2>4. QED
    BY <2>1, <2>2, <2>3, TypesKept
<1>2. QueueRight'
  <2>1. \A i, j \in DOMAIN queue' : queue'[i] = queue'[j] => i = j
    <3>1. SUFFICES ASSUME NEW i \in DOMAIN queue', NEW j \in DOMAIN queue', queue'[i] = queue'[j] PROVE i = j
      OBVIOUS
    <3>2. i + 1 \in DOMAIN queue /\ j + 1 \in DOMAIN queue /\ queue[i + 1] = queue[j + 1]
          /\ i \in Nat /\ j \in Nat
      BY <1>h, <3>1
    <3>3. i + 1 = j + 1
      BY <1>u, <3>2
    <3>4. QED
      BY <3>2, <3>3
  <2>2. InQueue(outsaved.id)' => InQueue(outsaved.id)
    BY <1>q, <1>h DEF InQueue
  <2>3. QED
    BY <1>q, <1>u, <1>n, <2>1, <2>2 DEF QueueRight, Idle, InQueue
<1>3. DataLeft'
  BY <1>q DEF LinkInv, WireInv, DataLeft
<1>4. Together'
  BY <1>q DEF LinkInv, WireInv, Together, Reading, Assembling, Idle
<1>5. FwdRight'
  <2>1. \A i \in DOMAIN fwd : fwd[i].type # "MQE"
    BY <1>q DEF LinkInv, WireInv, FwdRight
  <2>2. QED
    BY <1>q, <2>1 DEF LinkInv, WireInv, FwdRight, Idle, Done
<1>6. BackRight'
  BY <1>q DEF LinkInv, WireInv, BackRight, Done
<1>7. QED
  BY <1>1, <1>2, <1>3, <1>4, <1>5, <1>6 DEF WireInv

(* What is at the head of the queue is new, or was already worked at.       *)
LEMMA HeadNew ==
  ASSUME LinkInv, queue # <<>>, Head(queue) # tmsg
  PROVE  tmsg \in acked /\ Head(queue) \notin acked
<1>1. /\ 1 \in DOMAIN queue /\ Head(queue) = queue[1]
  BY QueueHead
<1>2. /\ \A i \in DOMAIN queue : queue[i] = tmsg => i = 1
      /\ \A i \in DOMAIN queue : queue[i] \in acked => queue[i] = tmsg
      /\ InQueue(tmsg) \/ tmsg \in acked
  BY DEF LinkInv, WireInv, QueueRight
<1>3. QED
  BY <1>1, <1>2 DEF InQueue

(* Taking the next message: whatever is still on its way is of a message    *)
(* done with.                                                               *)
LEMMA FindMessageKeeps ==
  ASSUME LinkInv, FindMessage
  PROVE  WireInv'
<1> DEFINE m == Head(queue)
<1>q. /\ UNCHANGED <<up, pc, chan, acked, mixed, canceled, writing, queue, circuit, back>>
      /\ Idle /\ ~has /\ has' = TRUE /\ circuit /\ writing /\ queue # <<>> /\ tmsg' = m
      /\ somad' = (somad /\ m = tmsg) /\ outstate' = "STARTING" /\ outaddr' = 0 /\ eof' = FALSE
      /\ fwd' = Append(fwd, SOM(m)) /\ outsaved' = [id |-> m, addr |-> 0]
  BY DEF FindMessage, Sending, Idle, Send, SaveOut, StartMessage, readVars, histVars
<1>h. /\ 1 \in DOMAIN queue /\ m = queue[1] /\ m \in Msgs /\ m # NoMsg
      /\ (m # tmsg => tmsg \in acked /\ m \notin acked)
      /\ fwd \in Seq(Packet) /\ back \in Seq(Packet) /\ tmsg \in Msgs
  BY <1>q, QueueHead, HeadNew DEF LinkInv, WireInv, LinkTypes, RouteInv, IInv, TypeOK
<1>s. /\ SOM(m) \in Packet /\ ToReceiver(SOM(m)) /\ SOM(m).id = m /\ SOM(m).type = "SOM"
  BY <1>h DEF SOM, Packet, ToReceiver
<1>g. Grown(fwd', fwd, {SOM(m)})
  <2> HIDE DEF m
  <2>1. SOM(m) \in {SOM(m)}
    OBVIOUS
  <2>2. Grown(Append(fwd, SOM(m)), fwd, {SOM(m)})
    BY <2>1, <1>s, <1>h, AppendGrown
  <2>3. QED
    BY <2>2, <1>q
<1>f. /\ fwd' \in Seq(Packet) /\ \A i \in DOMAIN fwd' : (i \in DOMAIN fwd /\ fwd'[i] = fwd[i]) \/ fwd'[i] = SOM(m)
      /\ \A i, j \in DOMAIN fwd' : i < j => i \in DOMAIN fwd
  <2>1. /\ DOMAIN fwd = 1 .. Len(fwd) /\ Len(fwd) \in Nat /\ DOMAIN fwd' = 1 .. Len(fwd) + 1
    BY <1>h, <1>q, <1>s
  <2>2. QED
    BY <1>g, <2>1 DEF Grown
<1> HIDE DEF m
<1>o. \A i \in DOMAIN fwd : /\ fwd[i].id # NoMsg => Done(fwd[i].id) /\ fwd[i].id \in acked
                            /\ fwd[i].type # "MQE"
                            /\ fwd[i].type = "EOM" /\ fwd[i].id = tmsg => somad
  BY <1>q DEF LinkInv, WireInv, FwdRight
<1>b. \A i \in DOMAIN back : back[i].type = "EOMA" /\ back[i].id \in acked
  BY <1>q DEF LinkInv, WireInv, Together, LinkTypes, ToTransmitter
<1>1. LinkTypes'
  <2>1. \A i \in DOMAIN fwd' : ToReceiver(fwd'[i])
    BY <1>f, <1>s DEF LinkInv, WireInv, LinkTypes
  <2>2. back' \in Seq(Packet) /\ \A i \in DOMAIN back' : ToTransmitter(back'[i])
    BY <1>q DEF LinkInv, WireInv, LinkTypes
  <2>3. /\ writing' \in BOOLEAN /\ has' \in BOOLEAN /\ eof' \in BOOLEAN /\ circuit' \in BOOLEAN
        /\ outstate' \in {"IDLE", "STARTING", "ACTIVE", "ENDING", "ENDED"}
        /\ outaddr' \in 0 .. MsgSize /\ outsaved'.addr \in 0 .. MsgSize /\ queue' \in Seq(Msgs)
    <3>1. writing \in BOOLEAN /\ circuit \in BOOLEAN /\ queue \in Seq(Msgs) /\ 0 \in 0 .. MsgSize
      BY DEF LinkInv, WireInv, LinkTypes
    <3>2. outsaved'.addr = 0
      BY <1>q
    <3>3. QED
      BY <1>q, <3>1, <3>2
  <2>4. acked \subseteq acked' /\ fwd' \in Seq(Packet)
    BY <1>q, <1>f
  <2>5. QED
    BY <2>1, <2>2, <2>3, <2>4, TypesKept
<1>2. QueueRight'
  <2>1. /\ \A i, j \in DOMAIN queue : queue[i] = queue[j] => i = j
        /\ \A i \in DOMAIN queue : queue[i] \in acked => queue[i] = tmsg
        /\ \A i \in DOMAIN queue : queue[i] = tmsg => i = 1
        /\ canceled = {}
    BY DEF LinkInv, WireInv, QueueRight
  <2>3. \A i \in DOMAIN queue : queue[i] \in acked => queue[i] = m
    BY <1>h, <2>1
  <2>4. \A i \in DOMAIN queue : queue[i] = m => i = 1
    BY <1>h, <2>1
  <2>5. ~Idle'
    BY <1>q DEF Idle
  <2>6. outsaved'.id = m
    BY <1>q
  <2>7. InQueue(tmsg)'
    BY <1>h, <1>q DEF InQueue
  <2>8. QED
    BY <1>q, <2>1, <2>3, <2>4, <2>5, <2>6, <2>7 DEF QueueRight
<1>3. DataLeft'
  BY <1>q DEF DataLeft
<1>4. Together'
  <2>1. Together
    BY DEF LinkInv, WireInv
  <2>2. ~(Reading /\ Assembling)'
    BY <1>q, <2>1 DEF Together, Reading, Assembling
  <2>3. up /\ writing /\ mixed = {}
    BY <1>q, <2>1 DEF Together
  <2>4. QED
    BY <1>q, <2>2, <2>3 DEF Together, Idle
<1>5. FwdRight'
  <2>1. \A i \in DOMAIN fwd' : fwd'[i].id # NoMsg /\ fwd'[i].id # m => Done(fwd'[i].id) /\ fwd'[i].id \in acked
    BY <1>f, <1>o, <1>s
  <2>2. \A i, j \in DOMAIN fwd' : i < j /\ fwd'[i].id = m => fwd'[j].id \in {m, NoMsg}
    <3>1. SUFFICES ASSUME NEW i \in DOMAIN fwd', NEW j \in DOMAIN fwd', i < j, fwd'[i].id = m,
                          j \in DOMAIN fwd, fwd'[j] = fwd[j]
                   PROVE  fwd[j].id \in {m, NoMsg}
      BY <1>f, <1>s
    <3>2. i \in DOMAIN fwd /\ fwd'[i] = fwd[i]
      BY <1>f, <1>g, <3>1 DEF Grown
    <3>3. m \in acked /\ m = tmsg
      BY <1>h, <1>o, <3>1, <3>2
    <3>4. QED
      BY <3>1, <3>2, <3>3 DEF LinkInv, WireInv, FwdRight
  <2>3. \A i \in DOMAIN fwd' : fwd'[i].type = "EOM" /\ fwd'[i].id = m => somad'
    <3>1. SUFFICES ASSUME NEW i \in DOMAIN fwd', fwd'[i].type = "EOM", fwd'[i].id = m PROVE somad'
      OBVIOUS
    <3>2. i \in DOMAIN fwd /\ fwd'[i] = fwd[i]
      BY <3>1, <1>f, <1>s
    <3>3. m \in acked /\ m = tmsg
      BY <1>h, <1>o, <3>1, <3>2
    <3>4. somad
      BY <1>o, <3>1, <3>2, <3>3
    <3>5. QED
      BY <1>q, <3>3, <3>4
  <2>4. \A i \in DOMAIN fwd' : fwd'[i].type # "MQE"
    BY <1>f, <1>o, <1>s
  <2>5. ~Idle' /\ tmsg' = m /\ acked' = acked /\ \A x : Done(x)' <=> Done(x)
    BY <1>q DEF Idle, Done
  <2>6. QED
    BY <1>q, <2>1, <2>2, <2>3, <2>4, <2>5 DEF FwdRight, Done
<1>6. BackRight'
  <2>1. \A i \in DOMAIN back : back[i].type = "EOMA" /\ back[i].id = m => Done(m)
    <3>1. SUFFICES ASSUME NEW i \in DOMAIN back, back[i].type = "EOMA", back[i].id = m PROVE Done(m)
      OBVIOUS
    <3>2. m = tmsg
      BY <1>b, <1>h, <3>1
    <3>3. QED
      BY <3>1, <3>2 DEF LinkInv, WireInv, BackRight
  <2>2. QED
    BY <1>q, <1>b, <2>1 DEF BackRight, Done
<1>7. QED
  BY <1>1, <1>2, <1>3, <1>4, <1>5, <1>6 DEF WireInv

-----------------------------------------------------------------------------
(* Steps of the receiver, which takes packets and answers, not both         *)
(* acknowledging the message and asking for more.                           *)
Unacknowledged == \A i \in DOMAIN back : ~(back[i].type = "EOMA" /\ back[i].id = tmsg)

DeliverStep ==
  /\ UNCHANGED <<outVars, circuit, canceled, mixed, tmsg>>
  /\ circuit => up'
  /\ somad => somad'
  /\ acked \subseteq acked' /\ acked' \subseteq acked \cup {tmsg}
  /\ fwd' = fwd \/ Shortened(fwd', fwd)
  /\ \/ Grown(back', back, {p \in Packet : /\ p.type = "EOMA" /\ p.id \in acked'
                                           /\ p.id = tmsg => Done(tmsg)'})
     \/ /\ ~Idle /\ Unacknowledged /\ somad'
        /\ Grown(back', back, {p \in Packet : p.type \in {"SOMA", "NAK"} /\ ToTransmitter(p)})
  /\ ~circuit => fwd' = fwd /\ back' = back
  /\ (Reading /\ Assembling)' => chan'.msgid = tmsg /\ somad'
  /\ circuit /\ Idle => pc' # "passed" /\ (pc' = "ready" => ~Assembling')
  /\ \/ \A m : Done(m) => Done(m)'
     \/ /\ ~Idle /\ Unacknowledged
        /\ \A i \in DOMAIN fwd' : fwd'[i].id \in {tmsg, NoMsg}

(* They keep the invariant.                                                 *)
LEMMA DeliverKeeps ==
  ASSUME LinkInv, DeliverStep
  PROVE  WireInv'
<1>q. /\ UNCHANGED <<writing, has, outstate, outaddr, eof, count, somdue, queue, outsaved,
                     circuit, canceled, mixed, tmsg>>
      /\ circuit => up'
      /\ somad => somad'
      /\ acked \subseteq acked' /\ acked' \subseteq acked \cup {tmsg}
      /\ Idle' <=> Idle
  BY DEF DeliverStep, outVars, Idle
<1>f. /\ fwd \in Seq(Packet) /\ fwd' \in Seq(Packet)
      /\ \A i \in DOMAIN fwd' : \E k \in {0, 1} : i + k \in DOMAIN fwd /\ fwd'[i] = fwd[i + k]
      /\ \A i, j \in DOMAIN fwd' : i < j =>
           \E k \in {0, 1} : /\ i + k \in DOMAIN fwd /\ fwd'[i] = fwd[i + k]
                             /\ j + k \in DOMAIN fwd /\ fwd'[j] = fwd[j + k] /\ i + k < j + k
  <2>1. CASE fwd' = fwd
    <3>1. fwd \in Seq(Packet) /\ \A i \in DOMAIN fwd' : i + 0 \in DOMAIN fwd /\ fwd'[i] = fwd[i + 0] /\ i \in Nat
      BY <2>1 DEF LinkInv, WireInv, LinkTypes
    <3>2. QED
      BY <2>1, <3>1
  <2>2. CASE Shortened(fwd', fwd)
    <3>1. fwd \in Seq(Packet) /\ fwd' \in Seq(Packet)
          /\ \A i \in DOMAIN fwd' : i + 1 \in DOMAIN fwd /\ fwd'[i] = fwd[i + 1] /\ i \in Nat
      BY <2>2 DEF Shortened, LinkInv, WireInv, LinkTypes
    <3>2. QED
      BY <3>1
  <2>3. QED
    BY <2>1, <2>2 DEF DeliverStep
<1>b. /\ back \in Seq(Packet) /\ back' \in Seq(Packet)
      /\ DOMAIN back = 1 .. Len(back) /\ Len(back) \in Nat /\ DOMAIN back' = 1 .. Len(back')
      /\ Len(back') \in Nat /\ Len(back) <= Len(back')
  BY DEF DeliverStep, Grown, LinkInv, WireInv, LinkTypes
<1>c. \/ \A i \in DOMAIN back' : \/ i \in DOMAIN back /\ back'[i] = back[i]
                                 \/ /\ i \notin DOMAIN back
                                    /\ back'[i].type = "EOMA" /\ back'[i].id \in acked'
                                    /\ back'[i].id = tmsg => Done(tmsg)'
      \/ /\ ~Idle /\ Unacknowledged /\ somad'
         /\ \A i \in DOMAIN back' : \/ i \in DOMAIN back /\ back'[i] = back[i]
                                    \/ /\ i \notin DOMAIN back
                                       /\ back'[i].type \in {"SOMA", "NAK"} /\ ToTransmitter(back'[i])
  BY DEF DeliverStep, Grown
<1>d. \/ \A m : Done(m) => Done(m)'
      \/ /\ ~Idle /\ Unacknowledged
         /\ \A i \in DOMAIN fwd' : fwd'[i].id \in {tmsg, NoMsg}
  BY DEF DeliverStep
<1>1. LinkTypes'
  <2>1. \A i \in DOMAIN fwd' : ToReceiver(fwd'[i])
    BY <1>f DEF LinkInv, WireInv, LinkTypes
  <2>2. \A i \in DOMAIN back' : ToTransmitter(back'[i]) \/ (back'[i].type = "EOMA" /\ back'[i].id \in acked')
    BY <1>c DEF LinkInv, WireInv, LinkTypes
  <2>3. /\ writing' \in BOOLEAN /\ has' \in BOOLEAN /\ eof' \in BOOLEAN /\ circuit' \in BOOLEAN
        /\ outstate' \in {"IDLE", "STARTING", "ACTIVE", "ENDING", "ENDED"}
        /\ outaddr' \in 0 .. MsgSize /\ outsaved'.addr \in 0 .. MsgSize /\ queue' \in Seq(Msgs)
    BY <1>q DEF LinkInv, WireInv, LinkTypes
  <2>4. QED
    BY <1>f, <1>b, <1>q, <2>1, <2>2, <2>3, TypesKept
<1>2. QueueRight'
  BY <1>q DEF LinkInv, WireInv, QueueRight, InQueue
<1>3. DataLeft'
  BY <1>q DEF LinkInv, WireInv, DataLeft
<1>4. Together'
  <2>1. Together
    BY DEF LinkInv, WireInv
  <2>2. /\ ~circuit' => fwd' = <<>> /\ back' = <<>>
        /\ circuit' => up' /\ writing'
        /\ mixed' = {}
        /\ circuit' /\ outstate' \in {"ACTIVE", "ENDING"} => somad'
    BY <1>q, <2>1 DEF Together, DeliverStep
  <2>3. (Reading /\ Assembling)' => (chan.msgid = tmsg /\ somad)'
    BY <1>q DEF DeliverStep
  <2>4. circuit' /\ Idle' => pc' # "passed" /\ (pc' = "ready" => ~Assembling')
    BY <1>q DEF DeliverStep
  <2>5. circuit' /\ Idle' => \A i \in DOMAIN back' : back'[i].type = "EOMA"
    <3>1. circuit /\ Idle => \A i \in DOMAIN back : back[i].type = "EOMA"
      BY <2>1 DEF Together
    <3>2. QED
      BY <1>q, <1>c, <3>1
  <2>6. QED
    BY <2>2, <2>3, <2>4, <2>5 DEF Together
<1>5. FwdRight'
  <2>1. \A i \in DOMAIN fwd' : fwd'[i].id # NoMsg /\ (fwd'[i].id # tmsg \/ Idle) =>
          Done(fwd'[i].id) /\ fwd'[i].id \in acked
    BY <1>f DEF LinkInv, WireInv, FwdRight
  <2>2. ASSUME NEW i \in DOMAIN fwd', fwd'[i].id # NoMsg, fwd'[i].id # tmsg \/ Idle
        PROVE  /\ chan'.msgid = fwd'[i].id /\ (chan'.state = "ENDED" \/ pc' = "acked")
               /\ fwd'[i].id \in acked'
    <3>1. \A m : Done(m) => Done(m)'
      BY <2>2, <1>d
    <3>2. \A m : Done(m) => chan'.msgid = m /\ (chan'.state = "ENDED" \/ pc' = "acked")
      BY <3>1 DEF Done
    <3>3. QED
      BY <2>1, <2>2, <3>2, <1>q
  <2>3. \A i, j \in DOMAIN fwd' : i < j /\ fwd'[i].id = tmsg => fwd'[j].id \in {tmsg, NoMsg}
    BY <1>f DEF LinkInv, WireInv, FwdRight
  <2>4. \A i \in DOMAIN fwd' : fwd'[i].type = "EOM" /\ fwd'[i].id = tmsg => somad'
    BY <1>f, <1>q DEF LinkInv, WireInv, FwdRight
  <2>5. \A i \in DOMAIN fwd' : fwd'[i].type = "MQE" => queue = <<>> /\ ~has
    BY <1>f DEF LinkInv, WireInv, FwdRight
  <2>6. QED
    BY <1>q, <2>2, <2>3, <2>4, <2>5 DEF FwdRight, Done
<1>6. BackRight'
  <2>0. /\ \A i \in DOMAIN back : back[i].type = "NAK" => somad
        /\ \A i \in DOMAIN back : back[i].type = "SOMA" /\ back[i].id = tmsg => somad
        /\ \A i \in DOMAIN back : back[i].type = "EOMA" /\ back[i].id = tmsg => Done(tmsg)
        /\ \A i, j \in DOMAIN back :
             i < j /\ back[i].type = "EOMA" /\ back[i].id = tmsg => back[j].type = "EOMA"
    BY DEF LinkInv, WireInv, BackRight
  <2>1. \A i \in DOMAIN back' : back'[i].type = "NAK" => somad'
    BY <1>c, <1>q, <2>0
  <2>2. \A i \in DOMAIN back' : back'[i].type = "SOMA" /\ back'[i].id = tmsg => somad'
    BY <1>c, <1>q, <2>0
  <2>3. \A i \in DOMAIN back' : back'[i].type = "EOMA" /\ back'[i].id = tmsg => Done(tmsg)'
    <3>1. SUFFICES ASSUME NEW i \in DOMAIN back', back'[i].type = "EOMA", back'[i].id = tmsg
                   PROVE  Done(tmsg)'
      OBVIOUS
    <3>2. CASE i \in DOMAIN back /\ back'[i] = back[i]
      <4>1. Done(tmsg) /\ ~Unacknowledged
        BY <2>0, <3>1, <3>2 DEF Unacknowledged
      <4>2. Done(tmsg) => Done(tmsg)'
        BY <4>1, <1>d, <1>q DEF Done
      <4>3. QED
        BY <4>1, <4>2
    <3>3. CASE ~(i \in DOMAIN back /\ back'[i] = back[i])
      BY <1>c, <3>1, <3>3
    <3>4. QED
      BY <3>2, <3>3
  <2>4. \A i, j \in DOMAIN back' :
          i < j /\ back'[i].type = "EOMA" /\ back'[i].id = tmsg => back'[j].type = "EOMA"
    <3>1. SUFFICES ASSUME NEW i \in DOMAIN back', NEW j \in DOMAIN back', i < j,
                          back'[i].type = "EOMA", back'[i].id = tmsg
                   PROVE  back'[j].type = "EOMA"
      OBVIOUS
    <3>2. j \in DOMAIN back => i \in DOMAIN back
      BY <1>b, <3>1
    <3>3. QED
      BY <1>c, <2>0, <3>1, <3>2 DEF Unacknowledged
  <2>5. QED
    BY <1>q, <2>1, <2>2, <2>3, <2>4 DEF BackRight
<1>7. QED
  BY <1>1, <1>2, <1>3, <1>4, <1>5, <1>6 DEF WireInv

-----------------------------------------------------------------------------
(* Losses, ends and beginnings.                                             *)

(* A packet is lost.                                                        *)
LEMMA LoseKeeps ==
  ASSUME LinkInv, Lose
  PROVE  WireInv'
<1>q. /\ UNCHANGED <<up, pc, chan, tmsg, somad, acked, mixed, canceled, circuit>>
      /\ Quiet /\ UNCHANGED outVars
      /\ fwd \in Seq(Packet) /\ back \in Seq(Packet) /\ Together
      /\ Phase
  BY DEF Lose, Quiet, vars, readVars, sendVars, histVars, LinkInv, WireInv, LinkTypes, RouteInv, IInv
<1>c. circuit /\ up /\ writing
  BY <1>q DEF Lose, Together
<1>1. CASE fwd # <<>> /\ fwd' = Tail(fwd) /\ UNCHANGED back
  <2>1. Shortened(fwd', fwd)
    BY <1>1, <1>q, TailShortened
  <2>2. Grown(back', back, {p \in Packet : /\ p.type = "EOMA" /\ p.id \in acked'
                                           /\ p.id = tmsg => Done(tmsg)'})
    BY <1>1, <1>q, SameGrown
  <2>3. DeliverStep
    BY <1>1, <1>q, <1>c, <2>1, <2>2 DEF DeliverStep, Done, Together, Reading, Assembling
  <2>4. QED
    BY <2>3, DeliverKeeps
<1>2. CASE back # <<>> /\ back' = Tail(back) /\ UNCHANGED fwd
  <2>1. Shortened(back', back)
    BY <1>2, <1>q, TailShortened
  <2>2. Grown(fwd', fwd, {p \in Packet : Sendable(p)})
    BY <1>2, <1>q, SameGrown
  <2>3. SendStep
    BY <1>q, <1>c, <2>1, <2>2 DEF SendStep, outVars, Idle, LinkInv, WireInv, LinkTypes, DataLeft, Together
  <2>4. QED
    BY <2>3, SendKeeps
<1>3. QED
  BY <1>1, <1>2 DEF Lose

(* An end of the circuit, for whatever reason.                              *)
CutStep ==
  /\ Cut
  /\ UNCHANGED <<tmsg, acked, mixed, canceled, has, outstate, outaddr, eof, count, queue>>
  /\ writing' \in BOOLEAN
  /\ outsaved' = outsaved \/ SaveOut
  /\ ~up' \/ UNCHANGED <<up, pc, chan, somad>>

(* Nothing is on its way any more.                                          *)
LEMMA CutKeeps ==
  ASSUME LinkInv, CutStep
  PROVE  WireInv'
<1>q. /\ circuit' = FALSE /\ fwd' = <<>> /\ back' = <<>>
      /\ UNCHANGED <<tmsg, acked, mixed, canceled, has, outstate, outaddr, eof, count, queue>>
      /\ writing' \in BOOLEAN
      /\ Idle' <=> Idle
  BY DEF CutStep, Cut, Idle
<1>s. outsaved'.id \in {outsaved.id, tmsg, NoMsg} /\ outsaved'.addr \in 0 .. MsgSize
  BY <1>q DEF CutStep, SaveOut, LinkInv, WireInv, LinkTypes
<1>1. LinkTypes'
  <2>1. fwd' \in Seq(Packet) /\ back' \in Seq(Packet) /\ DOMAIN fwd' = {} /\ DOMAIN back' = {}
    BY <1>q
  <2>2. /\ writing' \in BOOLEAN /\ has' \in BOOLEAN /\ eof' \in BOOLEAN /\ circuit' \in BOOLEAN
        /\ outstate' \in {"IDLE", "STARTING", "ACTIVE", "ENDING", "ENDED"}
        /\ outaddr' \in 0 .. MsgSize /\ outsaved'.addr \in 0 .. MsgSize /\ queue' \in Seq(Msgs)
    BY <1>q, <1>s DEF LinkInv, WireInv, LinkTypes
  <2>3. acked \subseteq acked'
    BY <1>q
  <2>4. QED
    BY <2>1, <2>2, <2>3, TypesKept
<1>2. QueueRight'
  <2>1. ~InQueue(NoMsg)
    BY DEF InQueue, LinkInv, WireInv, LinkTypes
  <2>2. InQueue(outsaved.id)' => outsaved'.id = tmsg
    BY <1>q, <1>s, <2>1 DEF InQueue, LinkInv, WireInv, QueueRight
  <2>3. QED
    BY <1>q, <2>2 DEF LinkInv, WireInv, QueueRight, InQueue
<1>3. DataLeft'
  BY <1>q DEF LinkInv, WireInv, DataLeft
<1>4. Together'
  <2>1. ~up' => ~Reading'
    BY DEF Reading
  <2>2. (Reading /\ Assembling)' => (chan.msgid = tmsg /\ somad)'
    <3>1. CASE ~up'
      BY <2>1, <3>1
    <3>2. CASE UNCHANGED <<up, pc, chan, somad>>
      <4>1. Reading /\ Assembling => chan.msgid = tmsg /\ somad
        BY DEF LinkInv, WireInv, Together
      <4>2. (Reading' <=> Reading) /\ (Assembling' <=> Assembling)
        BY <3>2 DEF Reading, Assembling
      <4>3. QED
        BY <3>2, <4>1, <4>2, <1>q
    <3>3. QED
      BY <3>1, <3>2 DEF CutStep
  <2>3. QED
    BY <1>q, <2>2 DEF LinkInv, WireInv, Together
<1>5. FwdRight' /\ BackRight'
  <2>1. DOMAIN fwd' = {} /\ DOMAIN back' = {}
    BY <1>q
  <2>2. QED
    BY <2>1 DEF FwdRight, BackRight
<1>6. QED
  BY <1>1, <1>2, <1>3, <1>4, <1>5 DEF WireInv

(* The ends of the daemons are such steps.                                  *)
LEMMA EndsCut ==
  ASSUME LinkInv, Break \/ TooManyEOMs \/ ReceiverFails \/ KillReceiver \/ KillTransmitter \/ HangUp
  PROVE  CutStep
<1>t. writing \in BOOLEAN
  BY DEF LinkInv, WireInv, LinkTypes
<1>1. CASE ReceiverStops
  <2>1. /\ Cut /\ UNCHANGED outVars /\ UNCHANGED <<mixed, canceled>>
        /\ up' = FALSE /\ tmsg' = tmsg /\ acked' = acked
    BY <1>1 DEF ReceiverStops, Stop, ErrorExit, Down, histVars
  <2>2. QED
    BY <1>t, <2>1 DEF CutStep, outVars
<1>2. CASE TransmitterStops
  BY <1>2 DEF TransmitterStops, CutStep, Quiet, vars, readVars, sendVars, histVars
<1>3. CASE KillReceiver
  <2>1. /\ Cut /\ UNCHANGED outVars /\ UNCHANGED <<mixed, canceled>>
        /\ up' = FALSE /\ tmsg' = tmsg /\ acked' = acked
    BY <1>3 DEF KillReceiver, Kill, Down, histVars
  <2>2. QED
    BY <1>t, <2>1 DEF CutStep, outVars
<1>4. CASE KillTransmitter
  BY <1>4 DEF KillTransmitter, CutStep, Quiet, vars, readVars, sendVars, histVars
<1>5. CASE ReceiverFails
  <2>1. Cut /\ UNCHANGED outVars /\ UNCHANGED <<mixed, canceled>>
    BY <1>5 DEF ReceiverFails
  <2>2. up' = FALSE /\ tmsg' = tmsg /\ acked' = acked
    BY <1>5 DEF ReceiverFails, ExitCreating, Creating, ExitNAKing, ExitPassing, Down, histVars
  <2>3. QED
    BY <1>t, <2>1, <2>2 DEF CutStep, outVars
<1>6. QED
  BY <1>1, <1>2, <1>3, <1>4, <1>5 DEF Break, TooManyEOMs, HangUp

(* A new session: the message that was under way starts again.              *)
LEMMA ConnectKeeps ==
  ASSUME LinkInv, Connect
  PROVE  WireInv'
<1>t. /\ Together /\ Phase /\ QueueRight /\ chan \in Chans /\ saved \in Chans /\ LinkTypes
  BY DEF LinkInv, WireInv, RouteInv, IInv, TypeOK
<1>q. /\ UNCHANGED <<pc, tmsg, somad, acked, queue, fwd, back, mixed, canceled>>
      /\ writing' = TRUE /\ circuit' = TRUE /\ up' = TRUE /\ ~up
  BY DEF Connect, Restart, fileVars, routVars, sendVars
<1>e. fwd = <<>> /\ back = <<>> /\ pc = "ready" /\ DOMAIN fwd' = {} /\ DOMAIN back' = {}
  BY <1>t, <1>q DEF Together, Phase
<1>a. ~Assembling'
  BY <1>t DEF Connect, Restart, Assembling, Chans
<1>k. \/ /\ has' = TRUE /\ outstate' = "STARTING" /\ eof' = FALSE /\ InQueue(tmsg) /\ outsaved'.id = tmsg
         /\ outaddr' \in 0 .. MsgSize /\ outsaved'.addr = outaddr' /\ (count' > 0 => outaddr' < MsgSize)
      \/ /\ has' = FALSE /\ outstate' = "IDLE" /\ eof' = FALSE /\ outsaved'.id = NoMsg
         /\ outaddr' = 0 /\ outsaved'.addr = outaddr' /\ count' = 0
  <2>1. CASE queue # <<>> /\ outsaved.id = Head(queue)
    <3>1. /\ has' = TRUE /\ outaddr' = outsaved.addr /\ outstate' = "STARTING" /\ eof' = FALSE
          /\ count' = (IF outaddr' = 0 THEN InitDataCount ELSE 0)
          /\ outsaved' = [id |-> tmsg, addr |-> outaddr']
      BY <2>1, <1>q DEF Connect, StartMessage, SaveOut
    <3>2. InQueue(outsaved.id) /\ outsaved.id = tmsg
      BY <2>1, <1>t, QueueHead DEF InQueue, QueueRight
    <3>3. outaddr' \in 0 .. MsgSize /\ (count' > 0 => outaddr' < MsgSize)
      BY <3>1, <1>t DEF LinkTypes
    <3>4. QED
      BY <3>1, <3>2, <3>3
  <2>2. CASE ~(queue # <<>> /\ outsaved.id = Head(queue))
    BY <2>2, <1>q DEF Connect, SaveOut
  <2>3. QED
    BY <2>1, <2>2
<1>1. LinkTypes'
  <2>1. /\ \A i \in DOMAIN fwd' : ToReceiver(fwd'[i])
        /\ \A i \in DOMAIN back' : ToTransmitter(back'[i])
        /\ fwd' \in Seq(Packet) /\ back' \in Seq(Packet) /\ acked \subseteq acked'
    BY <1>q, <1>e, <1>t DEF LinkTypes
  <2>2. /\ writing' \in BOOLEAN /\ has' \in BOOLEAN /\ eof' \in BOOLEAN /\ circuit' \in BOOLEAN
        /\ outstate' \in {"IDLE", "STARTING", "ACTIVE", "ENDING", "ENDED"}
        /\ outaddr' \in 0 .. MsgSize /\ outsaved'.addr \in 0 .. MsgSize /\ queue' \in Seq(Msgs)
    <3>1. has' \in BOOLEAN /\ eof' \in BOOLEAN /\ outstate' \in {"IDLE", "STARTING"}
      BY <1>k, Zenon
    <3>2. outaddr' \in 0 .. MsgSize /\ outsaved'.addr = outaddr'
      BY <1>k
    <3>3. queue' \in Seq(Msgs)
      BY <1>q, <1>t DEF LinkTypes
    <3>4. QED
      BY <1>q, <3>1, <3>2, <3>3
  <2>3. QED
    BY <2>1, <2>2, TypesKept
<1>2. QueueRight'
  <2>1. ~InQueue(NoMsg)
    BY <1>t DEF InQueue, LinkTypes
  <2>2. InQueue(outsaved.id)' => outsaved'.id = tmsg
    BY <1>q, <1>k, <2>1 DEF InQueue
  <2>3. /\ has' => InQueue(tmsg)
        /\ ~Idle' => has'
        /\ ~(has' /\ Idle')
    BY <1>k DEF Idle
  <2>4. QED
    BY <1>q, <1>t, <2>2, <2>3 DEF QueueRight, InQueue
<1>3. DataLeft'
  BY <1>k DEF DataLeft
<1>4. Together'
  BY <1>q, <1>t, <1>e, <1>a, <1>k DEF Together
<1>5. FwdRight' /\ BackRight'
  BY <1>e DEF FwdRight, BackRight
<1>6. QED
  BY <1>1, <1>2, <1>3, <1>4, <1>5 DEF WireInv

-----------------------------------------------------------------------------
(* Answers of the receiver.                                                 *)

(* There are finitely many packets, so a set of answers can be put in order.*)
LEMMA PacketFinite == IsFiniteSet(Packet)
<1> DEFINE Types == {"SOM", "DATA", "EOM", "MQE", "SOMA", "EOMA", "NAK"}
           Ids   == Msgs \cup {NoMsg}
           Ns    == 0 .. MsgSize
           Tup   == (Types \X Ids) \X (Ns \X Ns)
           f     == [x \in Tup |-> [type |-> x[1][1], id |-> x[1][2], addr |-> x[2][1], len |-> x[2][2]]]
<1>1. IsFiniteSet(Types)
  <2>1. IsFiniteSet({})
    BY FS_EmptySet
  <2>2. IsFiniteSet({} \cup {"SOM"})
    BY <2>1, FS_AddElement
  <2>3. IsFiniteSet(({} \cup {"SOM"}) \cup {"DATA"})
    BY <2>2, FS_AddElement
  <2>4. IsFiniteSet((({} \cup {"SOM"}) \cup {"DATA"}) \cup {"EOM"})
    BY <2>3, FS_AddElement
  <2>5. IsFiniteSet(((({} \cup {"SOM"}) \cup {"DATA"}) \cup {"EOM"}) \cup {"MQE"})
    BY <2>4, FS_AddElement
  <2>6. IsFiniteSet((((({} \cup {"SOM"}) \cup {"DATA"}) \cup {"EOM"}) \cup {"MQE"}) \cup {"SOMA"})
    BY <2>5, FS_AddElement
  <2>7. IsFiniteSet(((((({} \cup {"SOM"}) \cup {"DATA"}) \cup {"EOM"}) \cup {"MQE"}) \cup {"SOMA"}) \cup {"EOMA"})
    BY <2>6, FS_AddElement
  <2>8. IsFiniteSet((((((({} \cup {"SOM"}) \cup {"DATA"}) \cup {"EOM"}) \cup {"MQE"}) \cup {"SOMA"}) \cup {"EOMA"}) \cup {"NAK"})
    BY <2>7, FS_AddElement
  <2>9. Types = (((((({} \cup {"SOM"}) \cup {"DATA"}) \cup {"EOM"}) \cup {"MQE"}) \cup {"SOMA"}) \cup {"EOMA"}) \cup {"NAK"}
    OBVIOUS
  <2>10. QED
    BY <2>8, <2>9
<1>2. IsFiniteSet(Ids)
  BY FS_AddElement
<1>3. IsFiniteSet(Ns)
  <2>1. 0 \in Int /\ MsgSize \in Int
    OBVIOUS
  <2>2. QED
    BY <2>1, FS_Interval
<1>4. IsFiniteSet(Tup)
  <2> HIDE DEF Types, Ids, Ns
  <2>1. IsFiniteSet(Types \X Ids) /\ IsFiniteSet(Ns \X Ns)
    BY <1>1, <1>2, <1>3, FS_Product
  <2>2. QED
    BY <2>1, FS_Product
<1>5. f \in Surjection(Tup, Packet)
  <2>1. f \in [Tup -> Packet]
    BY DEF Packet
  <2>2. ASSUME NEW p \in Packet PROVE \E x \in Tup : f[x] = p
    <3>1. /\ p.type \in Types /\ p.id \in Ids /\ p.addr \in Ns /\ p.len \in Ns
          /\ p = [type |-> p.type, id |-> p.id, addr |-> p.addr, len |-> p.len]
      BY DEF Packet
    <3> HIDE DEF Types, Ids, Ns
    <3>2. <<<<p.type, p.id>>, <<p.addr, p.len>>>> \in Tup
      BY <3>1
    <3>3. f[<<<<p.type, p.id>>, <<p.addr, p.len>>>>] = p
      BY <3>1, <3>2
    <3>4. QED
      BY <3>2, <3>3
  <2> HIDE DEF f, Tup
  <2>3. QED
    BY <2>1, <2>2 DEF Surjection
<1>6. QED
  <2> HIDE DEF f, Tup
  <2>1. QED
    BY <1>4, <1>5, FS_Surjection

(* Whatever the order, the answers go behind what is on its way back.       *)
LEMMA AnsweredGrown ==
  ASSUME LinkInv, Answered, reply' \subseteq Packet, NEW S, reply' \subseteq S
  PROVE  Grown(back', back, S)
<1>1. PICK s \in Orders(reply') : back' = back \o s
  BY DEF Answered
<1>2. IsFiniteSet(reply')
  BY PacketFinite, FS_Subset
<1>3. Cardinality(reply') \in Nat
  BY <1>2, FS_CardinalityType
<1>4. s \in [1 .. Cardinality(reply') -> reply']
  BY <1>1 DEF Orders
<1>5. s \in Seq(Packet) /\ DOMAIN s = 1 .. Cardinality(reply')
  BY <1>3, <1>4
<1>6. \A i \in DOMAIN s : s[i] \in S
  BY <1>4
<1>7. back \in Seq(Packet)
  BY DEF LinkInv, WireInv, LinkTypes
<1>8. QED
  BY <1>1, <1>5, <1>6, <1>7, ConcatGrown

NAKs == {p \in Packet : p.type \in {"SOMA", "NAK"} /\ ToTransmitter(p)}
Asks == {p \in NAKs : p.type = "NAK"}

(* A NAK of addresses of the message.                                       *)
LEMMA NAKType ==
  ASSUME NEW a \in Addr, NEW n \in 1 .. MsgSize, a + n <= MsgSize
  PROVE  NAK(a, n) \in Asks
<1>1. a \in 0 .. MsgSize /\ n \in 0 .. MsgSize
  BY DEF Addr
<1>2. QED
  BY <1>1 DEF Asks, NAKs, NAK, Packet, ToTransmitter

(* So is every NAK that SendNAK makes of one.                               *)
LEMMA SendNAKTypes ==
  ASSUME NEW a \in Addr, NEW n \in 1 .. MsgSize, a + n <= MsgSize
  PROVE  SendNAK(a, n) \subseteq Asks
<1>1. NAK(a, n) \in Asks
  BY NAKType
<1>2. ASSUME NEW i \in 0 .. MaxNAKs - 1, i * MAXNAKSIZE < n
      PROVE  NAK(a + i * MAXNAKSIZE,
                 IF n - i * MAXNAKSIZE < MAXNAKSIZE THEN n - i * MAXNAKSIZE ELSE MAXNAKSIZE) \in Asks
  <2> DEFINE k == i * MAXNAKSIZE
             l == IF n - k < MAXNAKSIZE THEN n - k ELSE MAXNAKSIZE
  <2>1. MAXNAKSIZE \in Nat \ {0} /\ i \in Nat
    BY ReceiverAssumption
  <2>2. k \in Nat
    BY <2>1
  <2>3. k < n
    BY <1>2
  <2> HIDE DEF k
  <2>4. a + k \in Addr /\ l \in 1 .. MsgSize /\ a + k + l <= MsgSize
    BY <2>1, <2>2, <2>3 DEF Addr
  <2>5. NAK(a + k, l) \in Asks
    BY <2>4, NAKType
  <2>6. QED
    BY <2>5 DEF k
<1>3. QED
  BY <1>1, <1>2 DEF SendNAK

(* Those of the gap list are.                                               *)
LEMMA SomeNAKsTypes ==
  ASSUME NEW G \in SUBSET Addr, NEW R \in SomeNAKs(G)
  PROVE  R \subseteq Asks
<1>1. ASSUME NEW r \in Runs(G) PROVE SendNAK(r[1], r[2]) \subseteq Asks
  <2>1. r[1] \in Addr /\ r[2] \in 1 .. MsgSize /\ Pkt(r[1], r[2]) \subseteq G
    BY DEF Runs
  <2>2. r[1] + r[2] - 1 \in Pkt(r[1], r[2])
    BY <2>1 DEF Pkt, Addr
  <2>3. r[1] + r[2] - 1 \in Addr
    BY <2>1, <2>2
  <2>4. r[1] + r[2] <= MsgSize
    BY <2>1, <2>3 DEF Addr
  <2>5. QED
    BY <2>1, <2>4, SendNAKTypes
<1>2. PICK Q \in SUBSET Runs(G) : R = UNION {SendNAK(r[1], r[2]) : r \in Q}
  BY DEF SomeNAKs
<1>3. QED
  BY <1>1, <1>2

(* So are those of a new gap.                                               *)
LEMMA QueueGapTypes ==
  ASSUME TypeOK, NEW e \in 1 .. MsgSize, msgaddr < e
  PROVE  QueueGapNAK(e) \subseteq Asks
<1>1. msgaddr \in Addr /\ e - msgaddr \in 1 .. MsgSize /\ msgaddr + (e - msgaddr) <= MsgSize
  BY DEF TypeOK, Addr
<1>2. SendNAK(msgaddr, e - msgaddr) \subseteq Asks
  BY <1>1, SendNAKTypes
<1>3. QED
  BY <1>2 DEF QueueGapNAK

(* A packet that arrives: the receiver is still at its message, if that is  *)
(* done with, and works at it otherwise.                                    *)
LEMMA ArrivedFacts ==
  ASSUME LinkInv, NEW p, Arrived(p)
  PROVE  /\ circuit /\ up /\ pc = "ready" /\ Reading
         /\ ToReceiver(p) /\ Shortened(fwd', fwd)
         /\ UNCHANGED <<outVars, circuit, canceled>>
         /\ p.id # NoMsg /\ (p.id # tmsg \/ Idle) =>
              chan.msgid = p.id /\ chan.state = "ENDED" /\ p.id \in acked
         /\ p.id = tmsg => \A i \in DOMAIN fwd' : fwd'[i].id \in {tmsg, NoMsg}
         /\ p.type = "EOM" /\ p.id = tmsg => somad
         /\ p.type = "MQE" => queue = <<>> /\ ~has
         /\ Assembling => chan.msgid = tmsg /\ somad /\ ~Idle
         /\ chan.msgid # tmsg \/ chan.state # "ENDED" => Unacknowledged
<1>1. /\ circuit /\ Reading /\ fwd # <<>> /\ p = Head(fwd) /\ fwd' = Tail(fwd) /\ fwd \in Seq(Packet)
      /\ UNCHANGED <<outVars, circuit, canceled>>
  BY DEF Arrived, LinkInv, WireInv, LinkTypes
<1>2. 1 \in DOMAIN fwd /\ p = fwd[1] /\ Shortened(fwd', fwd)
  BY <1>1, TailShortened
<1>3. up /\ pc = "ready"
  BY <1>1 DEF Reading
<1>4. /\ ToReceiver(p)
      /\ p.id # NoMsg /\ (p.id # tmsg \/ Idle) => Done(p.id) /\ p.id \in acked
      /\ p.type = "EOM" /\ p.id = tmsg => somad
      /\ p.type = "MQE" => queue = <<>> /\ ~has
  BY <1>2 DEF LinkInv, WireInv, LinkTypes, FwdRight
<1>5. p.id = tmsg => \A i \in DOMAIN fwd' : fwd'[i].id \in {tmsg, NoMsg}
  <2>1. \A i \in DOMAIN fwd' : i + 1 \in DOMAIN fwd /\ 1 < i + 1 /\ fwd'[i] = fwd[i + 1]
    BY <1>2 DEF Shortened
  <2>2. QED
    BY <1>2, <2>1 DEF LinkInv, WireInv, FwdRight
<1>6. Assembling => chan.msgid = tmsg /\ somad /\ ~Idle
  BY <1>1, <1>3 DEF LinkInv, WireInv, Together
<1>7. chan.msgid # tmsg \/ chan.state # "ENDED" => Unacknowledged
  BY <1>3 DEF LinkInv, WireInv, BackRight, Unacknowledged, Done
<1>8. QED
  BY <1>1, <1>2, <1>3, <1>4, <1>5, <1>6, <1>7 DEF Done

-----------------------------------------------------------------------------
(* Deliveries.                                                              *)

(* A start or an end of a message that is done with is acknowledged again.  *)
LEMMA AgainDelivers ==
  ASSUME LinkInv, NEW m \in Msgs, NEW p, p.id = m, Arrived(p), SOMAgain(m) \/ EOMAgain(m),
         Answered, UNCHANGED mixed
  PROVE  DeliverStep
<1>a. /\ circuit /\ up /\ pc = "ready" /\ Shortened(fwd', fwd)
      /\ UNCHANGED <<outVars, circuit, canceled>>
      /\ m # tmsg => m \in acked
  BY ArrivedFacts DEF LinkInv, RouteInv, IInv, TypeOK
<1>b. /\ UNCHANGED <<up, pc, chan, tmsg, somad>> /\ acked' = acked \cup {m}
      /\ reply' = {EOMA(m)} /\ chan.msgid = m /\ chan.state = "ENDED"
  BY DEF SOMAgain, EOMAgain, sendVars, MessageOf
<1>c. EOMA(m) \in Packet /\ EOMA(m).type = "EOMA" /\ EOMA(m).id = m
  <2>1. MsgSize \in 0 .. MsgSize /\ 0 \in 0 .. MsgSize
    OBVIOUS
  <2>2. QED
    BY <2>1 DEF EOMA, Packet
<1>d. Done(m)'
  BY <1>b DEF Done
<1>e. EOMA(m) \in {p_1 \in Packet : /\ p_1.type = "EOMA" /\ p_1.id \in acked'
                                    /\ p_1.id = tmsg => Done(tmsg)'}
  BY <1>b, <1>c, <1>d DEF Done
<1>f. Grown(back', back, {p_1 \in Packet : /\ p_1.type = "EOMA" /\ p_1.id \in acked'
                                           /\ p_1.id = tmsg => Done(tmsg)'})
  <2>1. reply' \subseteq Packet
    BY <1>b, <1>c
  <2>2. reply' \subseteq {p_1 \in Packet : /\ p_1.type = "EOMA" /\ p_1.id \in acked'
                                           /\ p_1.id = tmsg => Done(tmsg)'}
    BY <1>b, <1>e
  <2>3. QED
    BY <2>1, <2>2, AnsweredGrown
<1>g. ~Assembling' /\ pc' = "ready"
  BY <1>a, <1>b DEF Assembling
<1>h. \A x : Done(x) => Done(x)'
  BY <1>b DEF Done
<1>i. acked \subseteq acked' /\ acked' \subseteq acked \cup {tmsg}
  BY <1>a, <1>b
<1>8. QED
  BY <1>a, <1>b, <1>f, <1>g, <1>h, <1>i DEF DeliverStep

(* Asking for more of the transmitter's message, or passing it on: what     *)
(* came back of it so far is no acknowledgement.                            *)
LEMMA MoreDelivers ==
  ASSUME LinkInv, NEW p, p.id = tmsg, Arrived(p), Answered, UNCHANGED <<mixed, tmsg, acked, up>>,
         chan.msgid # tmsg \/ chan.state # "ENDED",
         reply' \subseteq NAKs, reply' = {} \/ somad', somad => somad',
         Assembling' => chan'.msgid = tmsg /\ somad'
  PROVE  DeliverStep
<1>a. /\ circuit /\ up /\ pc = "ready" /\ Shortened(fwd', fwd)
      /\ UNCHANGED <<outVars, circuit, canceled>>
      /\ \A i \in DOMAIN fwd' : fwd'[i].id \in {tmsg, NoMsg}
      /\ Unacknowledged
  BY ArrivedFacts
<1>b. ~Idle
  BY ArrivedFacts DEF LinkInv, RouteInv, IInv, TypeOK
<1>c. NAKs \subseteq Packet
  BY DEF NAKs
<1>d. \/ Grown(back', back, {p_1 \in Packet : /\ p_1.type = "EOMA" /\ p_1.id \in acked'
                                              /\ p_1.id = tmsg => Done(tmsg)'})
      \/ somad' /\ Grown(back', back, NAKs)
  <2>1. CASE reply' = {}
    BY <2>1, <1>c, AnsweredGrown
  <2>2. CASE somad'
    BY <2>2, <1>c, AnsweredGrown
  <2>3. QED
    BY <2>1, <2>2
<1>e. (Reading /\ Assembling)' => chan'.msgid = tmsg /\ somad'
  OBVIOUS
<1>8. QED
  BY <1>a, <1>b, <1>d, <1>e DEF DeliverStep, NAKs

(* The start of the message that is sent.                                   *)
LEMMA SOMDelivers ==
  ASSUME LinkInv, NEW m \in Msgs, DeliverSOM(m)
  PROVE  DeliverStep
<1>a. /\ Arrived(SOM(m)) /\ Answered /\ UNCHANGED mixed /\ SOM(m).id = m
      /\ SOMAgain(m) \/ SOMRepeated(m) \/ SOMResumed(m) \/ SOMNoFile(m) \/ SOMNew(m)
  BY DEF DeliverSOM, SOM
<1>b. m # NoMsg /\ TypeOK /\ chan \in Chans
  BY DEF LinkInv, RouteInv, IInv, TypeOK
<1>1. CASE SOMAgain(m)
  BY <1>1, <1>a, AgainDelivers
<1>2. CASE SOMRepeated(m) \/ SOMResumed(m) \/ SOMNoFile(m) \/ SOMNew(m)
  <2>1. chan.msgid # m \/ chan.state # "ENDED"
    BY <1>2 DEF SOMRepeated, SOMResumed, SOMNoFile, SOMNew, MessageOf
  <2>2. m = tmsg
    BY <1>a, <1>b, <2>1, ArrivedFacts
  <2>3. PICK c \in Chans, at \in 0 .. MsgSize :
          /\ Answer(c, at) /\ c.msgid = m
          /\ UNCHANGED <<tmsg, acked, up>>
    <3>0. 0 \in 0 .. MsgSize /\ MsgSize \in 0 .. MsgSize
      OBVIOUS
    <3>1. CASE SOMRepeated(m)
      <4>1. Answer(chan, msgaddr) /\ chan.msgid = m /\ UNCHANGED <<tmsg, acked, up>> /\ msgaddr \in 0 .. MsgSize
        BY <3>1, <1>b DEF SOMRepeated, MessageOf, TypeOK, histVars
      <4>2. QED
        BY <4>1, <1>b
    <3>2. CASE SOMResumed(m)
      <4>1. Answer(chan, msgaddr') /\ chan.msgid = m /\ UNCHANGED <<tmsg, acked, up>>
        BY <3>2 DEF SOMResumed, MessageOf
      <4>2. msgaddr' \in 0 .. MsgSize
        BY <3>2, <1>b DEF SOMResumed, Chans
      <4>3. QED
        BY <4>1, <4>2, <1>b
    <3>3. CASE SOMNoFile(m)
      <4>1. chan.rdup \in BOOLEAN /\ [chan EXCEPT !.rdup = TRUE] \in Chans
        BY <1>b DEF Chans
      <4>2. [[chan EXCEPT !.rdup = TRUE] EXCEPT !.msgid = m, !.goodaddr = MsgSize] \in Chans
        BY <4>1, <3>0 DEF Chans
      <4>3. [[chan EXCEPT !.rdup = TRUE] EXCEPT !.msgid = m, !.goodaddr = MsgSize].msgid = m
        BY <4>1 DEF Chans
      <4>4. Answer([[chan EXCEPT !.rdup = TRUE] EXCEPT !.msgid = m, !.goodaddr = MsgSize], 0)
            /\ UNCHANGED <<tmsg, acked, up>>
        BY <3>3 DEF SOMNoFile, NewFile
      <4>5. QED
        BY <4>2, <4>3, <4>4, <3>0
    <3>4. CASE SOMNew(m)
      <4>2. [chan EXCEPT !.msgid = m, !.goodaddr = MsgSize] \in Chans
        BY <1>b, <3>0 DEF Chans
      <4>3. [chan EXCEPT !.msgid = m, !.goodaddr = MsgSize].msgid = m
        BY <1>b DEF Chans
      <4>4. Answer([chan EXCEPT !.msgid = m, !.goodaddr = MsgSize], 0)
            /\ UNCHANGED <<tmsg, acked, up>>
        BY <3>4 DEF SOMNew, NewFile
      <4>5. QED
        BY <4>2, <4>3, <4>4, <3>0
    <3>5. QED
      BY <1>2, <3>1, <3>2, <3>3, <3>4
  <2>4. chan'.msgid = m
    BY <1>b, <2>3, AnswerChan
  <2>5. \/ reply' = {SOMA(m, at)} /\ somad' = TRUE
        \/ reply' = {} /\ chan'.state = "STARTING" /\ somad' = somad
    BY <2>3 DEF Answer, Chans
  <2>6. SOMA(m, at) \in NAKs
    <3>1. 0 \in 0 .. MsgSize
      OBVIOUS
    <3>2. QED
      BY <3>1 DEF SOMA, NAKs, Packet, ToTransmitter
  <2>7. /\ reply' \subseteq NAKs /\ (reply' = {} \/ somad') /\ (somad => somad')
        /\ Assembling' => chan'.msgid = tmsg /\ somad'
    BY <2>2, <2>4, <2>5, <2>6 DEF Assembling
  <2>8. SOM(m).id = tmsg /\ (chan.msgid # tmsg \/ chan.state # "ENDED") /\ UNCHANGED <<mixed, tmsg, acked, up>>
    BY <1>a, <2>1, <2>2, <2>3
  <2>9. QED
    BY <1>a, <2>7, <2>8, MoreDelivers
<1>3. QED
  BY <1>a, <1>1, <1>2

(* A packet the receiver does not answer.                                   *)
LEMMA IgnoredDelivers ==
  ASSUME LinkInv, NEW p, Arrived(p), UNCHANGED <<up, pc, chan, tmsg, somad, acked, back, mixed>>
  PROVE  DeliverStep
<1>a. /\ circuit /\ up /\ Shortened(fwd', fwd) /\ UNCHANGED <<outVars, circuit, canceled>>
      /\ back \in Seq(Packet) /\ Together
      /\ pc = "ready" /\ (Assembling => chan.msgid = tmsg /\ somad /\ ~Idle)
  BY ArrivedFacts DEF LinkInv, WireInv, LinkTypes
<1>b. Grown(back', back, {p_1 \in Packet : /\ p_1.type = "EOMA" /\ p_1.id \in acked'
                                           /\ p_1.id = tmsg => Done(tmsg)'})
  BY <1>a, SameGrown
<1>c. (Assembling' <=> Assembling) /\ \A x : Done(x) => Done(x)'
  BY DEF Assembling, Done
<1>d. QED
  BY <1>a, <1>b, <1>c DEF DeliverStep

(* Data is answered with NAKs.                                              *)
LEMMA DATAAsks ==
  ASSUME RouteInv, IInv', NEW a \in Addr, NEW n,
         DuplicateData(a, n) \/ FillingData(a, n) \/ NextData(a, n) \/ AheadData(a, n)
  PROVE  reply' \subseteq Asks
<1>k. TypeOK /\ gaps' \subseteq Addr
  BY DEF RouteInv, IInv, TypeOK
<1>1. CASE DuplicateData(a, n) \/ FillingData(a, n)
  BY <1>1 DEF DuplicateData, FillingData
<1>2. CASE NextData(a, n)
  BY <1>2, <1>k, SomeNAKsTypes DEF NextData
<1>3. CASE AheadData(a, n)
  <2>0. a > msgaddr
    BY <1>3 DEF AheadData
  <2>1. a \in 1 .. MsgSize /\ msgaddr < a
    BY <1>k, <2>0 DEF Addr, TypeOK
  <2>2. QueueGapNAK(a) \subseteq Asks
    BY <1>k, <2>1, QueueGapTypes
  <2>3. PICK R \in SomeNAKs(gaps') : reply' = QueueGapNAK(a) \cup R
    BY <1>3 DEF AheadData
  <2>4. R \subseteq Asks
    BY <1>k, SomeNAKsTypes
  <2>5. QED
    BY <2>2, <2>3, <2>4
<1>4. QED
  BY <1>1, <1>2, <1>3

(* Data.                                                                    *)
LEMMA DATADelivers ==
  ASSUME LinkInv, IInv', NEW p, DeliverDATA(p)
  PROVE  DeliverStep
<1>a. Arrived(p) /\ p.type = "DATA"
  BY DEF DeliverDATA
<1>t. /\ ToReceiver(p) /\ p.id \in Msgs /\ p.addr \in Addr /\ p.len \in 1 .. MaxPkt
      /\ p.addr + p.len <= MsgSize /\ p.id # NoMsg
  BY <1>a, ArrivedFacts DEF ToReceiver, SOM, EOM, MQE
<1>k. TypeOK /\ chan \in Chans /\ gaps \subseteq Addr /\ gaps' \subseteq Addr
  BY DEF LinkInv, RouteInv, IInv, TypeOK
<1> DEFINE a == p.addr
           n == p.len
<1>1. CASE /\ DuplicateData(a, n) \/ FillingData(a, n) \/ NextData(a, n) \/ AheadData(a, n)
           /\ Answered
           /\ mixed' = IF p.id = chan.msgid THEN mixed ELSE mixed \cup {chan.msgid}
  <2>1. Assembling
    BY <1>1 DEF DuplicateData, FillingData, NextData, AheadData
  <2>2. chan.msgid = tmsg /\ somad /\ ~Idle /\ chan.state # "ENDED"
    BY <1>a, <2>1, ArrivedFacts DEF Assembling
  <2>3. p.id = tmsg
    BY <1>a, <1>t, <2>2, ArrivedFacts
  <2>4. mixed' = mixed
    BY <1>1, <2>2, <2>3
  <2>5. reply' \subseteq NAKs
    BY <1>1, <1>t, DATAAsks DEF LinkInv, Asks
  <2>6. UNCHANGED <<tmsg, somad, acked, up>> /\ chan'.msgid = chan.msgid
    <3>1. chan' = chan \/ \E g : chan' = [chan EXCEPT !.goodaddr = g]
      BY <1>1 DEF DuplicateData, FillingData, NextData, AheadData
    <3>2. chan'.msgid = chan.msgid
      BY <3>1, <1>k DEF Chans
    <3>3. UNCHANGED <<tmsg, somad, acked, up>>
      BY <1>1 DEF DuplicateData, FillingData, NextData, AheadData, Stay, sendVars, histVars
    <3>4. QED
      BY <3>2, <3>3
  <2>7. QED
    BY <1>a, <1>1, <2>2, <2>3, <2>4, <2>5, <2>6, MoreDelivers
<1>2. CASE UNCHANGED <<vars, back, mixed>>
  BY <1>2, <1>a, IgnoredDelivers DEF vars, readVars, sendVars, histVars
<1>3. QED
  BY <1>1, <1>2 DEF DeliverDATA

(* So is the end of a message that is not complete.                         *)
LEMMA EOMAsks ==
  ASSUME RouteInv, IInv', NEW m, EOMOfNothing(m) \/ EOMOfSome(m)
  PROVE  reply' \subseteq Asks
<1>k. TypeOK /\ gaps' \subseteq Addr
  BY DEF RouteInv, IInv, TypeOK
<1>1. CASE EOMOfNothing(m)
  <2>1. 0 \in Addr /\ MsgSize \in 1 .. MsgSize /\ 0 + MsgSize <= MsgSize
    BY DEF Addr
  <2>2. NAK(0, MsgSize) \in Asks
    BY <2>1, NAKType
  <2>3. reply' = {} \/ reply' = {NAK(0, MsgSize)}
    BY <1>1 DEF EOMOfNothing
  <2>4. QED
    BY <2>2, <2>3
<1>2. CASE EOMOfSome(m)
  <2> DEFINE tail == msgaddr .. MsgSize - 1
             Q    == IF tail = {} THEN {} ELSE QueueGapNAK(MsgSize)
  <2>1. Q \subseteq Asks
    <3>1. CASE tail = {}
      BY <3>1
    <3>2. CASE tail # {}
      <4>1. msgaddr < MsgSize /\ MsgSize \in 1 .. MsgSize
        BY <3>2, <1>k DEF TypeOK
      <4>2. QueueGapNAK(MsgSize) \subseteq Asks
        BY <4>1, <1>k, QueueGapTypes
      <4>3. QED
        BY <3>2, <4>2
    <3>3. QED
      BY <3>1, <3>2
  <2>2. reply' = Q \/ \E R \in SomeNAKs(gaps') : reply' = R \cup Q
    BY <1>2 DEF EOMOfSome
  <2>3. \A R \in SomeNAKs(gaps') : R \subseteq Asks
    BY <1>k, SomeNAKsTypes
  <2>4. QED
    BY <2>1, <2>2, <2>3
<1>3. QED
  BY <1>1, <1>2

(* The end of a message.                                                    *)
LEMMA EOMDelivers ==
  ASSUME LinkInv, IInv', NEW m \in Msgs, DeliverEOM(m)
  PROVE  DeliverStep
<1>a. Arrived(EOM(m)) /\ UNCHANGED mixed /\ EOM(m).id = m /\ EOM(m).type = "EOM" /\ m # NoMsg
  BY DEF DeliverEOM, EOM
<1>k. TypeOK /\ chan \in Chans /\ gaps \subseteq Addr /\ gaps' \subseteq Addr
  BY DEF LinkInv, RouteInv, IInv, TypeOK
<1>1. CASE EOMAgain(m) /\ Answered
  BY <1>1, <1>a, AgainDelivers
<1>2. CASE (EOMOfNothing(m) \/ EOMOfSome(m)) /\ Answered
  <2>1. Assembling
    BY <1>2 DEF EOMOfNothing, EOMOfSome
  <2>2. chan.msgid = tmsg /\ somad /\ ~Idle /\ chan.state # "ENDED"
    BY <1>a, <2>1, ArrivedFacts DEF Assembling
  <2>3. m = tmsg
    BY <1>a, <2>2, ArrivedFacts
  <2>5. reply' \subseteq NAKs
    BY <1>2, EOMAsks DEF LinkInv, Asks
  <2>6. UNCHANGED <<tmsg, somad, acked, up>> /\ chan'.msgid = chan.msgid
    <3>1. chan'.msgid = chan.msgid
      <4>1. CASE EOMOfNothing(m)
        BY <4>1, <1>k DEF EOMOfNothing, Chans
      <4>2. CASE EOMOfSome(m)
        BY <4>2, <1>k DEF EOMOfSome, Chans
      <4>3. QED
        BY <1>2, <4>1, <4>2
    <3>2. UNCHANGED <<tmsg, somad, acked, up>>
      BY <1>2 DEF EOMOfNothing, EOMOfSome, sendVars, histVars
    <3>3. QED
      BY <3>1, <3>2
  <2>7. QED
    BY <1>a, <1>2, <2>2, <2>3, <2>5, <2>6, MoreDelivers
<1>3. CASE UNCHANGED <<vars, back>>
  BY <1>3, <1>a, IgnoredDelivers DEF vars, readVars, sendVars, histVars
<1>4. QED
  BY <1>1, <1>2, <1>3 DEF DeliverEOM

(* An MQE finds nothing that is being received.                             *)
LEMMA MQEDelivers ==
  ASSUME LinkInv, DeliverMQE
  PROVE  DeliverStep
<1>a. Arrived(MQE) /\ RecvRMQE /\ UNCHANGED <<back, mixed>> /\ MQE.type = "MQE"
  BY DEF DeliverMQE, MQE
<1>1. queue = <<>> /\ ~has /\ Idle
  BY <1>a, ArrivedFacts DEF LinkInv, WireInv, QueueRight
<1>2. ~Assembling
  BY <1>a, <1>1, ArrivedFacts
<1>3. PICK f \in SUBSET files : Abort(chan', f)
  BY <1>a DEF RecvRMQE
<1>4. /\ chan'.msgid = chan.msgid /\ ~Assembling'
      /\ chan.state = "ENDED" => chan'.state = "ENDED"
  <2>1. chan \in Chans
    BY DEF LinkInv, RouteInv, IInv, TypeOK
  <2>2. QED
    BY <1>2, <1>3, <2>1 DEF Abort, Assembling, Chans
<1>5. /\ circuit /\ up /\ pc = "ready" /\ Shortened(fwd', fwd) /\ UNCHANGED <<outVars, circuit, canceled>>
      /\ back \in Seq(Packet)
  BY <1>a, ArrivedFacts DEF LinkInv, WireInv, LinkTypes
<1>6. UNCHANGED <<up, pc, tmsg, somad, acked>>
  BY <1>a DEF RecvRMQE, sendVars, histVars
<1>7. Grown(back', back, {p \in Packet : /\ p.type = "EOMA" /\ p.id \in acked'
                                         /\ p.id = tmsg => Done(tmsg)'})
  BY <1>a, <1>5, SameGrown
<1>8. \A x : Done(x) => Done(x)'
  BY <1>4, <1>6 DEF Done
<1>9. QED
  BY <1>a, <1>4, <1>5, <1>6, <1>7, <1>8 DEF DeliverStep

(* The acknowledgement of EndMesg.                                          *)
LEMMA AcknowledgeDelivers ==
  ASSUME LinkInv, Acknowledge
  PROVE  DeliverStep
<1>a. /\ up /\ pc = "passed" /\ pc' = "acked" /\ acked' = acked \cup {chan.msgid}
      /\ UNCHANGED <<up, chan, tmsg, somad>>
      /\ back' = IF circuit THEN Append(back, EOMA(chan.msgid)) ELSE back
      /\ UNCHANGED <<outVars, circuit, fwd, mixed, canceled>>
  BY DEF Acknowledge, SendEOMA, sendVars
<1>b. /\ chan.state = "ENDING" /\ chan.msgid \in Msgs /\ chan.msgid \in acked \cup {tmsg}
      /\ back \in Seq(Packet) /\ Together
  BY <1>a DEF LinkInv, WireInv, LinkTypes, RouteInv, IInv, TypeOK, Phase, Chans, KnownIds
<1>c. circuit => ~Idle
  BY <1>a, <1>b DEF Together
<1>d. Done(chan.msgid)' /\ \A x : ~Done(x)
  BY <1>a, <1>b DEF Done
<1> DEFINE S == {p \in Packet : /\ p.type = "EOMA" /\ p.id \in acked'
                                /\ p.id = tmsg => Done(tmsg)'}
<1>e. Grown(back', back, S)
  <2>1. CASE ~circuit
    BY <2>1, <1>a, <1>b, SameGrown
  <2>2. CASE circuit
    <3>1. MsgSize \in 0 .. MsgSize /\ 0 \in 0 .. MsgSize
      OBVIOUS
    <3>2. EOMA(chan.msgid) \in Packet /\ EOMA(chan.msgid).type = "EOMA" /\ EOMA(chan.msgid).id = chan.msgid
      BY <3>1, <1>b DEF EOMA, Packet
    <3>3. chan.msgid = tmsg => Done(tmsg)'
      BY <1>a DEF Done
    <3>4. EOMA(chan.msgid) \in S
      BY <1>a, <3>2, <3>3
    <3> HIDE DEF S
    <3>5. Grown(Append(back, EOMA(chan.msgid)), back, S)
      BY <1>b, <3>2, <3>4, AppendGrown
    <3>6. QED
      BY <2>2, <1>a, <3>5
  <2>3. QED
    BY <2>1, <2>2
<1>f. acked \subseteq acked' /\ acked' \subseteq acked \cup {tmsg} /\ ~Reading'
  BY <1>a, <1>b DEF Reading
<1>g. QED
  BY <1>a, <1>c, <1>d, <1>e, <1>f DEF DeliverStep

(* The rest of EndMesg, the router, the clock.                              *)
LEMMA OthersDeliver ==
  ASSUME LinkInv, Finish \/ Elsewhere
  PROVE  DeliverStep
<1>t. /\ chan \in Chans /\ back \in Seq(Packet) /\ Together
  BY DEF LinkInv, WireInv, LinkTypes, RouteInv, IInv, TypeOK
<1>a. /\ UNCHANGED <<up, tmsg, somad, acked>> /\ UNCHANGED <<outVars, circuit, fwd, back, mixed, canceled>>
      /\ \/ pc' = pc /\ chan' = chan
         \/ pc = "acked" /\ pc' = "ready" /\ chan'.msgid = chan.msgid /\ chan'.state = "ENDED"
  <2>1. CASE Finish
    BY <2>1, <1>t DEF Finish, EndMesgDone, sendVars, histVars, wireVars, Chans
  <2>2. CASE Elsewhere
    BY <2>2 DEF Elsewhere, RouterTakes, Flush, Checkpoint, readVars, sendVars, histVars, wireVars
  <2>3. QED
    BY <2>1, <2>2
<1>b. Grown(back', back, {p \in Packet : /\ p.type = "EOMA" /\ p.id \in acked'
                                         /\ p.id = tmsg => Done(tmsg)'})
  BY <1>a, <1>t, SameGrown
<1>c. \A x : Done(x) => Done(x)'
  BY <1>a DEF Done
<1>d. /\ (Reading /\ Assembling)' => chan'.msgid = tmsg /\ somad'
      /\ circuit /\ Idle => pc' # "passed" /\ (pc' = "ready" => ~Assembling')
      /\ circuit => up
  BY <1>a, <1>t DEF Together, Reading, Assembling
<1>e. QED
  BY <1>a, <1>b, <1>c, <1>d DEF DeliverStep

-----------------------------------------------------------------------------
(* The transmitter keeps what VCReceiver assumes of it: what arrives, and   *)
(* when it goes on to another message.                                      *)

(* Starts and ends are of its message, or of one that was acknowledged.     *)
LEMMA DeliveryKeeps ==
  ASSUME LinkInv, Delivery
  PROVE  [Next]_vars
<1>1. ASSUME NEW m \in Msgs, DeliverSOM(m) PROVE [Next]_vars
  <2>1. /\ Arrived(SOM(m)) /\ SOM(m).id = m /\ m # NoMsg
        /\ SOMAgain(m) \/ SOMRepeated(m) \/ SOMResumed(m) \/ SOMNoFile(m) \/ SOMNew(m)
    BY <1>1 DEF DeliverSOM, SOM
  <2>2. CASE m = tmsg
    BY <2>1, <2>2 DEF RecvSOM, Next
  <2>3. CASE m # tmsg
    <3>1. chan.msgid = m /\ chan.state = "ENDED" /\ m \in acked
      BY <2>1, <2>3, ArrivedFacts
    <3>2. SOMAgain(m)
      BY <2>1, <3>1 DEF SOMRepeated, SOMResumed, SOMNoFile, SOMNew, MessageOf
    <3>3. EOMAgain(m)
      BY <3>2 DEF SOMAgain, EOMAgain
    <3>4. QED
      BY <3>1, <3>3 DEF RecvEOM, Next
  <2>4. QED
    BY <2>2, <2>3
<1>2. ASSUME NEW m \in Msgs, DeliverEOM(m) PROVE [Next]_vars
  <2>1. Arrived(EOM(m)) /\ EOM(m).id = m /\ EOM(m).type = "EOM" /\ m # NoMsg
    BY <1>2 DEF DeliverEOM, EOM
  <2>2. \/ EOMAgain(m) \/ EOMOfNothing(m) \/ EOMOfSome(m)
        \/ UNCHANGED vars
    BY <1>2 DEF DeliverEOM
  <2>3. CASE m = tmsg
    <3>1. somad
      BY <2>1, <2>3, ArrivedFacts
    <3>2. QED
      BY <2>2, <2>3, <3>1 DEF RecvEOM, Next
  <2>4. CASE m # tmsg
    <3>1. chan.msgid = m /\ chan.state = "ENDED" /\ m \in acked
      BY <2>1, <2>4, ArrivedFacts
    <3>2. EOMAgain(m) \/ UNCHANGED vars
      BY <2>2, <3>1 DEF EOMOfNothing, EOMOfSome, Assembling
    <3>3. QED
      BY <3>1, <3>2 DEF RecvEOM, Next
  <2>5. QED
    BY <2>3, <2>4
<1>3. ASSUME NEW p, DeliverDATA(p) PROVE [Next]_vars
  <2>1. Arrived(p) /\ p.type = "DATA"
    BY <1>3 DEF DeliverDATA
  <2>2. p.addr \in Addr /\ p.len \in 1 .. MaxPkt /\ p.addr + p.len <= MsgSize
    BY <2>1, ArrivedFacts DEF ToReceiver, SOM, EOM, MQE
  <2>3. \/ DuplicateData(p.addr, p.len) \/ FillingData(p.addr, p.len)
        \/ NextData(p.addr, p.len) \/ AheadData(p.addr, p.len)
        \/ UNCHANGED vars
    BY <1>3 DEF DeliverDATA
  <2>4. RecvData(p.addr, p.len) \/ UNCHANGED vars
    BY <2>2, <2>3 DEF RecvData
  <2>5. QED
    BY <2>2, <2>4 DEF Next
<1>4. ASSUME DeliverMQE PROVE [Next]_vars
  <2>1. Arrived(MQE) /\ RecvRMQE /\ MQE.type = "MQE"
    BY <1>4 DEF DeliverMQE, MQE
  <2>2. queue = <<>>
    BY <2>1, ArrivedFacts
  <2>3. tmsg \in acked
    BY <2>2 DEF LinkInv, WireInv, QueueRight, InQueue
  <2>4. QED
    BY <2>1, <2>3 DEF RecvMQE, Next
<1>5. QED
  BY <1>1, <1>2, <1>3, <1>4 DEF Delivery

(* Every step of a link is one that VCReceiver allows, or leaves the        *)
(* receiver alone.                                                          *)
LEMMA LinkSteps ==
  ASSUME LinkInv, [LinkNext]_linkVars
  PROVE  [Next]_vars
<1>1. CASE UNCHANGED linkVars
  BY <1>1 DEF linkVars
<1>2. CASE Transmit
  <2>1. CASE FindMessage
    <3>1. /\ queue # <<>> /\ tmsg' = Head(queue) /\ somad' = (somad /\ tmsg' = tmsg)
          /\ UNCHANGED <<readVars, saved, fileVars, routVars, histVars>>
      BY <2>1 DEF FindMessage
    <3>2. somad \in BOOLEAN /\ Head(queue) \in Msgs
      BY <3>1, QueueHead DEF LinkInv, RouteInv, IInv, TypeOK
    <3>3. CASE Head(queue) = tmsg
      <4>1. tmsg' = tmsg /\ somad' = somad
        BY <3>1, <3>2, <3>3, Zenon
      <4>2. QED
        BY <3>1, <4>1 DEF vars, sendVars
    <3>4. CASE Head(queue) # tmsg
      <4>1. tmsg \in acked /\ Head(queue) \notin acked
        BY <3>1, <3>4, HeadNew
      <4>2. somad' = FALSE
        BY <3>1, <3>4, Zenon
      <4>3. NextMessage(Head(queue))
        BY <3>1, <4>1, <4>2 DEF NextMessage
      <4>4. QED
        BY <3>2, <4>3 DEF Next
    <3>5. QED
      BY <3>3, <3>4
  <2>2. CASE CleanUp \/ SendSOM \/ SendAhead \/ SendNext \/ FirstEOM \/ RepeatEOM
    BY <2>2 DEF CleanUp, SendSOM, SendAhead, SendNext, FirstEOM, RepeatEOM, Quiet
  <2>3. QED
    BY <1>2, <2>1, <2>2 DEF Transmit
<1>3. CASE SendMQE \/ Answers \/ Lose \/ KillTransmitter \/ TooManyEOMs \/ Cancel
  BY <1>3 DEF SendMQE, Answers, RecvEOMA, RecvSOMA, RecvNAK, Lose, KillTransmitter, TooManyEOMs,
     TransmitterStops, Cancel, Quiet
<1>4. CASE Delivery
  BY <1>4, DeliveryKeeps
<1>5. CASE Break \/ HangUp \/ KillReceiver
  BY <1>5 DEF Break, HangUp, ReceiverStops, TransmitterStops, KillReceiver, Quiet, Next
<1>8. CASE ReceiverFails
  BY <1>8 DEF ReceiverFails, Next
<1>6. CASE Acknowledge \/ Connect \/ Finish \/ Elsewhere
  BY <1>6 DEF Acknowledge, Connect, Finish, Elsewhere, Next
<1>7. QED
  BY <1>1, <1>2, <1>3, <1>4, <1>5, <1>6, <1>8 DEF LinkNext

(* No operator removes command files, no file becomes unreadable: a message *)
(* leaves the queue only when it was acknowledged.                          *)
NoCancel == "cancel" \notin LinkFaults

(* The invariant is kept.                                                   *)
LEMMA NextLink ==
  ASSUME LinkInv, NoCancel, [LinkNext]_linkVars
  PROVE  LinkInv'
<1>1. RouteInv'
  BY LinkSteps, NextRoute DEF LinkInv
<1>2. WireInv'
  <2>i. IInv'
    BY <1>1 DEF RouteInv
  <2>1. CASE UNCHANGED linkVars
    <3>1. UNCHANGED <<up, pc, chan, tmsg, somad, acked, mixed, canceled, circuit, has, queue, writing,
                      outstate, outaddr, eof, count, outsaved, fwd, back>>
      BY <2>1 DEF linkVars, vars, readVars, sendVars, histVars, outVars, wireVars
    <3>2. LinkTypes'
      BY <3>1 DEF LinkInv, WireInv, LinkTypes, ToReceiver, ToTransmitter
    <3>3. QueueRight' /\ DataLeft'
      BY <3>1 DEF LinkInv, WireInv, QueueRight, InQueue, Idle, DataLeft
    <3>4. Together'
      BY <3>1 DEF LinkInv, WireInv, Together, Reading, Assembling, Idle
    <3>5. FwdRight' /\ BackRight'
      BY <3>1 DEF LinkInv, WireInv, FwdRight, BackRight, Done, Idle
    <3>6. QED
      BY <3>2, <3>3, <3>4, <3>5 DEF WireInv
  <2>2. CASE CleanUp
    BY <2>2, CleanUpKeeps
  <2>3. CASE FindMessage
    BY <2>3, FindMessageKeeps
  <2>4. CASE SendSOM \/ SendAhead \/ SendNext \/ FirstEOM \/ RepeatEOM
    BY <2>4, TransmitSends, SendKeeps
  <2>5. CASE SendMQE
    BY <2>5, MQESends, SendKeeps
  <2>6. CASE Answers
    BY <2>6, EOMAKeeps, SOMASends, NAKSends, SendKeeps DEF Answers
  <2>7. CASE Delivery
    <3>1. DeliverStep
      BY <2>7, <2>i, SOMDelivers, DATADelivers, EOMDelivers, MQEDelivers DEF Delivery
    <3>2. QED
      BY <3>1, DeliverKeeps
  <2>8. CASE Acknowledge \/ Finish \/ Elsewhere
    BY <2>8, AcknowledgeDelivers, OthersDeliver, DeliverKeeps
  <2>9. CASE Lose
    BY <2>9, LoseKeeps
  <2>10. CASE Break \/ TooManyEOMs \/ ReceiverFails \/ KillReceiver \/ KillTransmitter \/ HangUp
    BY <2>10, EndsCut, CutKeeps
  <2>11. CASE Connect
    BY <2>11, ConnectKeeps
  <2>12. ~Cancel
    BY DEF NoCancel, Cancel
  <2>13. QED
    BY <2>1, <2>2, <2>3, <2>4, <2>5, <2>6, <2>7, <2>8, <2>9, <2>10, <2>11, <2>12
       DEF LinkNext, Transmit
<1>3. QED
  BY <1>1, <1>2 DEF LinkInv

(* It holds at the start.                                                   *)
LEMMA InitLink ==
  ASSUME LinkInit
  PROVE  LinkInv
<1>1. RouteInv
  BY InitRoute DEF LinkInit
<1>2. /\ up /\ pc = "ready" /\ ~Assembling /\ tmsg \in Msgs /\ acked = {} /\ chan.state = "IDLE"
  BY DEF LinkInit, Init, Assembling
<1>3. Cardinality(Msgs) \in Nat /\ Cardinality(Msgs) # 0
  <2>1. IsFiniteSet(Msgs) /\ Msgs # {}
    BY <1>2
  <2>2. QED
    BY <2>1, FS_CardinalityType, FS_EmptySet
<1>4. queue \in Seq(Msgs) /\ DOMAIN queue = 1 .. Cardinality(Msgs) /\ tmsg = Head(queue)
      /\ \A i, j \in DOMAIN queue : queue[i] = queue[j] => i = j
  BY <1>3 DEF LinkInit
<1>5. 1 \in DOMAIN queue /\ tmsg = queue[1]
  <2>1. 1 \in 1 .. Cardinality(Msgs)
    BY <1>3
  <2>2. 1 \in DOMAIN queue
    BY <1>4, <2>1
  <2>3. queue # <<>>
    BY <2>2
  <2>4. queue \in Seq(Msgs)
    BY <1>4
  <2>5. Head(queue) = queue[1]
    BY <2>3, <2>4
  <2>6. QED
    BY <1>4, <2>2, <2>5
<1>6. LinkTypes
  <2>1. 0 \in 0 .. MsgSize
    OBVIOUS
  <2>2. /\ writing \in BOOLEAN /\ has \in BOOLEAN /\ eof \in BOOLEAN /\ circuit \in BOOLEAN
        /\ outstate = "IDLE"
    BY Zenon DEF LinkInit
  <2>3. outaddr = 0 /\ outsaved.addr = 0
    BY DEF LinkInit
  <2>4. fwd = <<>> /\ back = <<>>
    BY DEF LinkInit
  <2>5. /\ fwd \in Seq(Packet) /\ \A i \in DOMAIN fwd : ToReceiver(fwd[i])
        /\ back \in Seq(Packet) /\ \A i \in DOMAIN back : ToTransmitter(back[i])
    BY <2>4
  <2>6. QED
    BY <1>4, <2>1, <2>2, <2>3, <2>5 DEF LinkTypes
<1>7. QueueRight
  <2>0. queue \in Seq(Msgs)
    BY <1>4
  <2>1. ~InQueue(NoMsg)
    BY <2>0 DEF InQueue
  <2>2. QED
    BY <1>2, <1>4, <1>5, <2>1 DEF LinkInit, QueueRight, InQueue, Idle
<1>8. DataLeft /\ Together /\ FwdRight /\ BackRight
  BY <1>2 DEF LinkInit, DataLeft, Together, FwdRight, BackRight, Idle
<1>9. QED
  BY <1>1, <1>6, <1>7, <1>8 DEF LinkInv, WireInv

-----------------------------------------------------------------------------
(* The theorems.  The invariant holds of every link.                        *)
THEOREM LinkInvariant ==
  ASSUME "cancel" \notin LinkFaults
  PROVE  LinkSpec => []LinkInv
<1>1. LinkInit => LinkInv
  BY InitLink
<1>2. LinkInv /\ [LinkNext]_linkVars => LinkInv'
  BY NextLink DEF NoCancel
<1>3. QED
  BY <1>1, <1>2, PTL DEF LinkSpec

(* What VCReceiver assumes of its environment (no packet of another message *)
(* but of one that was acknowledged, an EOM after a SOMA, the next message  *)
(* after the EOMA, an MQE when all is done) is what the transmitter and the *)
(* circuit do (KeepsReceiverSpec; transmitter.c, writer.c, message.c).      *)
THEOREM LinkKeepsReceiverSpec ==
  ASSUME "cancel" \notin LinkFaults
  PROVE  LinkSpec => KeepsReceiverSpec
<1>1. LinkInit => Init
  BY DEF LinkInit
<1>2. LinkInv /\ [LinkNext]_linkVars => [Next]_vars
  BY LinkSteps
<1>3. QED
  BY <1>1, <1>2, LinkInvariant, PTL DEF LinkSpec, KeepsReceiverSpec, Spec

(* DATA and NAK packets do not say which message they are of, and yet no    *)
(* message passed to the router has a byte of another (NotMixed), whatever  *)
(* is lost or repeated and whichever end dies when.                         *)
THEOREM LinkNotMixed ==
  ASSUME "cancel" \notin LinkFaults
  PROVE  LinkSpec => []NotMixed
<1>1. LinkInv => NotMixed
  BY DEF LinkInv, WireInv, Together, NotMixed
<1>2. QED
  BY <1>1, LinkInvariant, PTL

(* What the router finds at the end of a link is whole (RoutedWhole).       *)
THEOREM LinkRoutedWhole ==
  ASSUME "cancel" \notin LinkFaults, "slow" \notin Faults
  PROVE  LinkSpec => []RoutedWhole
<1>1. LinkInv => RoutedWhole
  BY DEF LinkInv, RouteInv, Whence
<1>2. QED
  BY <1>1, LinkInvariant, PTL

-----------------------------------------------------------------------------
(* Every message is in the queue until it was acknowledged.                 *)
Accounted == \A m \in Msgs : InQueue(m) \/ m \in acked

(* All of a link, where nothing makes the receiver abort what it then       *)
(* acknowledges.                                                            *)
KeptInv == LinkInv /\ EndInv /\ Accounted

(* What was acknowledged stays so.                                          *)
LEMMA AckedStays ==
  ASSUME [Next]_vars
  PROVE  acked \subseteq acked'
<1>1. CASE UNCHANGED vars
  BY <1>1 DEF vars, histVars
<1>2. ASSUME NEW a, NEW n, RecvData(a, n) PROVE acked' = acked
  BY <1>2 DEF RecvData, DuplicateData, FillingData, NextData, AheadData, DroppedData, Stay, histVars
<1>3. ASSUME NEW m, RecvEOM(m) \/ RecvSOM(m) PROVE acked \subseteq acked'
  BY <1>3 DEF RecvEOM, EOMAgain, EOMOfNothing, EOMOfSome, EOMWhileStarting, RecvSOM, SOMAgain,
     SOMRepeated, SOMResumed, SOMNoFile, SOMNew, NewFile, histVars
<1>4. ASSUME NEW m, NextMessage(m) \/ KillCreating(m) \/ ExitCreating(m) PROVE acked' = acked
  BY <1>4 DEF NextMessage, KillCreating, ExitCreating, Creating, histVars
<1>5. CASE SendEOMA \/ EndMesgDone \/ RecvMQE \/ Checkpoint \/ Flush \/ Stop \/ ErrorExit
  BY <1>5 DEF SendEOMA, EndMesgDone, RecvMQE, RecvRMQE, Checkpoint, Flush, Stop, ErrorExit, histVars
<1>6. CASE ExitPassing \/ ExitNAKing \/ Echo \/ Kill \/ Restart \/ RouterTakes
  BY <1>6 DEF ExitPassing, ExitNAKing, Echo, Kill, Restart, RouterTakes, histVars
<1>7. QED
  BY <1>1, <1>2, <1>3, <1>4, <1>5, <1>6 DEF Next

(* Only CleanUp removes a command file, that of an acknowledged message.    *)
LEMMA QueueSteps ==
  ASSUME LinkInv, NoCancel, [LinkNext]_linkVars
  PROVE  \/ queue' = queue
         \/ /\ queue # <<>> /\ queue' = Tail(queue) /\ Head(queue) = tmsg /\ tmsg \in acked
            /\ UNCHANGED vars
<1>1. CASE CleanUp
  <2>1. /\ has /\ Idle /\ queue' = IF tmsg \in canceled THEN queue ELSE Tail(queue)
        /\ UNCHANGED vars
    BY <1>1 DEF CleanUp, Quiet, Idle
  <2>2. InQueue(tmsg) /\ tmsg \in acked /\ canceled = {}
    BY <2>1 DEF LinkInv, WireInv, QueueRight
  <2>3. PICK i \in DOMAIN queue : queue[i] = tmsg
    BY <2>2 DEF InQueue
  <2>4. i = 1
    BY <2>3 DEF LinkInv, WireInv, QueueRight
  <2>5. queue # <<>>
    BY <2>3
  <2>6. QED
    BY <2>1, <2>2, <2>3, <2>4, <2>5, QueueHead
<1>2. CASE UNCHANGED linkVars
  BY <1>2 DEF linkVars, outVars
<1>3. CASE Transmit /\ ~CleanUp
  BY <1>3 DEF Transmit, FindMessage, SendSOM, SendAhead, SendNext, FirstEOM, RepeatEOM
<1>4. CASE SendMQE \/ Answers \/ Lose \/ KillTransmitter \/ TooManyEOMs
  BY <1>4 DEF SendMQE, Answers, RecvEOMA, RecvSOMA, RecvNAK, Lose, KillTransmitter, TooManyEOMs,
     TransmitterStops, outVars
<1>5. CASE Delivery
  BY <1>5 DEF Delivery, DeliverSOM, DeliverEOM, DeliverDATA, DeliverMQE, Arrived, outVars
<1>6. CASE Break \/ HangUp \/ KillReceiver \/ ReceiverFails
  BY <1>6 DEF Break, HangUp, ReceiverStops, TransmitterStops, KillReceiver, ReceiverFails, outVars
<1>7. CASE Acknowledge \/ Connect \/ Finish \/ Elsewhere
  BY <1>7 DEF Acknowledge, Connect, Finish, Elsewhere, outVars
<1>8. ~Cancel
  BY DEF NoCancel, Cancel
<1>9. QED
  BY <1>1, <1>2, <1>3, <1>4, <1>5, <1>6, <1>7, <1>8 DEF LinkNext

(* KeptInv is inductive.                                                    *)
LEMMA NextKept ==
  ASSUME KeptInv, NoCancel, NoEndFaults, [LinkNext]_linkVars
  PROVE  KeptInv'
<1>1. LinkInv /\ [Next]_vars
  BY LinkSteps DEF KeptInv
<1>2. LinkInv' /\ EndInv'
  BY <1>1, NextLink, NextEnd DEF KeptInv, LinkInv
<1>3. acked \subseteq acked'
  BY <1>1, AckedStays
<1>4. Accounted'
  <2>1. CASE queue' = queue
    BY <2>1, <1>3 DEF KeptInv, Accounted, InQueue
  <2>2. CASE /\ queue # <<>> /\ queue' = Tail(queue) /\ Head(queue) = tmsg /\ tmsg \in acked
             /\ UNCHANGED vars
    <3>1. /\ queue \in Seq(Msgs) /\ Len(queue) \in Nat /\ DOMAIN queue = 1 .. Len(queue)
      BY <1>1 DEF LinkInv, WireInv, LinkTypes
    <3>2. /\ DOMAIN queue' = 1 .. Len(queue) - 1
          /\ \A i \in 1 .. Len(queue) - 1 : queue'[i] = queue[i + 1]
          /\ queue[1] \in acked
      BY <2>2, <3>1
    <3>3. SUFFICES ASSUME NEW m \in Msgs, m \notin acked PROVE \E i \in DOMAIN queue' : queue'[i] = m
      BY <1>3 DEF Accounted, InQueue
    <3>4. PICK i \in DOMAIN queue : queue[i] = m
      BY <3>3 DEF KeptInv, Accounted, InQueue
    <3>5. i # 1
      BY <3>2, <3>3, <3>4
    <3>6. i - 1 \in DOMAIN queue' /\ queue'[i - 1] = m
      BY <3>1, <3>2, <3>4, <3>5
    <3>7. QED
      BY <3>6
  <2>3. QED
    BY <1>1, <2>1, <2>2, QueueSteps
<1>5. QED
  BY <1>2, <1>4 DEF KeptInv

(* Every message is queued at the start, for as many as there are are       *)
(* queued and none twice.                                                   *)
LEMMA AllQueued ==
  ASSUME LinkInit
  PROVE  \A m \in Msgs : InQueue(m)
<1> DEFINE D == 1 .. Cardinality(Msgs)
<1>1. Cardinality(Msgs) \in Nat /\ IsFiniteSet(Msgs)
  BY FS_CardinalityType
<1>2. IsFiniteSet(D) /\ Cardinality(D) = Cardinality(Msgs)
  BY <1>1, FS_Interval
<1>3. queue \in Injection(D, Msgs)
  BY DEF LinkInit, Injection, IsInjective
<1>4. queue \in Surjection(D, Msgs)
  <2> HIDE DEF D
  <2>1. QED
    BY <1>1, <1>2, <1>3, FS_Injection
<1>5. QED
  BY <1>4 DEF Surjection, InQueue

(* KeptInv holds at the start.                                              *)
LEMMA InitKept ==
  ASSUME LinkInit
  PROVE  KeptInv
<1>1. LinkInv /\ EndInv
  BY InitLink, InitEnd DEF LinkInit
<1>2. Accounted
  BY AllQueued DEF Accounted
<1>3. QED
  BY <1>1, <1>2 DEF KeptInv

(* KeptInv holds of every link whose circuit does not echo and whose spool  *)
(* file system has room, across any crashes of the two daemons.             *)
THEOREM KeptInvariant ==
  ASSUME "cancel" \notin LinkFaults, "space" \notin Faults, "echo" \notin Faults
  PROVE  LinkSpec => []KeptInv
<1>1. KeptInv /\ [LinkNext]_linkVars => KeptInv'
  BY NextKept DEF NoCancel, NoEndFaults
<1>2. QED
  BY <1>1, InitKept, PTL DEF LinkSpec

(* A host keeps the command file of a message until the other host has      *)
(* passed the message on (Kept; FindMessage, RecvEOMA, EndMesg), unless that*)
(* could not write the message's SOMA and saved it as received              *)
(* (receiver.c:849-911).                                                    *)
THEOREM LinkKept ==
  ASSUME "cancel" \notin LinkFaults, "space" \notin Faults, "echo" \notin Faults
  PROVE  LinkSpec => []Kept
<1>1. KeptInv => Kept
  <2>1. SUFFICES ASSUME KeptInv, NEW m \in Msgs, ~InQueue(m)
                 PROVE  m \in halfway \/ \E i \in DOMAIN passed : passed[i].id = m
    BY DEF Kept, InQueue
  <2>2. m \in acked
    BY <2>1 DEF KeptInv, Accounted
  <2>3. QED
    BY <2>1, <2>2 DEF KeptInv, EndInv, EOMAHonest
<1>2. QED
  BY <1>1, KeptInvariant, PTL

(* What the transmitter is told of is passed on, with the same exception    *)
(* (EOMAHonest).                                                            *)
THEOREM LinkEOMAHonest ==
  ASSUME "cancel" \notin LinkFaults, "space" \notin Faults, "echo" \notin Faults
  PROVE  LinkSpec => []EOMAHonest
<1>1. KeptInv => EOMAHonest
  BY DEF KeptInv, EndInv
<1>2. QED
  BY <1>1, KeptInvariant, PTL

(* ``Unexpected EOM'' (receiver.c:407) does not happen (NoUnexpectedEOM):   *)
(* an EOM follows the SOMA of the same session.                             *)
THEOREM LinkNoUnexpectedEOM ==
  ASSUME "cancel" \notin LinkFaults, "space" \notin Faults, "echo" \notin Faults
  PROVE  LinkSpec => []NoUnexpectedEOM
<1>1. KeptInv => NoUnexpectedEOM
  <2>1. SUFFICES ASSUME KeptInv, Reading, fwd # <<>>, Head(fwd).type = "EOM", MessageOf(Head(fwd).id)
                 PROVE  chan.state # "STARTING"
    BY DEF NoUnexpectedEOM
  <2>2. fwd \in Seq(Packet)
    BY <2>1 DEF KeptInv, LinkInv, WireInv, LinkTypes
  <2>3. 1 \in DOMAIN fwd /\ Head(fwd) = fwd[1]
    BY <2>1, <2>2, TailShortened
  <2>a. \A i \in DOMAIN fwd : ToReceiver(fwd[i])
    BY <2>1 DEF KeptInv, LinkInv, WireInv, LinkTypes
  <2>4. ToReceiver(fwd[1])
    BY <2>3, <2>a
  <2>5. fwd[1].id \in Msgs
    BY <2>1, <2>3, <2>4 DEF ToReceiver, SOM, EOM, MQE
  <2>6. CASE fwd[1].id = tmsg
    <3>1. somad
      BY <2>1, <2>3, <2>6 DEF KeptInv, LinkInv, WireInv, FwdRight
    <3>2. QED
      BY <2>1, <3>1 DEF KeptInv, EndInv
  <2>7. CASE fwd[1].id # tmsg
    <3>1. \A i \in DOMAIN fwd : fwd[i].id # NoMsg /\ fwd[i].id # tmsg => Done(fwd[i].id)
      BY <2>1 DEF KeptInv, LinkInv, WireInv, FwdRight
    <3>2. fwd[1].id # NoMsg
      BY <2>5
    <3>3. Done(fwd[1].id)
      BY <2>3, <2>7, <3>1, <3>2
    <3>4. QED
      BY <2>1, <3>3 DEF Done, Reading
  <2>8. QED
    BY <2>6, <2>7
<1>2. QED
  BY <1>1, KeptInvariant, PTL

-----------------------------------------------------------------------------
(* The refinement.  Without crashes of the receiver the transmitter's       *)
(* message is the oldest in the queue, and the next to be handed over.      *)
CalmLink == KeptInv /\ SpoolInv /\ NoHalf

PassedIds == [i \in DOMAIN passed |-> passed[i].id]

(* CalmLink is inductive.                                                   *)
LEMMA NextCalmLink ==
  ASSUME CalmLink, NoCancel, CalmFaults, [LinkNext]_linkVars
  PROVE  CalmLink'
<1>1. NoEndFaults
  BY DEF CalmFaults, NoEndFaults
<1>2. KeptInv'
  BY <1>1, NextKept DEF CalmLink
<1>3. [Next]_vars
  BY LinkSteps DEF CalmLink, KeptInv
<1>4. CalmInv
  BY DEF CalmLink, KeptInv, LinkInv, CalmInv
<1>5. CalmInv'
  BY <1>3, <1>4, NextCalm
<1>6. QED
  BY <1>2, <1>5 DEF CalmLink, CalmInv

(* What was handed over, as HandOver has it.                                *)
LEMMA ReceivedHas ==
  ASSUME NEW m
  PROVE  HO!Has(PassedIds, m) <=> Given(m)
  BY DEF HO!Has, PassedIds, Given

(* EndMesg hands over the message at the head of the queue, for the first   *)
(* time; nothing else changes what was handed over.                         *)
LEMMA PassReceives ==
  ASSUME CalmLink, NoCancel, [LinkNext]_linkVars, passed' # passed
  PROVE  /\ queue # <<>> /\ queue' = queue /\ ~Given(Head(queue))
         /\ \E r : passed' = Append(passed, r) /\ r.id = Head(queue)
<1>1. RouteInv /\ LinkInv /\ [Next]_vars
  BY LinkSteps DEF CalmLink, KeptInv, LinkInv
<1>2. PassStep
  <2>1. Next
    BY <1>1 DEF vars, routVars
  <2>2. QED
    BY <1>1, <2>1, StepKinds DEF KeepStep, RouterTakes, CreateStep, NextMessage, routVars
<1>3. chan.msgid = tmsg
  BY <1>1, <1>2 DEF PassStep, LinkInv, WireInv, Together
<1>4. ~Given(tmsg)
  <2>1. pc = "ready" /\ Unfinished(chan)
    BY <1>2 DEF PassStep, Reading, Assembling, Unfinished
  <2>2. QED
    BY <1>3, <2>1 DEF CalmLink, SpoolInv
<1>5. tmsg \notin acked
  BY <1>4 DEF CalmLink, KeptInv, EndInv, EOMAHonest, NoHalf, Given
<1>6. PICK i \in DOMAIN queue : queue[i] = tmsg
  BY <1>1, <1>5 DEF LinkInv, WireInv, QueueRight, InQueue
<1>7. i = 1
  BY <1>1, <1>6 DEF LinkInv, WireInv, QueueRight
<1>8. queue # <<>>
  BY <1>6
<1>9. Head(queue) = tmsg
  BY <1>1, <1>6, <1>7, <1>8, QueueHead
<1>10. queue' = queue
  BY <1>1, <1>5, QueueSteps
<1>11. \E r : passed' = Append(passed, r) /\ r.id = tmsg
  BY <1>2, <1>3 DEF PassStep
<1>12. QED
  BY <1>4, <1>8, <1>9, <1>10, <1>11

(* Every step of the link is one of HandOver, or leaves alone what it sees. *)
LEMMA LinkHandsOver ==
  ASSUME CalmLink, NoCancel, [LinkNext]_linkVars
  PROVE  [HO!Next]_<<queue, PassedIds>>
<1>1. CASE passed' # passed
  <2>1. /\ queue # <<>> /\ queue' = queue /\ ~Given(Head(queue))
        /\ \E r : passed' = Append(passed, r) /\ r.id = Head(queue)
    BY <1>1, PassReceives
  <2>2. PICK r : passed' = Append(passed, r) /\ r.id = Head(queue)
    BY <2>1
  <2>3. passed \in Seq([id : Msgs, dup : BOOLEAN, resumed : Nat])
    BY DEF CalmLink, KeptInv, LinkInv, RouteInv, IInv, TypeOK
  <2>4. /\ Len(passed) \in Nat /\ DOMAIN passed = 1 .. Len(passed)
        /\ DOMAIN passed' = 1 .. Len(passed) + 1
        /\ passed'[Len(passed) + 1] = r
        /\ \A i \in 1 .. Len(passed) : passed'[i] = passed[i]
    BY <2>2, <2>3
  <2>5. PassedIds' = Append(PassedIds, Head(queue))
    <3>1. DOMAIN PassedIds' = 1 .. Len(passed) + 1 /\ DOMAIN PassedIds = 1 .. Len(passed)
      BY <2>4 DEF PassedIds
    <3>2. \A i \in 1 .. Len(passed) + 1 :
            PassedIds'[i] = IF i <= Len(passed) THEN PassedIds[i] ELSE Head(queue)
      BY <2>2, <2>4 DEF PassedIds
    <3>3. PassedIds' = [i \in 1 .. Len(passed) + 1 |-> IF i <= Len(passed) THEN PassedIds[i] ELSE Head(queue)]
      <4>1. PassedIds' = [i \in DOMAIN PassedIds' |-> PassedIds'[i]]
        BY DEF PassedIds
      <4>2. QED
        BY <3>1, <3>2, <4>1
    <3>4. PassedIds \in Seq(Msgs) /\ Len(PassedIds) = Len(passed)
      <4>1. \A i \in 1 .. Len(passed) : passed[i].id \in Msgs
        <5> DEFINE Passed == [id : Msgs, dup : BOOLEAN, resumed : Nat]
        <5>1. \A i \in 1 .. Len(passed) : passed[i] \in Passed
          <6>1. passed \in Seq(Passed)
            BY <2>3
          <6> HIDE DEF Passed
          <6>2. QED
            BY <6>1
        <5>2. QED
          BY <5>1
      <4>2. PassedIds = [i \in 1 .. Len(passed) |-> passed[i].id]
        BY <2>4 DEF PassedIds
      <4>3. QED
        BY <2>4, <4>1, <4>2
    <3>5. Head(queue) \in Msgs
      BY <2>1, QueueHead DEF CalmLink, KeptInv
    <3>6. QED
      BY <2>4, <3>3, <3>4, <3>5
  <2>6. HO!Receive
    BY <2>1, <2>5, ReceivedHas DEF HO!Receive, PassedIds
  <2>7. QED
    BY <2>6 DEF HO!Next
<1>2. CASE passed' = passed
  <2>1. PassedIds' = PassedIds
    BY <1>2 DEF PassedIds
  <2>2. CASE queue' = queue
    BY <2>1, <2>2
  <2>3. CASE queue # <<>> /\ queue' = Tail(queue) /\ Head(queue) = tmsg /\ tmsg \in acked
    <3>1. Given(Head(queue))
      BY <2>3 DEF CalmLink, KeptInv, EndInv, EOMAHonest, NoHalf, Given
    <3>2. HO!Forget
      BY <2>1, <2>3, <3>1, ReceivedHas DEF HO!Forget, PassedIds
    <3>3. QED
      BY <3>2 DEF HO!Next
  <2>4. QED
    BY <2>2, <2>3, QueueSteps DEF CalmLink, KeptInv
<1>3. QED
  BY <1>1, <1>2

(* If the receiver ends between two handlers only, its status saved, and its*)
(* spool has room, a link is HandOver (HandsOver; the netdaemon.8 promise): *)
(* every message reaches the router at most once, in the order of the       *)
(* command files, each of which stays until then.                           *)
THEOREM LinkImplementsHandOver ==
  ASSUME "cancel" \notin LinkFaults, Faults \subseteq {"error"}
  PROVE  LinkSpec => HandsOver
<1>1. LinkInit => CalmLink
  <2>1. SUFFICES ASSUME LinkInit PROVE CalmLink
    OBVIOUS
  <2>2. CalmInv /\ KeptInv
    BY <2>1, InitKept, InitCalm DEF LinkInit
  <2>3. QED
    BY <2>2 DEF CalmLink, CalmInv
<1>2. LinkInit => HO!Init
  <2>1. SUFFICES ASSUME LinkInit PROVE HO!Init
    OBVIOUS
  <2>2. \A m \in Msgs : HO!Has(queue, m)
    BY <2>1, AllQueued DEF HO!Has, InQueue
  <2>3. queue \in [1 .. Cardinality(Msgs) -> Msgs] /\ passed = <<>>
    BY <2>1 DEF LinkInit, Init
  <2>4. [i \in DOMAIN passed |-> passed[i].id] = <<>>
    BY <2>3
  <2>5. HO!Cardinality(Msgs) = Cardinality(Msgs)
    BY Zenon DEF HO!Cardinality, Cardinality
  <2>6. QED
    BY <2>2, <2>3, <2>4, <2>5 DEF HO!Init
<1>3. CalmLink /\ [LinkNext]_linkVars => CalmLink'
  BY NextCalmLink DEF NoCancel, CalmFaults
<1>4. CalmLink /\ [LinkNext]_linkVars => [HO!Next]_<<queue, [i \in DOMAIN passed |-> passed[i].id]>>
  BY LinkHandsOver DEF NoCancel, PassedIds
<1>5. QED
  BY <1>1, <1>2, <1>3, <1>4, PTL DEF LinkSpec, HandsOver, HO!Spec

-----------------------------------------------------------------------------
(* MCReceiver, whose behaviours are calm or not: the calm ones are          *)
(* behaviours of VCReceiver with circuits and Error() as the only faults,   *)
(* of which VCReceiver_proofs speaks.                                       *)

P == INSTANCE VCReceiver_proofs WITH Faults <- Faults \cap {"error"}

(* Calm behaviours keep the invariant of the calm receiver.                 *)
CalmInvariant == calm => P!CalmInv

(* Calm and P are the same instance of VCReceiver, ...                      *)
LEMMA SameNext == Calm!Next => P!Next
  BY DEF Calm!Addr, Calm!readVars, Calm!fileVars, Calm!routVars,
         Calm!sendVars, Calm!histVars, Calm!SOMA, Calm!EOMA, Calm!NAK, Calm!SendNAK,
         Calm!Buffered, Calm!Pkt, Calm!Reading, Calm!Runs, Calm!FillGapGood,
         Calm!QueueGapGood, Calm!QueueGapNAK, Calm!SomeNAKs, Calm!BlockEnd,
         Calm!BlockOf, Calm!NewStart, Calm!Written, Calm!WriteBig,
         Calm!WriteBelow, Calm!WriteBuffered, Calm!WriteData, Calm!FlushWData,
         Calm!Assembling, Calm!PassMessage, Calm!Stay, Calm!DuplicateData,
         Calm!FillingData, Calm!NextData, Calm!AheadData, Calm!DroppedData,
         Calm!RecvData, Calm!SendEOMA, Calm!EndMesgDone, Calm!MessageOf,
         Calm!EOMAgain, Calm!EOMOfNothing, Calm!EOMOfSome, Calm!Abort,
         Calm!Down, Calm!EOMWhileStarting, Calm!RecvEOM, Calm!SOMAgain,
         Calm!Answer, Calm!SOMRepeated, Calm!Length, Calm!SOMResumed,
         Calm!NewFile, Calm!SOMNoFile, Calm!SOMNew, Calm!RecvSOM,
         Calm!RecvRMQE, Calm!RecvMQE, Calm!Checkpoint, Calm!Flush, Calm!Stop,
         Calm!ErrorExit, Calm!Echo, Calm!Kill, Calm!KillCreating, Calm!Creating, Calm!ExitCreating, Calm!ExitPassing, Calm!ExitNAKing,
         Calm!Restart, Calm!RouterTakes, Calm!NextMessage, Calm!Next,
         P!Addr, P!readVars, P!fileVars, P!routVars, P!sendVars, P!histVars,
         P!SOMA, P!EOMA, P!NAK, P!SendNAK, P!Buffered, P!Pkt, P!Reading, P!Runs,
         P!FillGapGood, P!QueueGapGood, P!QueueGapNAK, P!SomeNAKs, P!BlockEnd,
         P!BlockOf, P!NewStart, P!Written, P!WriteBig, P!WriteBelow,
         P!WriteBuffered, P!WriteData, P!FlushWData, P!Assembling,
         P!PassMessage, P!Stay, P!DuplicateData, P!FillingData, P!NextData,
         P!AheadData, P!DroppedData, P!RecvData, P!SendEOMA, P!EndMesgDone,
         P!MessageOf, P!EOMAgain, P!EOMOfNothing, P!EOMOfSome, P!Abort,
         P!Down, P!EOMWhileStarting, P!RecvEOM, P!SOMAgain, P!Answer,
         P!SOMRepeated, P!Length, P!SOMResumed, P!NewFile, P!SOMNoFile,
         P!SOMNew, P!RecvSOM, P!RecvRMQE, P!RecvMQE, P!Checkpoint, P!Flush,
         P!Stop, P!ErrorExit, P!Echo, P!Kill, P!KillCreating, P!Creating, P!ExitCreating, P!ExitPassing, P!ExitNAKing, P!Restart,
         P!RouterTakes, P!NextMessage, P!Next

(* ... and start as it does.                                                *)
LEMMA SameInit == Init => P!Init
  BY DEF Init, P!Init

(* Its variables are the receiver's.                                        *)
LEMMA SameVars == UNCHANGED vars => UNCHANGED P!vars
  BY DEF P!vars, P!readVars, P!fileVars, P!routVars, P!sendVars, P!histVars,
         vars, readVars, fileVars, routVars, sendVars, histVars

(* The lemmas of VCReceiver_proofs, for calm behaviours.                    *)
LEMMA CalmStart ==
  ASSUME MCInit
  PROVE  CalmInvariant
<1>1. P!Init
  BY SameInit DEF MCInit
<1>2. P!CalmInv
  BY <1>1, P!InitCalm, ReceiverAssumption DEF P!AllFaults, AllFaults
<1>3. QED
  BY <1>2 DEF CalmInvariant

(* Steps that are not calm have nothing to keep.                            *)
LEMMA CalmStep ==
  ASSUME CalmInvariant, [MCNext]_<<vars, calm>>
  PROVE  CalmInvariant' /\ (calm => PassesNew)
<1>1. CASE calm
  <2>1. P!CalmFaults
    BY DEF P!CalmFaults
  <2>2. P!Next \/ UNCHANGED P!vars
    BY <1>1, SameNext, SameVars DEF MCNext
  <2>3. P!CalmInv
    BY <1>1 DEF CalmInvariant
  <2>4. P!CalmInv' /\ P!PassesNew
    BY <2>1, <2>2, <2>3, P!NextCalm, ReceiverAssumption DEF P!AllFaults, AllFaults
  <2>5. QED
    BY <2>4 DEF CalmInvariant, P!PassesNew, PassesNew
<1>2. CASE ~calm
  BY <1>2 DEF MCNext, CalmInvariant
<1>3. QED
  BY <1>1, <1>2

(* CalmInvariant holds throughout.                                          *)
LEMMA CalmAlways == MCSpec => []CalmInvariant
<1>1. CalmInvariant /\ [MCNext]_<<vars, calm>> => CalmInvariant'
  BY CalmStep
<1>2. QED
  BY <1>1, CalmStart, PTL DEF MCSpec

(* While calm, an acknowledged message is routed or its file waits for the  *)
(* router, and every file belongs to a message that is being received or    *)
(* waits (SpoolWhenCalm; the unlinks of Recv_SOM and AbortInMesgs).         *)
THEOREM SpoolKept == MCSpec => []SpoolWhenCalm
<1>1. ASSUME CalmInvariant PROVE SpoolWhenCalm
  <2>1. SUFFICES ASSUME calm PROVE NeverLost /\ NoOrphan
    BY DEF SpoolWhenCalm
  <2>2. P!NeverLost /\ P!NoOrphan
    BY <1>1, <2>1, P!CalmSpool, ReceiverAssumption DEF CalmInvariant, P!AllFaults, AllFaults
  <2>3. QED
    BY <2>2 DEF P!NeverLost, NeverLost, P!NoOrphan, NoOrphan, P!Routed, Routed
<1>2. QED
  BY <1>1, CalmAlways, PTL

(* While calm, no message is passed to the router twice (NoneTwiceWhenCalm; *)
(* EndMesg against repeated, lost and interrupted SOMs and EOMs).           *)
THEOREM NoneTwice == MCSpec => NoneTwiceWhenCalm
<1>1. CalmInvariant /\ [MCNext]_<<vars, calm>> => (calm => PassesNew)
  BY CalmStep
<1>2. QED
  BY <1>1, CalmAlways, PTL DEF MCSpec, NoneTwiceWhenCalm

-----------------------------------------------------------------------------
(* Giving up.  An EOM is sent again only when everything is quiet, so each  *)
(* EOM is paid for by a lost packet, unless it is still to be answered or   *)
(* was the first that the receiver saw, which need not ask for all gaps.    *)

(* SOMs go out while nothing is under way that answers an earlier one: what *)
(* is ahead of a SOM is of other messages, or late; and what comes back     *)
(* while it is on its way, or ahead of its SOMA, is acknowledgements.       *)
Settled == outstate \in {"ACTIVE", "ENDING"}
Starts(p, m) == p.type = "SOM" /\ p.id = m
Accepts(p, m) == p.type = "SOMA" /\ p.id = m

SOMRight ==
  \A j \in DOMAIN fwd : Starts(fwd[j], tmsg) =>
    /\ ~Settled
    /\ \A i \in DOMAIN fwd : i < j => fwd[i].id # tmsg \/ Done(tmsg)
    /\ \A i \in DOMAIN back : back[i].type = "EOMA"

SOMARight ==
  \A j \in DOMAIN back : Accepts(back[j], tmsg) =>
    /\ ~Settled
    /\ \A i \in DOMAIN fwd : ~Starts(fwd[i], tmsg)
    /\ \A i \in DOMAIN back : i < j => back[i].type = "EOMA"

SomDueRight ==
  somdue /\ circuit => fwd = <<>> /\ back = <<>> /\ pc = "ready" /\ outstate = "STARTING"

StartRight == SOMRight /\ SOMARight /\ SomDueRight

(* The receiver whose SOMA was sent is at the transmitter's message.        *)
Heard == somad => chan.msgid = tmsg /\ chan.state # "IDLE"

(* A byte is on its way again, or asked for.                                *)
Coming(x) ==
  \/ \E i \in DOMAIN back : back[i].type = "NAK" /\ x \in Pkt(back[i].addr, back[i].len)
  \/ \E i \in DOMAIN fwd : fwd[i].type = "DATA" /\ x \in Pkt(fwd[i].addr, fwd[i].len)

(* Something is under way that ends the message, begins it again or costs a *)
(* packet: an EOM, an acknowledgement, a call for the whole message, or all *)
(* that is missing.                                                         *)
MissingComes ==
  pc = "ready" /\ chan.state = "ENDING" /\ gaps # {} /\ \A x \in gaps : Coming(x)

Due ==
  \/ \E i \in DOMAIN fwd : fwd[i].type = "EOM"
  \/ \E i \in DOMAIN back : back[i].type = "EOMA" /\ back[i].id = tmsg
  \/ \E i \in DOMAIN back : back[i].type = "NAK" /\ back[i].len = MsgSize
  \/ pc = "passed"
  \/ MissingComes

(* The receiver has seen an EOM.                                            *)
EndSeen == chan.state \in {"ENDING", "ENDED"}

One(b) == IF b THEN 1 ELSE 0

EOFRight == eof => outaddr = MsgSize

CountRight ==
  /\ count \in Int /\ losses \in 0 .. MaxLosses
  /\ circuit /\ outstate = "ENDING" =>
       /\ outaddr = MsgSize
       /\ MAX_EOMS - count <= losses + One(EndSeen) + One(Due)

PaidFor == KeptInv /\ StartRight /\ Heard /\ EOFRight /\ CountRight

(* A set of addresses has a least one.                                      *)
LEMMA LeastOf ==
  ASSUME NEW S \in SUBSET Addr, S # {}
  PROVE  \E x \in S : \A y \in S : x <= y
BY LeastGap

(* The gap list covers what is missing.                                     *)
LEMMA RunsCover ==
  ASSUME NEW S \in SUBSET Addr, NEW x \in S
  PROVE  \E r \in Runs(S) : x \in Pkt(r[1], r[2])
<1>x. x \in Nat /\ x < MsgSize /\ S \subseteq Nat /\ \A y \in S : y < MsgSize
  BY DEF Addr
<1> DEFINE A == {y \in Addr : y <= x /\ y .. x \subseteq S}
           T == {y \in Addr : x < y /\ y \notin S}
<1>1. PICK a \in A : \A y \in A : a <= y
  <2>1. x .. x \subseteq S
    BY <1>x
  <2>2. x \in A
    BY <1>x, <2>1 DEF Addr
  <2>3. QED
    BY <2>2, LeastOf
<1>2. PICK b \in 0 .. MsgSize : /\ x < b /\ b \notin S
                                /\ \A y \in Addr : x < y /\ y < b => y \in S
  <2>1. CASE T = {}
    <3>1. MsgSize \in 0 .. MsgSize /\ x < MsgSize /\ MsgSize \notin S
      BY <1>x
    <3>2. QED
      BY <2>1, <3>1
  <2>2. CASE T # {}
    <3>1. PICK t \in T : \A y \in T : t <= y
      BY <2>2, LeastOf
    <3>2. t \in 0 .. MsgSize /\ x < t /\ t \notin S
      BY <3>1 DEF Addr
    <3>3. \A y \in Addr : x < y /\ y < t => y \in S
      <4> SUFFICES ASSUME NEW y \in Addr, x < y, y < t, y \notin S PROVE FALSE
        OBVIOUS
      <4>1. y \in T
        OBVIOUS
      <4>2. t <= y
        BY <3>1, <4>1
      <4>3. QED
        BY <4>2, <3>2 DEF Addr
    <3>4. QED
      BY <3>2, <3>3
  <2>3. QED
    BY <2>1, <2>2
<1>3. a \in Addr /\ a \in Nat /\ a <= x /\ a .. x \subseteq S /\ b \in Nat
  BY <1>1, <1>2 DEF Addr
<1>4. a - 1 \notin S
  <2> SUFFICES ASSUME a - 1 \in S PROVE FALSE
    OBVIOUS
  <2>1. a - 1 \in Addr /\ a - 1 <= x /\ (a - 1) .. x \subseteq S
    BY <1>3, <1>x
  <2>2. a - 1 \in A
    BY <2>1
  <2>3. a <= a - 1
    BY <1>1, <2>2
  <2>4. QED
    BY <1>3, <2>3
<1>5. b - a \in 1 .. MsgSize /\ a + (b - a) = b /\ Pkt(a, b - a) = a .. b - 1
  BY <1>2, <1>3, <1>x DEF Pkt
<1>6. a .. b - 1 \subseteq S /\ x \in a .. b - 1
  <2>1. ASSUME NEW y \in a .. b - 1 PROVE y \in S
    <3>1. CASE y <= x
      BY <1>3, <1>x, <3>1
    <3>2. CASE x < y
      <4>1. y \in Addr /\ y < b
        BY <1>2, <1>3 DEF Addr
      <4>2. QED
        BY <3>2, <4>1, <1>2
    <3>3. QED
      BY <1>3, <1>x, <3>1, <3>2
  <2>2. x \in a .. b - 1
    BY <1>2, <1>3, <1>x
  <2>3. QED
    BY <2>1, <2>2
<1>7. <<a, b - a>> \in Runs(S)
  <2> DEFINE r == <<a, b - a>>
  <2>1. r \in Addr \X (1 .. MsgSize) /\ r[1] = a /\ r[2] = b - a
    BY <1>3, <1>5
  <2>2. Pkt(r[1], r[2]) \subseteq S /\ r[1] - 1 \notin S /\ r[1] + r[2] \notin S
    BY <2>1, <1>2, <1>4, <1>5, <1>6
  <2> HIDE DEF r
  <2>3. r \in Runs(S)
    BY <2>1, <2>2 DEF Runs
  <2>4. QED
    BY <2>3 DEF r
<1>8. QED
  BY <1>5, <1>6, <1>7

(* The NAKs of a gap ask for all of it, if their limits allow a message.    *)
LEMMA SendNAKCovers ==
  ASSUME NEW a \in Addr, NEW n \in 1 .. MsgSize, NEW x \in Pkt(a, n), Patient
  PROVE  \E q \in SendNAK(a, n) : q.type = "NAK" /\ x \in Pkt(q.addr, q.len)
<1> DEFINE M == MAXNAKSIZE
           i == (x - a) \div M
           k == i * M
           l == IF n - k < M THEN n - k ELSE M
<1>1. /\ a \in Nat /\ n \in Nat /\ x \in Nat /\ a <= x /\ x < a + n
      /\ M \in Nat \ {0} /\ MaxNAKs \in Nat \ {0} /\ MsgSize \in Nat
  BY ReceiverAssumption DEF Addr, Pkt
<1>2. n <= M * MaxNAKs
  BY <1>1, LinkAssumption
<1>d. \A y \in Nat, s \in Nat \ {0} :
        y \div s \in Nat /\ (y \div s) * s <= y /\ y < (y \div s) * s + s
  OBVIOUS
<1> HIDE DEF M
<1>3. i \in Nat /\ k <= x - a /\ x - a < k + M
  <2>1. x - a \in Nat
    BY <1>1
  <2>2. QED
    BY <1>1, <1>d, <2>1
<1> HIDE DEF i
<1>4. k \in Nat
  BY <1>1, <1>3
<1>5. i \in 0 .. MaxNAKs - 1
  <2>1. i < MaxNAKs
    <3> SUFFICES ASSUME MaxNAKs <= i PROVE FALSE
      BY <1>1, <1>3
    <3>1. M * MaxNAKs <= k
      BY <1>1, <1>3
    <3> HIDE DEF k
    <3>2. M * MaxNAKs \in Nat
      BY <1>1
    <3>3. QED
      BY <1>1, <1>2, <1>3, <1>4, <3>1, <3>2
  <2>2. QED
    BY <1>1, <1>3, <2>1
<1> HIDE DEF k
<1>6. k < n /\ x \in Pkt(a + k, l)
  BY <1>1, <1>3, <1>4 DEF Pkt
<1>7. CASE n = MsgSize
  BY <1>7 DEF SendNAK, NAK
<1>8. CASE n # MsgSize
  <2>1. NAK(a + k, l) \in SendNAK(a, n)
    BY <1>5, <1>6, <1>8 DEF SendNAK, k, M
  <2>2. QED
    BY <1>6, <2>1 DEF NAK
<1>9. QED
  BY <1>7, <1>8

(* The answer to a NAK has all that it asks for.                            *)
LEMMA ChunksCover ==
  ASSUME NEW a \in Addr, NEW n \in 1 .. MsgSize, a + n <= MsgSize, NEW x \in Pkt(a, n)
  PROVE  \E i \in DOMAIN Chunks(a, n) :
           x \in Pkt(Chunks(a, n)[i].addr, Chunks(a, n)[i].len)
<1> DEFINE size == IF OutDataSize > n THEN n ELSE OutDataSize
           k    == (n + size - 1) \div size
           at(i) == a + (i - 1) * size
           q    == (x - a) \div size
<1>1. size \in Nat \ {0} /\ a \in Nat /\ n \in Nat /\ x \in Nat /\ a <= x /\ x < a + n /\ x < MsgSize
  BY DEF Addr, Pkt
<1>d. \A y \in Nat, s \in Nat \ {0} :
        y \div s \in Nat /\ (y \div s) * s <= y /\ y < (y \div s) * s + s
  OBVIOUS
<1>2. q \in Nat /\ q * size <= x - a /\ x - a < q * size + size
  <2> HIDE DEF size
  <2>1. x - a \in Nat
    BY <1>1
  <2>2. QED
    BY <1>1, <1>d, <2>1
<1>3. k \in Nat /\ n + size - 1 < k * size + size
  <2> HIDE DEF size
  <2>1. n + size - 1 \in Nat
    BY <1>1
  <2>2. QED
    BY <1>1, <1>d, <2>1
<1>4. q + 1 \in 1 .. k
  <2> HIDE DEF size, k, q
  <2>1. q * size \in Nat /\ k * size \in Nat
    BY <1>1, <1>2, <1>3
  <2>2. q * size < k * size
    BY <1>1, <1>2, <1>3, <2>1
  <2>3. q < k
    <3> SUFFICES ASSUME k <= q PROVE FALSE
      BY <1>2, <1>3
    <3>1. k * size <= q * size
      BY <1>1, <1>2, <1>3
    <3>2. QED
      BY <2>1, <2>2, <3>1
  <2>4. QED
    BY <2>3, <1>2, <1>3
<1>5. Chunks(a, n) = [i \in 1 .. k |-> DATA(tmsg, at(i), Size(at(i), size))]
  BY DEF Chunks
<1>6. at(q + 1) = a + q * size
  <2> HIDE DEF size, q
  <2> QED
    BY <1>1, <1>2
<1>7. x \in Pkt(at(q + 1), Size(at(q + 1), size))
  <2> HIDE DEF size, q, at
  <2>1. at(q + 1) \in Nat /\ at(q + 1) <= x /\ x < at(q + 1) + size
    <3>1. q * size \in Nat
      BY <1>1, <1>2
    <3>2. QED
      BY <1>1, <1>2, <1>6, <3>1
  <2>2. QED
    BY <1>1, <2>1 DEF Pkt, Size
<1>8. QED
  <2> HIDE DEF size, k, q, at
  <2>1. q + 1 \in DOMAIN Chunks(a, n)
        /\ Chunks(a, n)[q + 1] = DATA(tmsg, at(q + 1), Size(at(q + 1), size))
    BY <1>4, <1>5
  <2>2. QED
    BY <1>7, <2>1 DEF DATA

-----------------------------------------------------------------------------
(* What a delivery adds to the packets on their way back.                   *)
EOMAs == {q \in Packet : q.type = "EOMA"}

(* Packets of other messages, and of one that is done with, are not         *)
(* answered but by acknowledgements; of the others, a SOM by one packet and *)
(* the rest by NAKs.                                                        *)
DeliverShape(p) ==
  /\ UNCHANGED <<outVars, circuit, losses, tmsg>>
  /\ circuit /\ pc = "ready" /\ fwd # <<>> /\ p = fwd[1] /\ ToReceiver(p) /\ Shortened(fwd', fwd)
  /\ Done(tmsg) => Done(tmsg)'
  /\ \/ Grown(back', back, EOMAs)
     \/ /\ p.id = tmsg /\ ~Done(tmsg)
        /\ \/ Grown(back', back, Asks)
           \/ p.type = "SOM" /\ \E q \in Packet : back' = Append(back, q)

(* What is taken.                                                           *)
LEMMA ArrivedShape ==
  ASSUME LinkInv, NEW p, Arrived(p)
  PROVE  /\ UNCHANGED <<outVars, circuit, losses>> /\ circuit /\ pc = "ready"
         /\ fwd # <<>> /\ p = fwd[1] /\ ToReceiver(p) /\ Shortened(fwd', fwd)
<1>1. /\ circuit /\ fwd # <<>> /\ p = Head(fwd) /\ fwd \in Seq(Packet)
      /\ UNCHANGED <<outVars, circuit, losses>>
  BY DEF Arrived, LinkInv, WireInv, LinkTypes
<1>2. 1 \in DOMAIN fwd /\ p = fwd[1]
  BY <1>1, TailShortened
<1>3. QED
  BY <1>1, <1>2, ArrivedFacts

(* One answer goes out as it is.                                            *)
LEMMA AnsweredOne ==
  ASSUME LinkInv, Answered, NEW q \in Packet, reply' = {q}
  PROVE  back' = Append(back, q)
<1>1. PICK s \in Orders(reply') : back' = back \o s
  BY DEF Answered
<1>2. Cardinality({q}) = 1
  BY FS_Singleton
<1>3. s \in [1 .. 1 -> {q}]
  BY <1>1, <1>2 DEF Orders
<1>4. s = <<q>>
  BY <1>3
<1>5. back \in Seq(Packet)
  BY DEF LinkInv, WireInv, LinkTypes
<1>6. back \o <<q>> = Append(back, q)
  BY <1>5
<1>7. QED
  BY <1>1, <1>4, <1>6

(* Every answer goes out, behind what is on its way.                        *)
LEMMA AnsweredAll ==
  ASSUME LinkInv, Answered, reply' \subseteq Packet
  PROVE  /\ \A i \in DOMAIN back : i \in DOMAIN back' /\ back'[i] = back[i]
         /\ \A q \in reply' : \E i \in DOMAIN back' : back'[i] = q
<1>1. PICK s \in Orders(reply') : back' = back \o s
  BY DEF Answered
<1>2. IsFiniteSet(reply')
  BY PacketFinite, FS_Subset
<1>3. Cardinality(reply') \in Nat
  BY <1>2, FS_CardinalityType
<1>4. s \in [1 .. Cardinality(reply') -> reply'] /\ reply' \subseteq {s[i] : i \in DOMAIN s}
  BY <1>1 DEF Orders
<1>5. s \in Seq(Packet) /\ back \in Seq(Packet)
  <2>1. s \in Seq(Packet)
    BY <1>3, <1>4
  <2>2. QED
    BY <2>1 DEF LinkInv, WireInv, LinkTypes
<1>6. /\ DOMAIN back = 1 .. Len(back) /\ Len(back) \in Nat /\ DOMAIN s = 1 .. Len(s) /\ Len(s) \in Nat
      /\ DOMAIN back' = 1 .. Len(back) + Len(s)
      /\ \A i \in 1 .. Len(back) + Len(s) :
           back'[i] = IF i <= Len(back) THEN back[i] ELSE s[i - Len(back)]
  BY <1>1, <1>5
<1>7. ASSUME NEW q \in reply' PROVE \E i \in DOMAIN back' : back'[i] = q
  <2>1. PICK i \in DOMAIN s : s[i] = q
    BY <1>4
  <2>2. Len(back) + i \in DOMAIN back' /\ back'[Len(back) + i] = q
    BY <1>6, <2>1
  <2>3. QED
    BY <2>2
<1>8. QED
  BY <1>6, <1>7

(* Acknowledging again.                                                     *)
LEMMA AgainShape ==
  ASSUME LinkInv, NEW m \in Msgs, NEW p, p.id = m, Arrived(p), SOMAgain(m) \/ EOMAgain(m), Answered
  PROVE  DeliverShape(p)
<1>1. UNCHANGED <<pc, chan, tmsg>> /\ reply' = {EOMA(m)}
  BY DEF SOMAgain, EOMAgain, sendVars
<1>2. EOMA(m) \in EOMAs
  <2>1. MsgSize \in 0 .. MsgSize /\ 0 \in 0 .. MsgSize
    OBVIOUS
  <2>2. QED
    BY <2>1 DEF EOMA, Packet, EOMAs
<1>3. reply' \subseteq Packet /\ reply' \subseteq EOMAs
  BY <1>1, <1>2 DEF EOMAs
<1>4. Grown(back', back, EOMAs)
  BY <1>3, AnsweredGrown
<1>5. Done(tmsg) => Done(tmsg)'
  BY <1>1 DEF Done
<1>6. QED
  BY <1>1, <1>4, <1>5, ArrivedShape DEF DeliverShape

(* The start of a message.                                                  *)
LEMMA SOMShape ==
  ASSUME LinkInv, NoEndFaults, NEW m \in Msgs, DeliverSOM(m)
  PROVE  DeliverShape(SOM(m))
<1>a. /\ Arrived(SOM(m)) /\ Answered /\ SOM(m).id = m /\ SOM(m).type = "SOM"
      /\ SOMAgain(m) \/ SOMRepeated(m) \/ SOMResumed(m) \/ SOMNoFile(m) \/ SOMNew(m)
  BY DEF DeliverSOM, SOM
<1>b. m # NoMsg /\ TypeOK /\ chan \in Chans
  BY DEF LinkInv, RouteInv, IInv, TypeOK
<1>1. CASE SOMAgain(m)
  BY <1>1, <1>a, AgainShape
<1>2. CASE ~SOMAgain(m)
  <2>1. chan.msgid # m \/ chan.state # "ENDED"
    BY <1>2, <1>a DEF SOMRepeated, SOMResumed, SOMNoFile, SOMNew, MessageOf
  <2>2. m = tmsg
    BY <1>a, <1>b, <2>1, ArrivedFacts
  <2>3. PICK c, at : Answer(c, at) /\ c.msgid = m /\ at \in 0 .. MsgSize /\ UNCHANGED tmsg
    <3>1. CASE SOMRepeated(m)
      BY <3>1, <1>b DEF SOMRepeated, MessageOf, TypeOK
    <3>2. CASE SOMResumed(m)
      <4>1. msgaddr' \in 0 .. MsgSize
        BY <3>2, <1>b DEF SOMResumed, Chans
      <4>2. QED
        BY <3>2, <4>1 DEF SOMResumed, MessageOf
    <3>3. CASE SOMNoFile(m)
      <4> DEFINE c == [[chan EXCEPT !.rdup = TRUE] EXCEPT !.msgid = m, !.goodaddr = MsgSize]
      <4>1. c.msgid = m
        BY <1>b DEF Chans
      <4>2. Answer(c, 0) /\ UNCHANGED tmsg
        BY <3>3 DEF SOMNoFile, NewFile
      <4>3. 0 \in 0 .. MsgSize
        OBVIOUS
      <4> HIDE DEF c
      <4>4. QED
        BY <4>1, <4>2, <4>3
    <3>4. CASE SOMNew(m)
      <4> DEFINE c == [chan EXCEPT !.msgid = m, !.goodaddr = MsgSize]
      <4>1. c.msgid = m
        BY <1>b DEF Chans
      <4>2. Answer(c, 0) /\ UNCHANGED tmsg
        BY <3>4 DEF SOMNew, NewFile
      <4>3. 0 \in 0 .. MsgSize
        OBVIOUS
      <4> HIDE DEF c
      <4>4. QED
        BY <4>1, <4>2, <4>3
    <3>5. QED
      BY <1>2, <1>a, <3>1, <3>2, <3>3, <3>4
  <2>4. reply' = {SOMA(m, at)}
    BY <2>3 DEF Answer, NoEndFaults
  <2>5. SOMA(m, at) \in Packet
    <3>1. 0 \in 0 .. MsgSize
      OBVIOUS
    <3>2. QED
      BY <2>3, <3>1 DEF SOMA, Packet
  <2>6. back' = Append(back, SOMA(m, at))
    BY <1>a, <2>4, <2>5, AnsweredOne
  <2>7. ~Done(tmsg)
    BY <1>a, <2>1, <2>2, ArrivedFacts DEF Done
  <2>8. \E q \in Packet : back' = Append(back, q)
    BY <2>5, <2>6
  <2>9. QED
    BY <1>a, <2>2, <2>3, <2>7, <2>8, ArrivedShape DEF DeliverShape
<1>3. QED
  BY <1>1, <1>2

(* NAKs are the answer while the message is assembled.                      *)
LEMMA AsksShape ==
  ASSUME LinkInv, NEW p, p.id = tmsg, Arrived(p), Answered, Assembling,
         reply' \subseteq Asks, UNCHANGED tmsg
  PROVE  DeliverShape(p)
<1>1. ~Done(tmsg)
  BY ArrivedFacts DEF Done, Assembling
<1>2. Asks \subseteq Packet
  BY DEF Asks, NAKs
<1>3. Grown(back', back, Asks)
  BY <1>2, AnsweredGrown
<1>4. QED
  BY <1>1, <1>3, ArrivedShape DEF DeliverShape

(* A packet that is not answered.                                           *)
LEMMA IgnoredShape ==
  ASSUME LinkInv, NEW p, Arrived(p), UNCHANGED <<tmsg, back>>, Done(tmsg) => Done(tmsg)'
  PROVE  DeliverShape(p)
<1>1. back \in Seq(Packet)
  BY DEF LinkInv, WireInv, LinkTypes
<1>2. Grown(back', back, EOMAs)
  BY <1>1, SameGrown
<1>3. QED
  BY <1>2, ArrivedShape DEF DeliverShape

(* Data.                                                                    *)
LEMMA DATAShape ==
  ASSUME LinkInv, IInv', NEW p, DeliverDATA(p)
  PROVE  DeliverShape(p)
<1>a. Arrived(p) /\ p.type = "DATA"
  BY DEF DeliverDATA
<1>t. p.id \in Msgs /\ p.addr \in Addr /\ p.id # NoMsg
  BY <1>a, ArrivedFacts DEF ToReceiver, SOM, EOM, MQE
<1>1. CASE /\ \/ DuplicateData(p.addr, p.len) \/ FillingData(p.addr, p.len)
              \/ NextData(p.addr, p.len) \/ AheadData(p.addr, p.len)
           /\ Answered
  <2>1. Assembling /\ UNCHANGED tmsg
    BY <1>1 DEF DuplicateData, FillingData, NextData, AheadData, Stay, sendVars
  <2>2. p.id = tmsg
    BY <1>a, <1>t, <2>1, ArrivedFacts DEF Assembling
  <2>3. reply' \subseteq Asks
    BY <1>1, <1>t, DATAAsks DEF LinkInv
  <2>4. QED
    BY <1>a, <1>1, <2>1, <2>2, <2>3, AsksShape
<1>2. CASE UNCHANGED <<vars, back, mixed>>
  <2>1. UNCHANGED <<tmsg, back, pc, chan>>
    BY <1>2 DEF vars, readVars, sendVars
  <2>2. QED
    BY <1>a, <2>1, IgnoredShape DEF Done
<1>3. QED
  BY <1>1, <1>2 DEF DeliverDATA

(* The end of a message.                                                    *)
LEMMA EOMShape ==
  ASSUME LinkInv, IInv', NEW m \in Msgs, DeliverEOM(m)
  PROVE  DeliverShape(EOM(m))
<1>a. Arrived(EOM(m)) /\ EOM(m).id = m /\ m # NoMsg
  BY DEF DeliverEOM, EOM
<1>1. CASE EOMAgain(m) /\ Answered
  BY <1>1, <1>a, AgainShape
<1>2. CASE (EOMOfNothing(m) \/ EOMOfSome(m)) /\ Answered
  <2>1. Assembling /\ UNCHANGED tmsg
    BY <1>2 DEF EOMOfNothing, EOMOfSome, sendVars
  <2>2. m = tmsg
    BY <1>a, <2>1, ArrivedFacts DEF Assembling
  <2>3. reply' \subseteq Asks
    BY <1>2, EOMAsks DEF LinkInv
  <2>4. QED
    BY <1>a, <1>2, <2>1, <2>2, <2>3, AsksShape
<1>3. CASE UNCHANGED <<vars, back>>
  <2>1. UNCHANGED <<tmsg, back, pc, chan>>
    BY <1>3 DEF vars, readVars, sendVars
  <2>2. QED
    BY <1>a, <2>1, IgnoredShape DEF Done
<1>4. QED
  BY <1>1, <1>2, <1>3 DEF DeliverEOM

(* Each delivery.                                                           *)
LEMMA DeliveryShape ==
  ASSUME LinkInv, IInv', NoEndFaults, Delivery
  PROVE  \E p : DeliverShape(p)
<1>1. CASE \E m \in Msgs : DeliverSOM(m) \/ DeliverEOM(m)
  BY <1>1, SOMShape, EOMShape
<1>2. CASE \E p : DeliverDATA(p)
  BY <1>2, DATAShape
<1>3. CASE DeliverMQE
  <2>1. Arrived(MQE) /\ RecvRMQE /\ UNCHANGED back
    BY <1>3 DEF DeliverMQE
  <2>2. UNCHANGED <<pc, tmsg>>
    BY <2>1 DEF RecvRMQE, sendVars
  <2>3. PICK f \in SUBSET files : Abort(chan', f)
    BY <2>1 DEF RecvRMQE
  <2>4. Done(tmsg) => Done(tmsg)'
    <3>1. pc = "ready" /\ chan \in Chans
      BY <2>1, ArrivedFacts DEF LinkInv, RouteInv, IInv, TypeOK
    <3>2. QED
      BY <2>2, <2>3, <3>1 DEF Abort, Done, Chans
  <2>5. QED
    BY <2>1, <2>2, <2>4, IgnoredShape
<1>4. QED
  BY <1>1, <1>2, <1>3 DEF Delivery

-----------------------------------------------------------------------------
(* A queue from which the oldest k packets went, and to which some of S     *)
(* came.                                                                    *)
Moved(new, old, k, S) ==
  \A j \in DOMAIN new : IF j + k \in DOMAIN old THEN new[j] = old[j + k] ELSE new[j] \in S

(* Grown and Shortened queues are such.                                     *)
LEMMA GrownMoved ==
  ASSUME NEW old \in Seq(Packet), NEW new, NEW S, Grown(new, old, S)
  PROVE  Moved(new, old, 0, S)
<1>1. new \in Seq(Packet) /\ \A j \in DOMAIN new : j \in Nat /\ j + 0 = j
  BY DEF Grown
<1>2. QED
  BY <1>1 DEF Grown, Moved

(* The same for any set of newcomers, for there are none.                   *)
LEMMA ShortenedMoved ==
  ASSUME NEW old, NEW new, NEW S, Shortened(new, old)
  PROVE  Moved(new, old, 1, S)
BY DEF Shortened, Moved

(* Nothing changes.                                                         *)
LEMMA SameMoved ==
  ASSUME NEW old \in Seq(Packet), NEW S
  PROVE  Moved(old, old, 0, S)
<1>1. \A j \in DOMAIN old : j \in Nat /\ j + 0 = j
  OBVIOUS
<1>2. QED
  BY <1>1 DEF Moved

NotSOMs == {q \in Packet : q.type # "SOM"}

(* A step that sends no SOM and no SOMA, and at which the transmitter is    *)
(* settled only because of an answer that is no acknowledgement.            *)
LEMMA StartKept ==
  ASSUME LinkInv, SOMRight, SOMARight, UNCHANGED tmsg, Done(tmsg) => Done(tmsg)',
         fwd' \in Seq(Packet), back' \in Seq(Packet),
         NEW k \in {0, 1}, Moved(fwd', fwd, k, NotSOMs),
         NEW l \in {0, 1}, Moved(back', back, l, EOMAs),
         Settled' => Settled \/ (l = 1 /\ 1 \in DOMAIN back /\ back[1].type # "EOMA")
  PROVE  SOMRight' /\ SOMARight'
<1>f. /\ DOMAIN fwd = 1 .. Len(fwd) /\ Len(fwd) \in Nat /\ DOMAIN fwd' = 1 .. Len(fwd') /\ Len(fwd') \in Nat
      /\ DOMAIN back = 1 .. Len(back) /\ Len(back) \in Nat /\ DOMAIN back' = 1 .. Len(back') /\ Len(back') \in Nat
  BY DEF LinkInv, WireInv, LinkTypes
<1>1. \A j \in DOMAIN fwd' : Starts(fwd'[j], tmsg') => j + k \in DOMAIN fwd /\ fwd'[j] = fwd[j + k] /\ Starts(fwd[j + k], tmsg)
  BY DEF Moved, NotSOMs, Starts
<1>2. \A j \in DOMAIN back' : Accepts(back'[j], tmsg') => j + l \in DOMAIN back /\ back'[j] = back[j + l] /\ Accepts(back[j + l], tmsg)
  BY DEF Moved, EOMAs, Accepts
<1>3. SOMRight'
  <2>1. SUFFICES ASSUME NEW j \in DOMAIN fwd', Starts(fwd'[j], tmsg')
                 PROVE  /\ ~Settled'
                        /\ \A i \in DOMAIN fwd' : i < j => fwd'[i].id # tmsg' \/ Done(tmsg)'
                        /\ \A i \in DOMAIN back' : back'[i].type = "EOMA"
    BY DEF SOMRight
  <2>2. j + k \in DOMAIN fwd /\ Starts(fwd[j + k], tmsg)
    BY <1>1, <2>1
  <2>3. /\ ~Settled
        /\ \A i \in DOMAIN fwd : i < j + k => fwd[i].id # tmsg \/ Done(tmsg)
        /\ \A i \in DOMAIN back : back[i].type = "EOMA"
    BY <2>2 DEF SOMRight
  <2>4. \A i \in DOMAIN back' : back'[i].type = "EOMA"
    BY <2>3 DEF Moved, EOMAs
  <2>5. \A i \in DOMAIN fwd' : i < j => fwd'[i].id # tmsg \/ Done(tmsg)'
    <3> SUFFICES ASSUME NEW i \in DOMAIN fwd', i < j PROVE fwd'[i].id # tmsg \/ Done(tmsg)'
      OBVIOUS
    <3>1. i + k \in DOMAIN fwd /\ i + k < j + k
      BY <1>f, <2>2
    <3>2. fwd'[i] = fwd[i + k]
      BY <3>1 DEF Moved
    <3>3. QED
      BY <2>3, <3>1, <3>2
  <2>6. QED
    BY <2>3, <2>4, <2>5
<1>4. SOMARight'
  <2>1. SUFFICES ASSUME NEW j \in DOMAIN back', Accepts(back'[j], tmsg')
                 PROVE  /\ ~Settled'
                        /\ \A i \in DOMAIN fwd' : ~Starts(fwd'[i], tmsg')
                        /\ \A i \in DOMAIN back' : i < j => back'[i].type = "EOMA"
    BY DEF SOMARight
  <2>2. j + l \in DOMAIN back /\ Accepts(back[j + l], tmsg)
    BY <1>2, <2>1
  <2>3. /\ ~Settled
        /\ \A i \in DOMAIN fwd : ~Starts(fwd[i], tmsg)
        /\ \A i \in DOMAIN back : i < j + l => back[i].type = "EOMA"
    BY <2>2 DEF SOMARight
  <2>4. l = 1 /\ 1 \in DOMAIN back => back[1].type = "EOMA"
    <3>1. l = 1 => 1 < j + l
      BY <1>f
    <3>2. QED
      BY <2>3, <3>1
  <2>5. \A i \in DOMAIN back' : i < j => back'[i].type = "EOMA"
    <3> SUFFICES ASSUME NEW i \in DOMAIN back', i < j PROVE back'[i].type = "EOMA"
      OBVIOUS
    <3>1. i + l \in DOMAIN back /\ i + l < j + l
      BY <1>f, <2>2
    <3>2. back'[i] = back[i + l]
      BY <3>1 DEF Moved
    <3>3. QED
      BY <2>3, <3>1, <3>2
  <2>6. QED
    BY <1>1, <2>3, <2>4, <2>5
<1>5. QED
  BY <1>3, <1>4

(* Deliveries.                                                              *)
LEMMA DeliveryStart ==
  ASSUME LinkInv, StartRight, NEW p, DeliverShape(p)
  PROVE  StartRight'
<1>f. /\ UNCHANGED <<tmsg, outstate, somdue, circuit>> /\ circuit /\ p = fwd[1] /\ fwd # <<>>
      /\ Shortened(fwd', fwd)
      /\ Done(tmsg) => Done(tmsg)'
  BY DEF DeliverShape, outVars
<1>t. fwd \in Seq(Packet) /\ back \in Seq(Packet) /\ fwd' \in Seq(Packet)
  <2>1. fwd \in Seq(Packet) /\ back \in Seq(Packet)
    BY DEF LinkInv, WireInv, LinkTypes
  <2>2. QED
    BY <1>f, <2>1 DEF Shortened
<1>d. /\ DOMAIN fwd = 1 .. Len(fwd) /\ Len(fwd) \in Nat /\ DOMAIN fwd' = 1 .. Len(fwd') /\ Len(fwd') \in Nat
      /\ DOMAIN back = 1 .. Len(back) /\ Len(back) \in Nat /\ 1 \in DOMAIN fwd
  BY <1>f, <1>t
<1>m. Moved(fwd', fwd, 1, NotSOMs)
  BY <1>f, ShortenedMoved
<1>s. Settled' <=> Settled
  BY <1>f DEF Settled
<1>5. SomDueRight'
  BY <1>f DEF StartRight, SomDueRight
<1>1. CASE Grown(back', back, EOMAs)
  <2>1. Moved(back', back, 0, EOMAs) /\ back' \in Seq(Packet)
    BY <1>1, <1>t, GrownMoved DEF Grown
  <2>2. SOMRight' /\ SOMARight'
    <3>1. 0 \in {0, 1} /\ 1 \in {0, 1}
      OBVIOUS
    <3>2. SOMRight /\ SOMARight
      BY DEF StartRight
    <3>3. Settled' => Settled \/ (0 = 1 /\ 1 \in DOMAIN back /\ back[1].type # "EOMA")
      BY <1>s
    <3>4. QED
      BY <1>f, <1>t, <1>m, <2>1, <3>1, <3>2, <3>3, StartKept
  <2>3. QED
    BY <1>5, <2>2 DEF StartRight
<1>2. CASE p.id = tmsg /\ ~Done(tmsg)
  <2>1. \A j \in DOMAIN fwd' : ~Starts(fwd'[j], tmsg')
    <3> SUFFICES ASSUME NEW j \in DOMAIN fwd', Starts(fwd'[j], tmsg') PROVE FALSE
      OBVIOUS
    <3>1. j + 1 \in DOMAIN fwd /\ fwd'[j] = fwd[j + 1] /\ 1 < j + 1
      BY <1>f, <1>d DEF Shortened
    <3>2. Starts(fwd[j + 1], tmsg)
      BY <1>f, <3>1 DEF Starts
    <3>3. fwd[1].id # tmsg \/ Done(tmsg)
      BY <1>d, <3>1, <3>2 DEF StartRight, SOMRight
    <3>4. QED
      BY <1>2, <1>f, <3>3
  <2>2. CASE Grown(back', back, Asks)
    <3>1. /\ back' \in Seq(Packet) /\ DOMAIN back' = 1 .. Len(back') /\ Len(back') \in Nat
          /\ Moved(back', back, 0, Asks)
      BY <2>2, <1>t, GrownMoved DEF Grown
    <3>2. SOMARight'
      <4>1. SUFFICES ASSUME NEW j \in DOMAIN back', Accepts(back'[j], tmsg')
                     PROVE  /\ ~Settled'
                            /\ \A i \in DOMAIN back' : i < j => back'[i].type = "EOMA"
        BY <2>1 DEF SOMARight
      <4>2. j \in DOMAIN back /\ back'[j] = back[j]
        BY <2>2, <4>1 DEF Grown, Asks, Accepts
      <4>3. Accepts(back[j], tmsg)
        BY <1>f, <4>1, <4>2 DEF Accepts
      <4>4. ~Settled /\ \A i \in DOMAIN back : i < j => back[i].type = "EOMA"
        BY <4>2, <4>3 DEF StartRight, SOMARight
      <4>5. \A i \in DOMAIN back' : i < j => i \in DOMAIN back /\ back'[i] = back[i]
        BY <1>d, <2>2, <3>1, <4>2 DEF Grown
      <4>6. QED
        BY <1>s, <4>4, <4>5
    <3>3. QED
      BY <1>5, <2>1, <3>2 DEF StartRight, SOMRight
  <2>3. CASE p.type = "SOM" /\ \E q \in Packet : back' = Append(back, q)
    <3>1. Starts(fwd[1], tmsg)
      BY <1>2, <1>f, <2>3 DEF Starts
    <3>2. ~Settled /\ \A i \in DOMAIN back : back[i].type = "EOMA"
      BY <1>d, <3>1 DEF StartRight, SOMRight
    <3>3. /\ DOMAIN back' = 1 .. Len(back) + 1
          /\ \A i \in 1 .. Len(back) : back'[i] = back[i]
      BY <2>3, <1>t
    <3>4. SOMARight'
      <4>1. SUFFICES ASSUME NEW j \in DOMAIN back', NEW i \in DOMAIN back', i < j
                     PROVE  back'[i].type = "EOMA"
        BY <1>s, <2>1, <3>2 DEF SOMARight
      <4>2. i \in DOMAIN back /\ back'[i] = back[i]
        BY <1>d, <3>3, <4>1
      <4>3. QED
        BY <3>2, <4>2
    <3>5. QED
      BY <1>5, <2>1, <3>4 DEF StartRight, SOMRight
  <2>4. CASE Grown(back', back, EOMAs)
    BY <1>1, <2>4
  <2>5. QED
    BY <2>2, <2>3, <2>4 DEF DeliverShape
<1>3. QED
  BY <1>1, <1>2 DEF DeliverShape

(* One packet, no SOM, is sent.                                             *)
LEMMA AppendMoved ==
  ASSUME NEW old \in Seq(Packet), NEW p, Append(old, p) \in Seq(Packet), p.type # "SOM"
  PROVE  Moved(Append(old, p), old, 0, NotSOMs)
<1>1. /\ DOMAIN old = 1 .. Len(old) /\ Len(old) \in Nat /\ DOMAIN Append(old, p) = 1 .. Len(old) + 1
      /\ \A j \in 1 .. Len(old) + 1 : Append(old, p)[j] = IF j <= Len(old) THEN old[j] ELSE p
  OBVIOUS
<1>2. p \in NotSOMs
  <2>1. Append(old, p)[Len(old) + 1] = p /\ Len(old) + 1 \in DOMAIN Append(old, p)
    BY <1>1
  <2>2. Append(old, p)[Len(old) + 1] \in Packet
    BY <2>1, ElementOfSeq
  <2>3. QED
    BY <2>1, <2>2 DEF NotSOMs
<1>3. SUFFICES ASSUME NEW j \in DOMAIN Append(old, p)
               PROVE  IF j + 0 \in DOMAIN old THEN Append(old, p)[j] = old[j + 0]
                      ELSE Append(old, p)[j] \in NotSOMs
  BY DEF Moved
<1>4. QED
  BY <1>1, <1>2, <1>3

(* A step of the transmitter or of the circuit that sends at most one       *)
(* packet, no SOM, takes at most one, and settles nothing.                  *)
LEMMA WireStart ==
  ASSUME LinkInv, LinkInv', SOMRight, SOMARight, UNCHANGED <<tmsg, chan, pc>>,
         fwd' = fwd \/ (fwd # <<>> /\ fwd' = Tail(fwd)) \/ \E p : p.type # "SOM" /\ fwd' = Append(fwd, p),
         back' = back \/ (back # <<>> /\ back' = Tail(back)),
         Settled' => Settled
  PROVE  SOMRight' /\ SOMARight'
<1>t. fwd \in Seq(Packet) /\ back \in Seq(Packet) /\ fwd' \in Seq(Packet) /\ back' \in Seq(Packet)
  BY DEF LinkInv, WireInv, LinkTypes
<1>1. \E k \in {0, 1} : Moved(fwd', fwd, k, NotSOMs)
  <2>1. CASE fwd' = fwd
    BY <2>1, <1>t, SameMoved
  <2>2. CASE fwd # <<>> /\ fwd' = Tail(fwd)
    BY <2>2, <1>t, TailShortened, ShortenedMoved
  <2>3. CASE \E p : p.type # "SOM" /\ fwd' = Append(fwd, p)
    BY <2>3, <1>t, AppendMoved
  <2>4. QED
    BY <2>1, <2>2, <2>3
<1>2. \E l \in {0, 1} : Moved(back', back, l, EOMAs)
  <2>1. CASE back' = back
    BY <2>1, <1>t, SameMoved
  <2>2. CASE back # <<>> /\ back' = Tail(back)
    BY <2>2, <1>t, TailShortened, ShortenedMoved
  <2>3. QED
    BY <2>1, <2>2
<1>3. Done(tmsg) => Done(tmsg)'
  BY DEF Done
<1>4. QED
  BY <1>t, <1>1, <1>2, <1>3, StartKept

(* An answer that settles the transmitter, or the data it asks for.         *)
LEMMA SettlingStart ==
  ASSUME LinkInv, LinkInv', SOMRight, SOMARight, UNCHANGED <<tmsg, chan, pc>>,
         NEW p, Receiving(p), p.type # "EOMA", back' = Tail(back), Moved(fwd', fwd, 0, NotSOMs)
  PROVE  SOMRight' /\ SOMARight'
<1>t. fwd' \in Seq(Packet) /\ back' \in Seq(Packet)
  BY DEF LinkInv, WireInv, LinkTypes
<1>1. 1 \in DOMAIN back /\ p = back[1] /\ Shortened(back', back)
  BY TakesAnswer
<1>2. Moved(back', back, 1, EOMAs)
  BY <1>1, ShortenedMoved
<1>3. Done(tmsg) => Done(tmsg)'
  BY DEF Done
<1>4. 0 \in {0, 1} /\ 1 \in {0, 1} /\ back[1].type # "EOMA"
  BY <1>1
<1>5. QED
  BY <1>t, <1>1, <1>2, <1>3, <1>4, StartKept

(* What comes back to the transmitter.                                      *)
LEMMA AnswersStart ==
  ASSUME LinkInv, LinkInv', SOMRight, SOMARight, Answers
  PROVE  SOMRight' /\ SOMARight'
<1>t. fwd \in Seq(Packet) /\ fwd' \in Seq(Packet) /\ tmsg \in Msgs
  BY DEF LinkInv, WireInv, LinkTypes, RouteInv, IInv, TypeOK
<1>1. ASSUME NEW p, RecvEOMA(p) PROVE SOMRight' /\ SOMARight'
  <2>1. back # <<>> /\ back' = Tail(back) /\ fwd' = fwd /\ UNCHANGED <<tmsg, chan, pc>>
    BY <1>1 DEF RecvEOMA, Receiving, Received, Quiet, vars, readVars, sendVars
  <2>2. Settled' => Settled
    BY <1>1 DEF RecvEOMA, Settled
  <2>3. QED
    BY <2>1, <2>2, WireStart
<1>2. ASSUME NEW p, RecvSOMA(p) PROVE SOMRight' /\ SOMARight'
  <2>1. /\ Receiving(p) /\ p.type # "EOMA" /\ back' = Tail(back) /\ UNCHANGED <<tmsg, chan, pc>>
        /\ fwd' = fwd \/ fwd' = Append(fwd, EOM(tmsg))
    BY <1>2 DEF RecvSOMA, Received, Quiet, vars, readVars, sendVars
  <2>2. Moved(fwd', fwd, 0, NotSOMs)
    <3>1. EOM(tmsg).type # "SOM"
      BY DEF EOM
    <3>2. QED
      BY <1>t, <2>1, <3>1, SameMoved, AppendMoved
  <2>3. QED
    BY <2>1, <2>2, SettlingStart
<1>3. ASSUME NEW p, RecvNAK(p) PROVE SOMRight' /\ SOMARight'
  <2>1. /\ Receiving(p) /\ p.type = "NAK" /\ back' = Tail(back) /\ UNCHANGED <<tmsg, chan, pc>>
        /\ fwd' = fwd \/ fwd' = fwd \o Chunks(p.addr, p.len)
    BY <1>3 DEF RecvNAK, Received, Quiet, vars, readVars, sendVars
  <2>2. p.addr \in Addr /\ p.len \in 1 .. MsgSize /\ p.addr + p.len <= MsgSize
    BY <2>1, TakesAnswer DEF ToTransmitter
  <2>3. /\ Chunks(p.addr, p.len) \in Seq(Packet)
        /\ \A i \in DOMAIN Chunks(p.addr, p.len) : Chunks(p.addr, p.len)[i].type = "DATA"
    BY <1>t, <2>2, ChunksRight
  <2>4. \A i \in DOMAIN Chunks(p.addr, p.len) : Chunks(p.addr, p.len)[i] \in NotSOMs
    BY <2>3, ElementOfSeq DEF NotSOMs
  <2>5. Grown(fwd \o Chunks(p.addr, p.len), fwd, NotSOMs)
    BY <1>t, <2>3, <2>4, ConcatGrown
  <2>6. Moved(fwd', fwd, 0, NotSOMs)
    BY <1>t, <2>1, <2>5, SameMoved, GrownMoved
  <2>7. QED
    BY <2>1, <2>6, SettlingStart
<1>4. QED
  BY <1>1, <1>2, <1>3 DEF Answers

(* The transmitter takes a message: whatever is still on its way is late.   *)
LEMMA FindStart ==
  ASSUME LinkInv, FindMessage
  PROVE  StartRight'
<1> DEFINE m == Head(queue)
<1>q. /\ UNCHANGED <<pc, chan, back>> /\ Idle /\ circuit /\ queue # <<>> /\ tmsg' = m
      /\ outstate' = "STARTING" /\ fwd' = Append(fwd, SOM(m)) /\ somdue' = FALSE
  BY DEF FindMessage, Sending, Idle, Send, StartMessage, readVars
<1>h. m # NoMsg /\ fwd \in Seq(Packet)
  BY <1>q, QueueHead DEF LinkInv, WireInv, LinkTypes
<1>e. \A i \in DOMAIN back : back[i].type = "EOMA"
  BY <1>q DEF LinkInv, WireInv, Together
<1>f. /\ DOMAIN fwd = 1 .. Len(fwd) /\ Len(fwd) \in Nat /\ DOMAIN fwd' = 1 .. Len(fwd) + 1
      /\ \A i \in 1 .. Len(fwd) : fwd'[i] = fwd[i]
  BY <1>q, <1>h
<1> HIDE DEF m
<1>1. SOMRight'
  <2>1. SUFFICES ASSUME NEW j \in DOMAIN fwd', NEW i \in DOMAIN fwd', i < j, fwd'[i].id = m
                 PROVE  Done(tmsg)'
    BY <1>q, <1>e DEF SOMRight, Settled
  <2>2. i \in DOMAIN fwd /\ fwd[i].id = m
    BY <1>f, <2>1
  <2>3. Done(m)
    BY <1>q, <1>h, <2>2 DEF LinkInv, WireInv, FwdRight
  <2>4. QED
    BY <1>q, <2>3 DEF Done
<1>2. SOMARight' /\ SomDueRight'
  BY <1>q, <1>e DEF SOMARight, SomDueRight, Accepts
<1>3. QED
  BY <1>1, <1>2 DEF StartRight

(* A SOM goes out when nothing is under way.                                *)
LEMMA SendSOMStart ==
  ASSUME LinkInv, StartRight, Patient, SendSOM
  PROVE  StartRight'
<1>1. /\ UNCHANGED <<tmsg, chan, pc, outstate, back, circuit>> /\ circuit /\ outstate = "STARTING"
      /\ fwd' = Append(fwd, SOM(tmsg)) /\ somdue' = FALSE
  BY DEF SendSOM, Sending, Send, Quiet, vars, readVars, sendVars
<1>2. fwd = <<>> /\ back = <<>>
  BY <1>1 DEF SendSOM, Timer, StartRight, SomDueRight
<1>3. fwd' = <<SOM(tmsg)>> /\ DOMAIN fwd' = {1} /\ DOMAIN back' = {}
  BY <1>1, <1>2
<1>4. SOMRight' /\ SOMARight' /\ SomDueRight'
  BY <1>1, <1>3 DEF SOMRight, SOMARight, SomDueRight, Settled
<1>5. QED
  BY <1>4 DEF StartRight

(* Steps that leave the queues of packets alone, or put an acknowledgement  *)
(* in one of them.                                                          *)
LEMMA RestStart ==
  ASSUME LinkInv, LinkInv', StartRight, Acknowledge \/ Finish \/ Elsewhere
  PROVE  StartRight'
<1>t. fwd \in Seq(Packet) /\ back \in Seq(Packet) /\ fwd' \in Seq(Packet) /\ back' \in Seq(Packet)
  BY DEF LinkInv, WireInv, LinkTypes
<1>1. /\ UNCHANGED <<tmsg, outstate, somdue, circuit, fwd>>
      /\ back' = back \/ (pc = "passed" /\ circuit /\ back' = Append(back, EOMA(chan.msgid)))
      /\ pc = "ready" => pc' = "ready"
      /\ Done(tmsg) => Done(tmsg)'
  <2>1. CASE Acknowledge
    BY <2>1 DEF Acknowledge, SendEOMA, outVars, sendVars, Done
  <2>2. CASE Finish
    <3>1. chan \in Chans
      BY DEF LinkInv, RouteInv, IInv, TypeOK
    <3>2. QED
      BY <2>2, <3>1 DEF Finish, EndMesgDone, outVars, wireVars, sendVars, Done, Chans
  <2>3. CASE Elsewhere
    BY <2>3 DEF Elsewhere, RouterTakes, Flush, Checkpoint, outVars, wireVars, readVars, sendVars, Done
  <2>4. QED
    BY <2>1, <2>2, <2>3
<1>2. Moved(fwd', fwd, 0, NotSOMs)
  BY <1>t, <1>1, SameMoved
<1>3. Moved(back', back, 0, EOMAs)
  <2>1. CASE back' = back
    BY <2>1, <1>t, SameMoved
  <2>2. CASE back' = Append(back, EOMA(chan.msgid))
    <3>1. chan.msgid \in Msgs \cup {NoMsg} /\ MsgSize \in 0 .. MsgSize /\ 0 \in 0 .. MsgSize
      BY DEF LinkInv, RouteInv, IInv, TypeOK, Chans
    <3>2. EOMA(chan.msgid) \in Packet /\ EOMA(chan.msgid) \in EOMAs
      BY <3>1 DEF EOMA, Packet, EOMAs
    <3>3. Grown(back', back, EOMAs)
      BY <2>2, <3>2, <1>t, AppendGrown
    <3>4. QED
      BY <3>3, <1>t, GrownMoved
  <2>3. QED
    BY <1>1, <2>1, <2>2
<1>4. SOMRight' /\ SOMARight'
  <2>1. 0 \in {0, 1} /\ SOMRight /\ SOMARight /\ (Settled' => Settled)
    BY <1>1 DEF StartRight, Settled
  <2>2. QED
    BY <1>t, <1>1, <1>2, <1>3, <2>1, StartKept
<1>5. SomDueRight'
  BY <1>1 DEF StartRight, SomDueRight
<1>6. QED
  BY <1>4, <1>5 DEF StartRight

(* A circuit that ends, and one that begins.                                *)
LEMMA EndsStart ==
  ASSUME LinkInv,
         Break \/ TooManyEOMs \/ ReceiverFails \/ KillReceiver \/ KillTransmitter \/ HangUp \/ Connect
  PROVE  StartRight'
<1>1. CASE Break \/ TooManyEOMs \/ ReceiverFails \/ KillReceiver \/ KillTransmitter \/ HangUp
  <2>1. circuit' = FALSE /\ fwd' = <<>> /\ back' = <<>>
    BY <1>1 DEF Break, TooManyEOMs, ReceiverFails, KillReceiver, KillTransmitter, HangUp,
       ReceiverStops, TransmitterStops, Cut
  <2>2. QED
    BY <2>1 DEF StartRight, SOMRight, SOMARight, SomDueRight
<1>2. CASE Connect
  <2>1. ~writing /\ ~up /\ UNCHANGED <<fwd, back, pc>> /\ (somdue' => outstate' = "STARTING")
    BY <1>2 DEF Connect, Restart, StartMessage
  <2>2. fwd = <<>> /\ back = <<>> /\ pc = "ready"
    BY <2>1 DEF LinkInv, WireInv, Together, RouteInv, IInv, Phase
  <2>3. QED
    BY <2>1, <2>2 DEF StartRight, SOMRight, SOMARight, SomDueRight
<1>3. QED
  BY <1>1, <1>2

(* Starts go right.                                                         *)
LEMMA NextStart ==
  ASSUME LinkInv, LinkInv', StartRight, NoCancel, NoEndFaults, Patient, [LinkNext]_linkVars
  PROVE  StartRight'
<1>s. SOMRight /\ SOMARight /\ SomDueRight
  BY DEF StartRight
<1>1. CASE UNCHANGED linkVars
  <2>1. UNCHANGED <<tmsg, chan, pc, fwd, back, outstate, somdue, circuit>>
    BY <1>1 DEF linkVars, vars, readVars, sendVars, outVars, wireVars
  <2>2. SOMRight' /\ SOMARight'
    BY <1>s, <2>1, WireStart DEF Settled
  <2>3. QED
    BY <1>s, <2>1, <2>2 DEF StartRight, SomDueRight
<1>2. CASE CleanUp \/ SendAhead \/ SendNext \/ FirstEOM \/ RepeatEOM \/ SendMQE
  <2>1. /\ UNCHANGED <<tmsg, chan, pc, back, circuit, somdue>> /\ (Settled' <=> Settled)
        /\ fwd' = fwd \/ \E p : p.type # "SOM" /\ fwd' = Append(fwd, p)
    <3>1. UNCHANGED <<tmsg, chan, pc>>
      BY <1>2 DEF CleanUp, SendAhead, SendNext, FirstEOM, RepeatEOM, SendMQE, Quiet, vars, readVars, sendVars
    <3>2. ASSUME NEW p, p.type # "SOM", Send(p)
          PROVE  UNCHANGED <<back, circuit>> /\ \E q : q.type # "SOM" /\ fwd' = Append(fwd, q)
      BY <3>2 DEF Send
    <3>3. \A a, n : DATA(tmsg, a, n).type # "SOM" /\ EOM(tmsg).type # "SOM" /\ MQE.type # "SOM"
      BY DEF DATA, EOM, MQE
    <3>4. SendData => UNCHANGED <<back, circuit>> /\ \E q : q.type # "SOM" /\ fwd' = Append(fwd, q)
      BY <3>2, <3>3 DEF SendData
    <3>5. CASE CleanUp
      BY <3>1, <3>5 DEF CleanUp, wireVars, Settled
    <3>6. CASE SendAhead
      BY <3>1, <3>4, <3>6 DEF SendAhead, wireVars, Settled
    <3>7. CASE SendNext
      BY <3>1, <3>4, <3>7 DEF SendNext, Settled
    <3>8. CASE FirstEOM \/ RepeatEOM
      BY <3>1, <3>2, <3>3, <3>8 DEF FirstEOM, RepeatEOM, Settled
    <3>9. CASE SendMQE
      BY <3>1, <3>2, <3>3, <3>9 DEF SendMQE, outVars, Settled
    <3>10. QED
      BY <1>2, <3>5, <3>6, <3>7, <3>8, <3>9
  <2>2. SOMRight' /\ SOMARight'
    BY <1>s, <2>1, WireStart
  <2>3. SomDueRight'
    <3>1. SUFFICES ASSUME somdue, circuit PROVE fwd' = <<>> /\ back' = <<>> /\ pc' = "ready" /\ outstate' = "STARTING"
      BY <2>1 DEF SomDueRight
    <3>2. fwd = <<>> /\ back = <<>> /\ pc = "ready" /\ outstate = "STARTING" /\ has
      BY <1>s, <3>1 DEF SomDueRight, LinkInv, WireInv, QueueRight, Idle
    <3>3. FALSE
      BY <1>2, <3>1, <3>2 DEF CleanUp, SendAhead, SendNext, FirstEOM, RepeatEOM, SendMQE
    <3>4. QED
      BY <3>3
  <2>4. QED
    BY <2>2, <2>3 DEF StartRight
<1>3. CASE FindMessage
  BY <1>3, FindStart
<1>4. CASE SendSOM
  BY <1>4, SendSOMStart
<1>5. CASE Answers
  <2>1. ~somdue'
    <3>1. circuit /\ back # <<>> /\ somdue' = somdue
      BY <1>5 DEF Answers, RecvEOMA, RecvSOMA, RecvNAK, Receiving, outVars
    <3>2. QED
      BY <1>s, <3>1 DEF SomDueRight
  <2>2. QED
    BY <1>5, <1>s, <2>1, AnswersStart DEF StartRight, SomDueRight
<1>6. CASE Delivery
  <2>1. IInv'
    BY DEF LinkInv, RouteInv
  <2>2. QED
    BY <1>6, <2>1, DeliveryShape, DeliveryStart
<1>7. CASE Acknowledge \/ Finish \/ Elsewhere
  BY <1>7, RestStart
<1>8. CASE Lose
  <2>1. UNCHANGED <<tmsg, chan, pc, outstate, somdue, circuit>>
    BY <1>8 DEF Lose, Quiet, vars, readVars, sendVars, outVars
  <2>2. \/ fwd # <<>> /\ fwd' = Tail(fwd) /\ back' = back
        \/ back # <<>> /\ back' = Tail(back) /\ fwd' = fwd
    BY <1>8 DEF Lose
  <2>3. SOMRight' /\ SOMARight'
    BY <1>s, <2>1, <2>2, WireStart DEF Settled
  <2>4. circuit
    <3>1. ~circuit => fwd = <<>> /\ back = <<>>
      BY DEF LinkInv, WireInv, Together
    <3>2. circuit \in BOOLEAN
      BY DEF LinkInv, WireInv, LinkTypes
    <3>3. QED
      BY <2>2, <3>1, <3>2
  <2>5. SomDueRight'
    BY <1>s, <2>1, <2>2, <2>4 DEF SomDueRight
  <2>6. QED
    BY <2>3, <2>5 DEF StartRight
<1>9. CASE Break \/ TooManyEOMs \/ ReceiverFails \/ KillReceiver \/ KillTransmitter \/ HangUp \/ Connect
  BY <1>9, EndsStart
<1>10. ~Cancel
  BY DEF NoCancel, Cancel
<1>11. QED
  BY <1>1, <1>2, <1>3, <1>4, <1>5, <1>6, <1>7, <1>8, <1>9, <1>10 DEF LinkNext, Transmit

(* The receiver whose SOMA was sent stays at its message.                   *)
LEMMA NextHeard ==
  ASSUME RouteInv, EndInv, Heard, [Next]_vars
  PROVE  Heard'
<1>t. chan \in Chans /\ somad \in BOOLEAN
  BY DEF RouteInv, IInv, TypeOK
<1>u. somad => up
  BY DEF EndInv
<1>1. CASE UNCHANGED vars
  BY <1>1 DEF vars, readVars, sendVars, Heard
<1>2. ASSUME NEW a, NEW n, RecvData(a, n) PROVE Heard'
  <2>1. UNCHANGED <<tmsg, somad>>
    BY <1>2 DEF RecvData, DuplicateData, FillingData, NextData, AheadData, DroppedData, Stay, sendVars
  <2>2. chan' = chan \/ \E g : chan' = [chan EXCEPT !.goodaddr = g]
    BY <1>2 DEF RecvData, DuplicateData, FillingData, NextData, AheadData, DroppedData
  <2>3. QED
    BY <1>t, <2>1, <2>2 DEF Heard, Chans
<1>3. CASE SendEOMA \/ EndMesgDone \/ Checkpoint \/ Flush \/ RouterTakes
  BY <1>3, <1>t DEF SendEOMA, EndMesgDone, Checkpoint, Flush, RouterTakes, readVars, sendVars, Heard, Chans
<1>4. ASSUME NEW m \in Msgs, RecvEOM(m) PROVE Heard'
  <2>1. CASE EOMAgain(m)
    BY <2>1 DEF EOMAgain, sendVars, Heard
  <2>2. CASE EOMOfNothing(m)
    <3>1. chan' = [chan EXCEPT !.goodaddr = 0] /\ UNCHANGED <<tmsg, somad>>
      BY <2>2 DEF EOMOfNothing, sendVars
    <3>2. QED
      BY <1>t, <3>1 DEF Heard, Chans
  <2>3. CASE EOMOfSome(m)
    <3>1. UNCHANGED <<tmsg, somad>> /\ \E g : chan' = [chan EXCEPT !.goodaddr = g, !.state = "ENDING"]
      BY <2>3 DEF EOMOfSome, sendVars
    <3>2. QED
      BY <1>t, <3>1 DEF Heard, Chans
  <2>4. CASE EOMWhileStarting(m)
    BY <2>4 DEF EOMWhileStarting, Down, Heard
  <2>5. QED
    BY <1>4, <2>1, <2>2, <2>3, <2>4 DEF RecvEOM
<1>5. ASSUME NEW m \in Msgs, RecvSOM(m) PROVE Heard'
  <2>1. m = tmsg /\ tmsg' = tmsg
    BY <1>5 DEF RecvSOM, SOMAgain, SOMRepeated, SOMResumed, SOMNoFile, SOMNew, NewFile, sendVars
  <2>2. CASE SOMAgain(m)
    BY <2>2 DEF SOMAgain, sendVars, Heard
  <2>3. CASE SOMRepeated(m) \/ SOMResumed(m)
    <3>1. chan.msgid = m /\ \E at : Answer(chan, at)
      BY <2>3 DEF SOMRepeated, SOMResumed, MessageOf
    <3>2. chan'.msgid = m /\ chan'.state # "IDLE"
      BY <1>t, <3>1 DEF Answer, Chans
    <3>3. QED
      BY <2>1, <3>2 DEF Heard
  <2>4. ASSUME NEW f, NEW c \in Chans, NewFile(m, f, c) PROVE Heard'
    <3>1. chan'.msgid = m /\ chan'.state # "IDLE"
      BY <2>4 DEF NewFile, Answer, Chans
    <3>2. QED
      BY <2>1, <3>1 DEF Heard
  <2>5. [chan EXCEPT !.rdup = TRUE] \in Chans
    BY <1>t DEF Chans
  <2>6. CASE SOMNoFile(m) \/ SOMNew(m)
    BY <2>4, <2>5, <2>6, <1>t DEF SOMNoFile, SOMNew
  <2>7. QED
    BY <1>5, <2>2, <2>3, <2>6 DEF RecvSOM
<1>6. CASE RecvMQE
  BY <1>6, <1>t DEF RecvMQE, RecvRMQE, Abort, sendVars, Heard, Chans
<1>7. CASE \/ Stop \/ ErrorExit \/ ExitPassing \/ ExitNAKing \/ Echo \/ Kill
           \/ \E m \in Msgs : KillCreating(m) \/ ExitCreating(m) \/ NextMessage(m)
  BY <1>7 DEF Stop, ErrorExit, ExitPassing, ExitNAKing, Echo, Kill, KillCreating, ExitCreating, Creating,
     NextMessage, Down, Heard
<1>8. CASE Restart
  BY <1>8, <1>u DEF Restart, sendVars, Heard
<1>9. QED
  BY <1>1, <1>2, <1>3, <1>4, <1>5, <1>6, <1>7, <1>8 DEF Next

-----------------------------------------------------------------------------
(* What is behind the packet that arrives stays on its way ...              *)
LEMMA ArrivedLeaves ==
  ASSUME LinkInv, NEW p, Arrived(p), NEW i \in DOMAIN fwd, fwd[i] # p
  PROVE  \E j \in DOMAIN fwd' : fwd'[j] = fwd[i]
<1>1. fwd \in Seq(Packet) /\ fwd # <<>> /\ p = Head(fwd) /\ fwd' = Tail(fwd)
  BY DEF Arrived, LinkInv, WireInv, LinkTypes
<1>2. /\ DOMAIN fwd = 1 .. Len(fwd) /\ Len(fwd) \in Nat /\ Head(fwd) = fwd[1]
      /\ DOMAIN Tail(fwd) = 1 .. Len(fwd) - 1
      /\ \A j \in 1 .. Len(fwd) - 1 : Tail(fwd)[j] = fwd[j + 1]
  BY <1>1
<1>3. i # 1
  BY <1>1, <1>2
<1>4. i - 1 \in DOMAIN fwd' /\ fwd'[i - 1] = fwd[i]
  BY <1>1, <1>2, <1>3
<1>5. QED
  BY <1>4

(* ... so a byte that it does not carry still comes.                        *)
LEMMA ComingStays ==
  ASSUME LinkInv, NEW p, Arrived(p),
         \A i \in DOMAIN back : i \in DOMAIN back' /\ back'[i] = back[i],
         NEW x, x \notin Pkt(p.addr, p.len), Coming(x)
  PROVE  Coming(x)'
<1>1. CASE \E i \in DOMAIN back : back[i].type = "NAK" /\ x \in Pkt(back[i].addr, back[i].len)
  BY <1>1 DEF Coming
<1>2. CASE \E i \in DOMAIN fwd : fwd[i].type = "DATA" /\ x \in Pkt(fwd[i].addr, fwd[i].len)
  <2>1. PICK i \in DOMAIN fwd : fwd[i].type = "DATA" /\ x \in Pkt(fwd[i].addr, fwd[i].len)
    BY <1>2
  <2>2. PICK j \in DOMAIN fwd' : fwd'[j] = fwd[i]
    BY <2>1, ArrivedLeaves
  <2>3. QED
    BY <2>1, <2>2 DEF Coming
<1>3. QED
  BY <1>1, <1>2 DEF Coming

(* What is due stays so, unless it is an EOM that arrives.                  *)
LEMMA DueStays ==
  ASSUME LinkInv, NEW p, Arrived(p), p.type # "EOM", UNCHANGED tmsg,
         \A i \in DOMAIN back : i \in DOMAIN back' /\ back'[i] = back[i],
         MissingComes => Due'
  PROVE  Due => Due'
<1>1. ASSUME NEW i \in DOMAIN fwd, fwd[i].type = "EOM" PROVE Due'
  <2>1. PICK j \in DOMAIN fwd' : fwd'[j] = fwd[i]
    BY <1>1, ArrivedLeaves
  <2>2. QED
    BY <1>1, <2>1 DEF Due
<1>2. ASSUME NEW i \in DOMAIN back,
             (back[i].type = "EOMA" /\ back[i].id = tmsg) \/ (back[i].type = "NAK" /\ back[i].len = MsgSize)
      PROVE  Due'
  BY <1>2 DEF Due
<1>3. pc # "passed"
  BY ArrivedFacts
<1>4. QED
  BY <1>1, <1>2, <1>3 DEF Due

(* Data that arrives fills gaps, and the last of them ends the message.     *)
LEMMA DATADue ==
  ASSUME LinkInv, IInv', NEW p, DeliverDATA(p)
  PROVE  (Due => Due') /\ (EndSeen => EndSeen')
<1>a. Arrived(p) /\ p.type = "DATA"
  BY DEF DeliverDATA
<1>t. /\ p.addr \in Addr /\ p.addr < MsgSize /\ p.addr \in Nat /\ pc = "ready" /\ chan \in Chans
      /\ msgaddr \in Nat
  <2>1. p.addr \in Addr
    BY <1>a, ArrivedFacts DEF ToReceiver, SOM, EOM, MQE
  <2>2. pc = "ready" /\ chan \in Chans /\ msgaddr \in 0 .. MsgSize
    BY <1>a, ArrivedFacts DEF LinkInv, RouteInv, IInv, TypeOK
  <2>3. QED
    BY <2>1, <2>2 DEF Addr
<1> DEFINE filled == Pkt(p.addr, p.len)
<1>1. CASE /\ \/ DuplicateData(p.addr, p.len) \/ FillingData(p.addr, p.len)
              \/ NextData(p.addr, p.len) \/ AheadData(p.addr, p.len)
           /\ Answered
  <2>1. /\ UNCHANGED tmsg /\ Assembling
        /\ chan' = chan \/ \E g : chan' = [chan EXCEPT !.goodaddr = g]
    BY <1>1 DEF DuplicateData, FillingData, NextData, AheadData, Stay, sendVars
  <2>2. chan'.state = chan.state
    BY <1>t, <2>1 DEF Chans
  <2>3. \A i \in DOMAIN back : i \in DOMAIN back' /\ back'[i] = back[i]
    <3>1. reply' \subseteq Packet
      BY <1>1, <1>t, DATAAsks DEF LinkInv, Asks, NAKs
    <3>2. QED
      BY <1>1, <3>1, AnsweredAll
  <2>4. ASSUME MissingComes PROVE Due'
    <3>1. chan.state = "ENDING" /\ gaps # {} /\ \A x \in gaps : Coming(x)
      BY <2>4 DEF MissingComes
    <3>2. \A x \in gaps : x \notin filled => Coming(x)'
      BY <1>a, <2>3, <3>1, ComingStays
    <3>3. CASE DuplicateData(p.addr, p.len)
      <4>1. gaps \cap filled = {} /\ UNCHANGED <<gaps, pc>>
        BY <3>3 DEF DuplicateData
      <4>2. QED
        BY <1>t, <2>2, <3>1, <3>2, <4>1 DEF Due, MissingComes
    <3>4. CASE FillingData(p.addr, p.len)
      <4>1. /\ gaps' = gaps \ filled
            /\ IF chan.state = "ENDING" /\ gaps' = {} THEN pc' = "passed" ELSE UNCHANGED pc
        BY <3>4 DEF FillingData, PassMessage
      <4>2. QED
        BY <1>t, <2>2, <3>1, <3>2, <4>1 DEF Due, MissingComes
    <3>5. CASE NextData(p.addr, p.len) \/ AheadData(p.addr, p.len)
      <4>1. open /\ p.addr >= msgaddr
        BY <3>5, <1>t DEF NextData, AheadData
      <4>2. msgaddr = MsgSize
        BY <3>1, <4>1 DEF LinkInv, RouteInv, IInv, Phase
      <4>3. QED
        BY <1>t, <4>1, <4>2
    <3>6. QED
      BY <1>1, <3>3, <3>4, <3>5
  <2>5. QED
    BY <1>a, <2>1, <2>2, <2>3, <2>4, DueStays DEF EndSeen
<1>2. CASE ~Assembling /\ UNCHANGED <<vars, back, mixed>>
  <2>1. UNCHANGED <<tmsg, back, chan>>
    BY <1>2 DEF vars, readVars, sendVars
  <2>2. ~MissingComes
    BY <1>2 DEF MissingComes, Assembling
  <2>3. QED
    BY <1>a, <2>1, <2>2, DueStays DEF EndSeen
<1>3. QED
  BY <1>1, <1>2 DEF DeliverDATA

(* An EOM that arrives while the transmitter waits for its acknowledgement  *)
(* is answered with that, or with calls for all that is missing, unless it  *)
(* is the first.                                                            *)
LEMMA EOMDue ==
  ASSUME LinkInv, IInv', Heard, Patient, outstate = "ENDING", NEW m \in Msgs, DeliverEOM(m)
  PROVE  (Due' \/ (~EndSeen /\ EndSeen')) /\ (EndSeen => EndSeen')
<1>a. Arrived(EOM(m)) /\ EOM(m).id = m /\ EOM(m).type = "EOM" /\ m # NoMsg
  BY DEF DeliverEOM, EOM
<1>k. TypeOK /\ chan \in Chans /\ gaps' \subseteq Addr /\ tmsg \in Msgs /\ pc = "ready"
  BY <1>a, ArrivedFacts DEF LinkInv, RouteInv, IInv, TypeOK
<1>h. chan.msgid = tmsg /\ m = tmsg /\ chan.state # "IDLE"
  <2>1. somad /\ ~Idle
    BY <1>a, ArrivedFacts DEF LinkInv, WireInv, Together, Idle
  <2>2. chan.msgid = tmsg /\ chan.state # "IDLE"
    BY <2>1 DEF Heard
  <2>3. QED
    BY <1>a, <2>1, <2>2, ArrivedFacts
<1>1. CASE EOMAgain(m) /\ Answered
  <2>1. reply' = {EOMA(m)} /\ UNCHANGED <<chan, tmsg>>
    BY <1>1 DEF EOMAgain, sendVars
  <2>2. EOMA(m) \in Packet
    <3>1. MsgSize \in 0 .. MsgSize /\ 0 \in 0 .. MsgSize
      OBVIOUS
    <3>2. QED
      BY <3>1 DEF EOMA, Packet
  <2>3. PICK i \in DOMAIN back' : back'[i] = EOMA(m)
    <3>1. reply' \subseteq Packet
      BY <2>1, <2>2
    <3>2. QED
      BY <1>1, <2>1, <3>1, AnsweredAll
  <2>4. back'[i].type = "EOMA" /\ back'[i].id = tmsg'
    BY <1>h, <2>1, <2>3 DEF EOMA
  <2>5. QED
    BY <2>1, <2>4 DEF Due, EndSeen
<1>2. CASE (EOMOfNothing(m) \/ EOMOfSome(m)) /\ AllAskedFor /\ Answered
  <2>1. \A q \in reply' : \E i \in DOMAIN back' : back'[i] = q
    <3>1. reply' \subseteq Packet
      BY <1>2, EOMAsks DEF LinkInv, Asks, NAKs
    <3>2. QED
      BY <1>2, <3>1, AnsweredAll
  <2>2. CASE EOMOfNothing(m)
    <3>1. msgaddr = 0 /\ gaps' = Addr /\ chan' = [chan EXCEPT !.goodaddr = 0]
      BY <2>2 DEF EOMOfNothing
    <3>2. EndSeen' <=> EndSeen
      BY <1>k, <3>1 DEF EndSeen, Chans
    <3>3. NAK(0, MsgSize) \in reply'
      <4> DEFINE r == <<0, MsgSize>>
      <4>1. r \in Addr \X (1 .. MsgSize) /\ r[1] = 0 /\ r[2] = MsgSize
        BY DEF Addr
      <4>2. Pkt(0, MsgSize) \subseteq Addr /\ 0 - 1 \notin Addr /\ 0 + MsgSize \notin Addr
        BY DEF Pkt, Addr
      <4>3. r \in Runs(Addr)
        BY <4>1, <4>2 DEF Runs
      <4> HIDE DEF r
      <4>4. SendNAK(r[1], r[2]) \subseteq reply' /\ SendNAK(0, MsgSize) = {NAK(0, MsgSize)}
        BY <1>2, <3>1, <4>3 DEF AllAskedFor, SendNAK
      <4>5. QED
        BY <4>1, <4>4
    <3>4. PICK i \in DOMAIN back' : back'[i] = NAK(0, MsgSize)
      BY <2>1, <3>3
    <3>5. back'[i].type = "NAK" /\ back'[i].len = MsgSize
      BY <3>4 DEF NAK
    <3>6. QED
      BY <3>2, <3>5 DEF Due
  <2>3. CASE EOMOfSome(m)
    <3>1. /\ Assembling /\ \E g : chan' = [chan EXCEPT !.goodaddr = g, !.state = "ENDING"]
          /\ pc' = "passed" \/ (gaps' # {} /\ UNCHANGED pc)
      BY <2>3 DEF EOMOfSome, PassMessage
    <3>2. chan'.state = "ENDING" /\ chan.state \in {"ACTIVE", "ENDING"}
      BY <1>k, <3>1 DEF Chans, Assembling
    <3>3. CASE chan.state = "ACTIVE"
      BY <3>2, <3>3 DEF EndSeen
    <3>4. CASE chan.state = "ENDING"
      <4>1. ASSUME NEW x \in gaps' PROVE Coming(x)'
        <5>1. PICK r \in Runs(gaps') : x \in Pkt(r[1], r[2])
          BY <1>k, <4>1, RunsCover
        <5>2. r[1] \in Addr /\ r[2] \in 1 .. MsgSize
          BY <5>1 DEF Runs
        <5>3. PICK q \in SendNAK(r[1], r[2]) : q.type = "NAK" /\ x \in Pkt(q.addr, q.len)
          BY <5>1, <5>2, SendNAKCovers
        <5>4. q \in reply'
          BY <1>2, <3>4, <5>1, <5>3 DEF AllAskedFor
        <5>5. PICK i \in DOMAIN back' : back'[i] = q
          BY <2>1, <5>4
        <5>6. QED
          BY <5>3, <5>5 DEF Coming
      <4>2. CASE pc' = "passed"
        BY <3>2, <4>2 DEF Due, EndSeen
      <4>3. CASE gaps' # {} /\ UNCHANGED pc
        BY <1>k, <3>2, <4>1, <4>3 DEF Due, MissingComes, EndSeen
      <4>4. QED
        BY <3>1, <4>2, <4>3
    <3>5. QED
      BY <3>2, <3>3, <3>4
  <2>4. QED
    BY <1>2, <2>2, <2>3
<1>3. CASE ~MessageOf(m) \/ chan.state = "IDLE"
  BY <1>3, <1>h DEF MessageOf
<1>4. QED
  BY <1>1, <1>2, <1>3 DEF DeliverEOM

(* Steps that do not touch the counters.                                    *)
LEMMA CountsKept ==
  ASSUME CountRight, UNCHANGED <<count, outaddr, losses>>,
         circuit' /\ outstate' = "ENDING" =>
           /\ circuit /\ outstate = "ENDING"
           /\ EndSeen => EndSeen'
           /\ Due => Due' \/ (~EndSeen /\ EndSeen')
  PROVE  CountRight'
<1>1. count' \in Int /\ losses' \in 0 .. MaxLosses
  BY DEF CountRight
<1>2. SUFFICES ASSUME circuit', outstate' = "ENDING"
               PROVE  outaddr' = MsgSize /\ MAX_EOMS - count' <= losses' + One(EndSeen') + One(Due')
  BY <1>1 DEF CountRight
<1>3. outaddr = MsgSize /\ MAX_EOMS - count <= losses + One(EndSeen) + One(Due)
  BY <1>2 DEF CountRight
<1>4. One(EndSeen) + One(Due) <= One(EndSeen') + One(Due')
  BY <1>2 DEF One
<1>5. \A b : One(b) \in 0 .. 1
  BY DEF One
<1>6. One(EndSeen) \in Int /\ One(Due) \in Int /\ One(EndSeen') \in Int /\ One(Due') \in Int
  BY <1>5
<1>7. QED
  BY <1>1, <1>2, <1>3, <1>4, <1>6

(* An EOM that was just sent is paid for.                                   *)
LEMMA EOMIsDue ==
  ASSUME fwd \in Seq(Packet), fwd' = Append(fwd, EOM(tmsg))
  PROVE  Due'
<1>1. Len(fwd) + 1 \in DOMAIN Append(fwd, EOM(tmsg)) /\ Append(fwd, EOM(tmsg))[Len(fwd) + 1] = EOM(tmsg)
  OBVIOUS
<1>2. fwd'[Len(fwd) + 1].type = "EOM"
  BY <1>1 DEF EOM
<1>3. QED
  BY <1>1, <1>2 DEF Due

(* The first one.                                                           *)
LEMMA FirstIsPaid ==
  ASSUME LinkInv, CountRight, fwd' = Append(fwd, EOM(tmsg)), count' = MAX_EOMS - 1,
         outaddr' = MsgSize, losses' = losses
  PROVE  CountRight'
<1>1. Due'
  BY EOMIsDue DEF LinkInv, WireInv, LinkTypes
<1>2. count' \in Int /\ losses' \in 0 .. MaxLosses
  BY DEF CountRight
<1>3. \A b : One(b) \in 0 .. 1
  BY DEF One
<1>4. One(EndSeen') \in 0 .. 1 /\ One(Due') = 1
  BY <1>1, <1>3 DEF One
<1>5. MAX_EOMS - count' <= losses' + One(EndSeen') + One(Due')
  BY <1>2, <1>4
<1>6. QED
  BY <1>2, <1>5 DEF CountRight

(* Another one, when nothing is due.                                        *)
LEMMA RepeatIsPaid ==
  ASSUME LinkInv, CountRight, Patient, RepeatEOM
  PROVE  CountRight'
<1>1. /\ fwd' = Append(fwd, EOM(tmsg)) /\ count' = count - 1 /\ UNCHANGED <<outaddr, losses, chan>>
      /\ circuit /\ outstate = "ENDING" /\ fwd = <<>> /\ back = <<>> /\ pc = "ready"
  BY DEF RepeatEOM, Sending, Send, Timer, Quiet, vars, readVars
<1>2. Due'
  BY <1>1, EOMIsDue DEF LinkInv, WireInv, LinkTypes
<1>3. ~Due
  BY <1>1 DEF Due, MissingComes, Coming
<1>4. count \in Int /\ losses \in 0 .. MaxLosses /\ outaddr = MsgSize
      /\ MAX_EOMS - count <= losses + One(EndSeen) + One(Due)
  BY <1>1 DEF CountRight
<1>5. \A b : One(b) \in 0 .. 1
  BY DEF One
<1>6. One(EndSeen) \in 0 .. 1 /\ One(EndSeen') = One(EndSeen) /\ One(Due) = 0 /\ One(Due') = 1
  BY <1>1, <1>2, <1>3, <1>5 DEF One, EndSeen
<1>7. MAX_EOMS - count' <= losses' + One(EndSeen') + One(Due')
  BY <1>1, <1>4, <1>6
<1>8. QED
  BY <1>1, <1>4, <1>7 DEF CountRight

(* Deliveries.                                                              *)
LEMMA DeliveryCount ==
  ASSUME LinkInv, IInv', StartRight, Heard, CountRight, NoEndFaults, Patient, Delivery
  PROVE  CountRight'
<1>1. UNCHANGED <<count, outaddr, losses, outstate, circuit>>
  BY DeliveryShape DEF DeliverShape, outVars
<1>2. SUFFICES ASSUME circuit, outstate = "ENDING"
               PROVE  (EndSeen => EndSeen') /\ (Due => Due' \/ (~EndSeen /\ EndSeen'))
  BY <1>1, CountsKept
<1>3. has /\ somad /\ chan.msgid = tmsg /\ Settled
  BY <1>2 DEF LinkInv, WireInv, QueueRight, Together, Idle, Heard, Settled
<1>4. ASSUME NEW m \in Msgs, DeliverSOM(m) PROVE FALSE
  <2>1. Arrived(SOM(m)) /\ SOM(m).id = m /\ SOM(m).type = "SOM" /\ m # NoMsg
    BY <1>4 DEF DeliverSOM, SOM
  <2>2. m = tmsg
    BY <1>3, <2>1, ArrivedFacts
  <2>3. fwd # <<>> /\ fwd[1] = SOM(m) /\ fwd \in Seq(Packet)
    BY <2>1, ArrivedShape DEF LinkInv, WireInv, LinkTypes
  <2>4. 1 \in DOMAIN fwd /\ Starts(fwd[1], tmsg)
    BY <2>1, <2>2, <2>3, TailShortened DEF Starts
  <2>5. QED
    BY <1>3, <2>4 DEF StartRight, SOMRight
<1>5. ASSUME NEW m \in Msgs, DeliverEOM(m)
      PROVE  (EndSeen => EndSeen') /\ (Due => Due' \/ (~EndSeen /\ EndSeen'))
  BY <1>2, <1>5, EOMDue
<1>6. ASSUME NEW p, DeliverDATA(p)
      PROVE  (EndSeen => EndSeen') /\ (Due => Due' \/ (~EndSeen /\ EndSeen'))
  BY <1>6, DATADue
<1>7. ~DeliverMQE
  <2>1. SUFFICES ASSUME Arrived(MQE) PROVE FALSE
    BY DEF DeliverMQE
  <2>2. MQE.type = "MQE"
    BY DEF MQE
  <2>3. QED
    BY <1>3, <2>1, <2>2, ArrivedFacts
<1>8. QED
  BY <1>4, <1>5, <1>6, <1>7 DEF Delivery

(* An answer that is taken is no longer due ...                             *)
LEMMA TakenLeaves ==
  ASSUME LinkInv, NEW p, Receiving(p), back' = Tail(back), NEW i \in DOMAIN back, back[i] # p
  PROVE  \E j \in DOMAIN back' : back'[j] = back[i]
<1>1. back \in Seq(Packet) /\ back # <<>> /\ p = Head(back)
  BY DEF Receiving, LinkInv, WireInv, LinkTypes
<1>2. /\ DOMAIN back = 1 .. Len(back) /\ Len(back) \in Nat /\ Head(back) = back[1]
      /\ DOMAIN Tail(back) = 1 .. Len(back) - 1
      /\ \A j \in 1 .. Len(back) - 1 : Tail(back)[j] = back[j + 1]
  BY <1>1
<1>3. i # 1
  BY <1>1, <1>2
<1>4. i - 1 \in DOMAIN back' /\ back'[i - 1] = back[i]
  BY <1>2, <1>3
<1>5. QED
  BY <1>4

(* ... but what it asks for comes.                                          *)
LEMMA DueTaken ==
  ASSUME LinkInv, NEW p, Receiving(p), back' = Tail(back), UNCHANGED vars,
         \A i \in DOMAIN fwd : \E j \in DOMAIN fwd' : fwd'[j] = fwd[i],
         ~(p.type = "EOMA" /\ p.id = tmsg), ~(p.type = "NAK" /\ p.len = MsgSize),
         p.type = "NAK" => \A x \in Pkt(p.addr, p.len) : Coming(x)'
  PROVE  (Due => Due') /\ (EndSeen => EndSeen')
<1>v. UNCHANGED <<tmsg, pc, chan, gaps>>
  BY DEF vars, readVars, sendVars
<1>1. ASSUME NEW i \in DOMAIN fwd, fwd[i].type = "EOM" PROVE Due'
  BY <1>1 DEF Due
<1>2. ASSUME NEW i \in DOMAIN back,
             (back[i].type = "EOMA" /\ back[i].id = tmsg) \/ (back[i].type = "NAK" /\ back[i].len = MsgSize)
      PROVE  Due'
  <2>1. PICK j \in DOMAIN back' : back'[j] = back[i]
    BY <1>2, TakenLeaves
  <2>2. QED
    BY <1>2, <1>v, <2>1 DEF Due
<1>3. ASSUME NEW x, Coming(x) PROVE Coming(x)'
  <2>1. ASSUME NEW i \in DOMAIN fwd, fwd[i].type = "DATA", x \in Pkt(fwd[i].addr, fwd[i].len)
        PROVE  Coming(x)'
    BY <2>1 DEF Coming
  <2>2. ASSUME NEW i \in DOMAIN back, back[i].type = "NAK", x \in Pkt(back[i].addr, back[i].len)
        PROVE  Coming(x)'
    <3>1. CASE back[i] = p
      BY <2>2, <3>1
    <3>2. CASE back[i] # p
      <4>1. PICK j \in DOMAIN back' : back'[j] = back[i]
        BY <3>2, TakenLeaves
      <4>2. QED
        BY <2>2, <4>1 DEF Coming
    <3>3. QED
      BY <3>1, <3>2
  <2>3. QED
    BY <1>3, <2>1, <2>2 DEF Coming
<1>4. MissingComes => Due'
  BY <1>v, <1>3 DEF Due, MissingComes
<1>5. QED
  BY <1>v, <1>1, <1>2, <1>4 DEF Due, EndSeen

(* What comes back to the transmitter.                                      *)
LEMMA AnswersCount ==
  ASSUME LinkInv, CountRight, Answers
  PROVE  CountRight'
<1>t. tmsg \in Msgs /\ fwd \in Seq(Packet) /\ outaddr \in 0 .. MsgSize /\ (outstate = "ENDING" => has)
  BY DEF LinkInv, WireInv, LinkTypes, RouteInv, IInv, TypeOK, QueueRight, Idle
<1>1. ASSUME NEW p, RecvEOMA(p) PROVE CountRight'
  <2>1. /\ Receiving(p) /\ back' = Tail(back) /\ p.type = "EOMA" /\ UNCHANGED vars
        /\ UNCHANGED <<circuit, fwd, losses, count, outaddr>>
        /\ outstate' = IF Mine(p) THEN "IDLE" ELSE outstate
    BY <1>1 DEF RecvEOMA, Received, Quiet
  <2>2. ASSUME circuit', outstate' = "ENDING"
        PROVE  circuit /\ outstate = "ENDING" /\ (Due => Due') /\ (EndSeen => EndSeen')
    <3>1. circuit /\ outstate = "ENDING" /\ p.id # tmsg
      BY <1>t, <2>1, <2>2 DEF Mine
    <3>2. \A i \in DOMAIN fwd : \E j \in DOMAIN fwd' : fwd'[j] = fwd[i]
      BY <2>1
    <3>3. QED
      BY <2>1, <3>1, <3>2, DueTaken
  <2>3. QED
    BY <2>1, <2>2, CountsKept
<1>2. ASSUME NEW p, RecvSOMA(p) PROVE CountRight'
  <2>1. Receiving(p) /\ p.type = "SOMA" /\ p \in Packet /\ UNCHANGED vars
    BY <1>2, TakesAnswer DEF RecvSOMA, Quiet
  <2>2. CASE Received /\ UNCHANGED outVars
    <3>1. /\ back' = Tail(back) /\ UNCHANGED <<circuit, fwd, losses, count, outaddr, outstate>>
          /\ \A i \in DOMAIN fwd : \E j \in DOMAIN fwd' : fwd'[j] = fwd[i]
      BY <2>2 DEF Received, outVars
    <3>2. (Due => Due') /\ (EndSeen => EndSeen')
      BY <2>1, <3>1, DueTaken
    <3>3. QED
      BY <3>1, <3>2, CountsKept
  <2>3. CASE Mine(p) /\ outaddr' < MsgSize
    <3>1. outstate' = "ACTIVE" /\ UNCHANGED <<count, losses>>
      BY <1>2, <2>3 DEF RecvSOMA, Received, outVars, Mine
    <3>2. QED
      BY <3>1 DEF CountRight
  <2>4. CASE Mine(p) /\ ~(outaddr' < MsgSize)
    <3>1. /\ outaddr' = IF p.addr # 0 THEN p.addr ELSE outaddr
          /\ count' = MAX_EOMS - 1 /\ fwd' = Append(fwd, EOM(tmsg)) /\ UNCHANGED losses
      BY <1>2, <2>4 DEF RecvSOMA
    <3>2. p.addr \in 0 .. MsgSize
      BY <2>1 DEF Packet
    <3>3. outaddr' = MsgSize
      BY <1>t, <2>4, <3>1, <3>2
    <3>4. QED
      BY <3>1, <3>3, FirstIsPaid
  <2>5. QED
    BY <1>2, <2>2, <2>3, <2>4 DEF RecvSOMA
<1>3. ASSUME NEW p, RecvNAK(p) PROVE CountRight'
  <2>1. /\ Receiving(p) /\ p.type = "NAK" /\ back' = Tail(back) /\ UNCHANGED vars
        /\ UNCHANGED <<circuit, losses, count>>
    BY <1>3 DEF RecvNAK, Received, Quiet, outVars
  <2>2. p.addr \in Addr /\ p.len \in 1 .. MsgSize /\ p.addr + p.len <= MsgSize
    BY <2>1, TakesAnswer DEF ToTransmitter
  <2>3. SUFFICES ASSUME circuit', outstate' = "ENDING" PROVE CountRight'
    BY <2>1 DEF CountRight
  <2>4. circuit /\ outstate = "ENDING" /\ outaddr = MsgSize
    <3>1. outstate = "ENDING"
      BY <1>3, <2>3 DEF RecvNAK, outVars
    <3>2. QED
      BY <2>1, <2>3, <3>1 DEF CountRight
  <2>5. ~(outaddr < p.addr)
    BY <2>2, <2>4 DEF Addr
  <2>6. p.len # MsgSize /\ fwd' = fwd \o Chunks(p.addr, p.len) /\ UNCHANGED outaddr
    BY <1>3, <2>3, <2>4, <2>5 DEF RecvNAK, outVars
  <2> DEFINE C == Chunks(p.addr, p.len)
  <2>7. C \in Seq(Packet) /\ \A i \in DOMAIN C : C[i].type = "DATA"
    BY <1>t, <2>2, ChunksRight
  <2>c. ASSUME NEW x \in Pkt(p.addr, p.len)
        PROVE  \E i \in DOMAIN C : x \in Pkt(C[i].addr, C[i].len)
    BY <2>2, <2>c, ChunksCover
  <2>f. fwd' = fwd \o C
    BY <2>6
  <2> HIDE DEF C
  <2>8. /\ \A i \in DOMAIN fwd : i \in DOMAIN fwd' /\ fwd'[i] = fwd[i]
        /\ \A i \in DOMAIN C : Len(fwd) + i \in DOMAIN fwd' /\ fwd'[Len(fwd) + i] = C[i]
    <3>1. /\ DOMAIN fwd = 1 .. Len(fwd) /\ Len(fwd) \in Nat /\ DOMAIN C = 1 .. Len(C) /\ Len(C) \in Nat
          /\ DOMAIN (fwd \o C) = 1 .. Len(fwd) + Len(C)
          /\ \A i \in 1 .. Len(fwd) + Len(C) : (fwd \o C)[i] = IF i <= Len(fwd) THEN fwd[i] ELSE C[i - Len(fwd)]
      BY <1>t, <2>7
    <3>2. QED
      BY <2>f, <3>1
  <2>9. \A x \in Pkt(p.addr, p.len) : Coming(x)'
    <3> SUFFICES ASSUME NEW x \in Pkt(p.addr, p.len) PROVE Coming(x)'
      OBVIOUS
    <3>1. PICK i \in DOMAIN C : x \in Pkt(C[i].addr, C[i].len)
      BY <2>c
    <3>2. Len(fwd) + i \in DOMAIN fwd' /\ fwd'[Len(fwd) + i] = C[i] /\ C[i].type = "DATA"
      BY <2>7, <2>8
    <3>3. QED
      BY <3>1, <3>2 DEF Coming
  <2>10. (Due => Due') /\ (EndSeen => EndSeen')
    <3>1. \A i \in DOMAIN fwd : \E j \in DOMAIN fwd' : fwd'[j] = fwd[i]
      BY <2>8
    <3>2. QED
      BY <2>1, <2>6, <2>9, <3>1, DueTaken
  <2>11. QED
    BY <2>1, <2>4, <2>6, <2>10, CountsKept
<1>4. QED
  BY <1>1, <1>2, <1>3 DEF Answers

(* What nothing is done to stays due.                                       *)
LEMMA DueSame ==
  ASSUME UNCHANGED <<tmsg, pc, chan, gaps, fwd, back>>
  PROVE  (Due' <=> Due) /\ (EndSeen' <=> EndSeen)
BY DEF Due, MissingComes, Coming, EndSeen

(* The receiver's own steps.                                                *)
LEMMA OwnCount ==
  ASSUME LinkInv, Heard, CountRight, Acknowledge \/ Finish \/ Elsewhere
  PROVE  CountRight'
<1>1. UNCHANGED <<count, outaddr, losses, outstate, circuit, fwd, tmsg>>
  BY DEF Acknowledge, Finish, Elsewhere, SendEOMA, EndMesgDone, RouterTakes, Flush, Checkpoint,
     outVars, wireVars, sendVars
<1>2. SUFFICES ASSUME circuit, outstate = "ENDING"
               PROVE  (EndSeen => EndSeen') /\ (Due => Due')
  BY <1>1, CountsKept
<1>3. chan.msgid = tmsg /\ back \in Seq(Packet) /\ chan \in Chans
  BY <1>2 DEF LinkInv, WireInv, LinkTypes, Together, Heard, RouteInv, IInv, TypeOK
<1>4. CASE Acknowledge
  <2>1. back' = Append(back, EOMA(tmsg)) /\ UNCHANGED chan
    BY <1>2, <1>3, <1>4 DEF Acknowledge, SendEOMA
  <2>2. Len(back) + 1 \in DOMAIN back' /\ back'[Len(back) + 1] = EOMA(tmsg)
    BY <1>3, <2>1
  <2>3. back'[Len(back) + 1].type = "EOMA" /\ back'[Len(back) + 1].id = tmsg'
    BY <1>1, <2>2 DEF EOMA
  <2>4. QED
    BY <2>1, <2>2, <2>3 DEF Due, EndSeen
<1>5. CASE Finish
  <2>1. pc = "acked" /\ back' = back /\ chan' = [chan EXCEPT !.state = "ENDED", !.rdup = FALSE]
    BY <1>5 DEF Finish, EndMesgDone, wireVars
  <2>2. EndSeen'
    BY <1>3, <2>1 DEF EndSeen, Chans
  <2>3. QED
    BY <1>1, <2>1, <2>2 DEF Due, MissingComes
<1>6. CASE Elsewhere
  <2>1. UNCHANGED <<tmsg, pc, chan, gaps, fwd, back>>
    BY <1>6 DEF Elsewhere, RouterTakes, Flush, Checkpoint, wireVars, sendVars, readVars
  <2>2. QED
    BY <2>1, DueSame
<1>7. QED
  BY <1>4, <1>5, <1>6

(* A lost packet pays for what it was to bring.                             *)
LEMMA LoseCount ==
  ASSUME CountRight, Lose
  PROVE  CountRight'
<1>1. UNCHANGED <<count, outaddr, outstate, circuit, chan>> /\ losses < MaxLosses /\ losses' = losses + 1
  BY DEF Lose, Quiet, vars, readVars, outVars
<1>2. count' \in Int /\ losses \in 0 .. MaxLosses /\ losses' \in 0 .. MaxLosses
  BY <1>1 DEF CountRight
<1>3. SUFFICES ASSUME circuit, outstate = "ENDING"
               PROVE  outaddr' = MsgSize /\ MAX_EOMS - count' <= losses' + One(EndSeen') + One(Due')
  BY <1>1, <1>2 DEF CountRight
<1>4. outaddr = MsgSize /\ MAX_EOMS - count <= losses + One(EndSeen) + One(Due)
  BY <1>3 DEF CountRight
<1>5. \A b : One(b) \in 0 .. 1
  BY DEF One
<1>6. One(EndSeen') = One(EndSeen)
  BY <1>1 DEF EndSeen
<1>7. One(EndSeen) \in 0 .. 1 /\ One(Due) \in 0 .. 1 /\ One(Due') \in 0 .. 1
  BY <1>5
<1>8. QED
  BY <1>1, <1>2, <1>4, <1>6, <1>7

(* Each step pays for the EOM that it sends.                                *)
LEMMA NextCount ==
  ASSUME LinkInv, IInv', StartRight, Heard, EOFRight, CountRight, NoCancel, NoEndFaults, Patient,
         [LinkNext]_linkVars
  PROVE  CountRight'
<1>t. count \in Int /\ losses \in 0 .. MaxLosses
  BY DEF CountRight
<1>1. CASE UNCHANGED linkVars
  <2>1. UNCHANGED <<count, outaddr, losses, outstate, circuit>>
    BY <1>1 DEF linkVars, outVars, wireVars
  <2>2. UNCHANGED <<tmsg, pc, chan, gaps, fwd, back>>
    BY <1>1 DEF linkVars, outVars, wireVars, vars, sendVars, readVars
  <2>3. QED
    BY <2>1, <2>2, DueSame, CountsKept
<1>2. CASE CleanUp \/ FindMessage \/ SendSOM \/ SendAhead \/ SendNext \/ SendMQE \/ Connect
  <2>1. count' \in Int /\ losses' = losses
    BY <1>t, <1>2 DEF CleanUp, FindMessage, SendSOM, SendAhead, SendNext, SendMQE, Connect, Send, SendData,
       StartMessage, outVars, wireVars
  <2>2. outstate' # "ENDING"
    <3>1. SendMQE => Idle
      BY DEF SendMQE, LinkInv, WireInv, QueueRight
    <3>2. QED
      BY <1>2, <3>1 DEF CleanUp, FindMessage, SendSOM, SendAhead, SendNext, SendMQE, Connect,
         StartMessage, outVars, Idle
  <2>3. QED
    BY <1>t, <2>1, <2>2 DEF CountRight
<1>3. CASE FirstEOM
  <2>1. /\ fwd' = Append(fwd, EOM(tmsg)) /\ count' = MAX_EOMS - 1 /\ losses' = losses
        /\ outaddr' = outaddr /\ eof
    BY <1>3 DEF FirstEOM, Send
  <2>2. outaddr = MsgSize
    BY <2>1 DEF EOFRight
  <2>3. QED
    BY <2>1, <2>2, FirstIsPaid
<1>4. CASE RepeatEOM
  BY <1>4, RepeatIsPaid
<1>5. CASE Answers
  BY <1>5, AnswersCount
<1>6. CASE Delivery
  BY <1>6, DeliveryCount
<1>7. CASE Acknowledge \/ Finish \/ Elsewhere
  BY <1>7, OwnCount
<1>8. CASE Lose
  BY <1>8, LoseCount
<1>9. CASE Break \/ TooManyEOMs \/ ReceiverFails \/ KillReceiver \/ KillTransmitter \/ HangUp
  <2>1. circuit' = FALSE /\ UNCHANGED <<count, losses>>
    BY <1>9 DEF Break, TooManyEOMs, ReceiverFails, KillReceiver, KillTransmitter, HangUp, ReceiverStops,
       TransmitterStops, Cut, outVars
  <2>2. QED
    BY <1>t, <2>1 DEF CountRight
<1>10. ~Cancel
  BY DEF NoCancel, Cancel
<1>11. QED
  BY <1>1, <1>2, <1>3, <1>4, <1>5, <1>6, <1>7, <1>8, <1>9, <1>10 DEF LinkNext, Transmit

(* The end of the file is reached when all of it has been sent.             *)
LEMMA NextEOF ==
  ASSUME LinkInv, IInv', EOFRight, NoEndFaults, [LinkNext]_linkVars
  PROVE  EOFRight'
<1>t. outaddr \in 0 .. MsgSize
  BY DEF LinkInv, WireInv, LinkTypes
<1>1. CASE UNCHANGED <<eof, outaddr>>
  BY <1>1 DEF EOFRight
<1>2. CASE eof' = FALSE
  BY <1>2 DEF EOFRight
<1>3. CASE SendData
  BY <1>3 DEF SendData, EOFRight
<1>4. UNCHANGED linkVars => UNCHANGED <<eof, outaddr>>
  BY DEF linkVars, outVars
<1>5. CASE Transmit
  <2>1. CleanUp \/ SendSOM \/ RepeatEOM => UNCHANGED <<eof, outaddr>>
    BY DEF CleanUp, SendSOM, RepeatEOM
  <2>2. FindMessage \/ FirstEOM => eof' = FALSE
    BY DEF FindMessage, StartMessage, FirstEOM
  <2>3. SendAhead \/ SendNext => SendData \/ UNCHANGED <<eof, outaddr>>
    BY DEF SendAhead, SendNext
  <2>4. QED
    BY <1>1, <1>2, <1>3, <1>5, <2>1, <2>2, <2>3 DEF Transmit
<1>6. CASE Answers
  <2>1. ASSUME NEW p, RecvEOMA(p) \/ RecvNAK(p) PROVE EOFRight'
    <3>1. UNCHANGED <<eof, outaddr>> \/ eof' = FALSE
      BY <2>1 DEF RecvEOMA, RecvNAK, outVars
    <3>2. QED
      BY <1>1, <1>2, <3>1
  <2>2. ASSUME NEW p, RecvSOMA(p) PROVE EOFRight'
    <3>1. \/ UNCHANGED <<eof, outaddr>> \/ eof' = FALSE
          \/ outaddr' = (IF p.addr # 0 THEN p.addr ELSE outaddr) /\ ~(outaddr' < MsgSize)
      BY <2>2 DEF RecvSOMA, outVars
    <3>2. p.addr \in 0 .. MsgSize
      BY <2>2, TakesAnswer DEF RecvSOMA, Packet
    <3>3. CASE outaddr' = (IF p.addr # 0 THEN p.addr ELSE outaddr) /\ ~(outaddr' < MsgSize)
      <4>1. outaddr' = MsgSize
        BY <1>t, <3>2, <3>3
      <4>2. QED
        BY <4>1 DEF EOFRight
    <3>4. QED
      BY <1>1, <1>2, <3>1, <3>3
  <2>3. QED
    BY <1>6, <2>1, <2>2 DEF Answers
<1>7. CASE Delivery
  BY <1>1, <1>7, DeliveryShape DEF DeliverShape, outVars
<1>8. SendMQE \/ Acknowledge \/ Finish \/ Elsewhere \/ Lose => UNCHANGED <<eof, outaddr>>
  BY DEF SendMQE, Acknowledge, Finish, Elsewhere, Lose, outVars
<1>9. Break \/ TooManyEOMs \/ ReceiverFails \/ KillReceiver \/ KillTransmitter \/ HangUp \/ Cancel
        => UNCHANGED <<eof, outaddr>>
  BY DEF Break, TooManyEOMs, ReceiverFails, KillReceiver, KillTransmitter, HangUp, ReceiverStops, TransmitterStops,
     Cancel, outVars
<1>10. Connect => eof' = FALSE
  BY DEF Connect, StartMessage
<1>11. QED
  BY <1>1, <1>2, <1>4, <1>5, <1>6, <1>7, <1>8, <1>9, <1>10 DEF LinkNext

-----------------------------------------------------------------------------
(* All of it together.                                                      *)
LEMMA NextPaid ==
  ASSUME PaidFor, NoCancel, NoEndFaults, Patient, [LinkNext]_linkVars
  PROVE  PaidFor'
<1>1. /\ KeptInv /\ LinkInv /\ EndInv /\ RouteInv /\ StartRight /\ Heard /\ EOFRight /\ CountRight
  BY DEF PaidFor, KeptInv, LinkInv
<1>2. KeptInv'
  BY <1>1, NextKept
<1>3. LinkInv' /\ IInv'
  BY <1>2 DEF KeptInv, LinkInv, RouteInv
<1>4. StartRight'
  BY <1>1, <1>3, NextStart
<1>5. Heard'
  BY <1>1, LinkSteps, NextHeard
<1>6. EOFRight'
  BY <1>1, <1>3, NextEOF
<1>7. CountRight'
  BY <1>1, <1>3, NextCount
<1>8. QED
  BY <1>2, <1>4, <1>5, <1>6, <1>7 DEF PaidFor

(* It holds at the start.                                                   *)
LEMMA InitPaid ==
  ASSUME LinkInit
  PROVE  PaidFor
<1>1. KeptInv
  BY InitKept
<1>2. fwd = <<>> /\ back = <<>> /\ ~somdue /\ ~somad /\ ~eof /\ count = 0 /\ losses = 0 /\ outstate = "IDLE"
  BY DEF LinkInit, Init
<1>3. StartRight /\ Heard /\ EOFRight
  BY <1>2 DEF StartRight, SOMRight, SOMARight, SomDueRight, Heard, EOFRight
<1>4. CountRight
  BY <1>2 DEF CountRight
<1>5. QED
  BY <1>1, <1>3, <1>4 DEF PaidFor

(* The daemon does not end with ``Too many EOMs'' (NeverGivesUp; writer.c,  *)
(* transmitter.c) while its timers are patient and MAX_EOMS is more than    *)
(* one above the packets lost: EOMs are repeated only when nothing is due,  *)
(* and besides the first that the receiver saw each has cost a packet.      *)
THEOREM LinkNeverGivesUp ==
  ASSUME "cancel" \notin LinkFaults, "space" \notin Faults, "echo" \notin Faults,
         Patient, MAX_EOMS > MaxLosses + 1
  PROVE  LinkSpec => []NeverGivesUp
<1>1. PaidFor /\ [LinkNext]_linkVars => PaidFor'
  BY NextPaid DEF NoCancel, NoEndFaults
<1>2. PaidFor => NeverGivesUp
  <2>1. SUFFICES ASSUME PaidFor, circuit, outstate = "ENDING", count = 0, Timer PROVE FALSE
    BY DEF NeverGivesUp
  <2>2. fwd = <<>> /\ back = <<>> /\ pc = "ready"
    BY <2>1 DEF Timer
  <2>3. ~Due
    BY <2>2 DEF Due, MissingComes, Coming
  <2>4. losses \in 0 .. MaxLosses /\ MAX_EOMS - count <= losses + One(EndSeen) + One(Due)
    BY <2>1 DEF PaidFor, CountRight
  <2>5. One(EndSeen) \in 0 .. 1 /\ One(Due) = 0
    BY <2>3 DEF One
  <2>6. MAX_EOMS <= MaxLosses + 1
    BY <2>1, <2>4, <2>5
  <2>7. QED
    BY <2>6
<1>3. QED
  BY <1>1, <1>2, InitPaid, PTL DEF LinkSpec
=============================================================================
