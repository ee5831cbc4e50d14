-------------------------- MODULE PacketProtocol --------------------------
(***************************************************************************)
(* NNdaemon/NNproto: the packet protocol of the node-to-node daemon, one   *)
(* channel between two ends.  Packets carry a sequence number modulo       *)
(* SEQMOD; up to Pnbufs of them wait for an acknowledgement, and up to     *)
(* NPKTBUFS-1 that came too early are held.  An end resets the transmitter *)
(* of the other one when it starts and when it gets a packet it cannot     *)
(* place.                                                                  *)
(*                                                                         *)
(* A handler runs to its end before the next packet is read (Precv is      *)
(* called from one loop), so each is one action.  A daemon queues its data *)
(* packets, and writes one when no control packet waits: those go first,   *)
(* so they are on the circuit at once, ahead of all data still queued      *)
(* (PQ.h, queue.c, driver.c).  The circuit keeps the order of packets, and *)
(* loses any of them (a damaged packet is dropped by its CRC).  Time is    *)
(* left out: a timer may go off whenever its condition holds.              *)
(***************************************************************************)
EXTENDS Naturals, Sequences, FiniteSets, FiniteSetsExt, SequencesExt

CONSTANTS
    SEQMOD,      \* sequence numbers are 0 .. SEQMOD-1
    Pnbufs,      \* packets that may wait for an acknowledgement
    Senders,     \* the ends whose higher level has data to send
    Losable,     \* types of packet the circuit may damage
    Patient,     \* whether the timers outlast a round trip
    MaxLosses,   \* bound: packets lost
    MaxSend,     \* bound: packets sent after a reset
    MaxResets,   \* bound: restarts of a daemon, and resets sent by timers
    QueueSize    \* bound: packets on the circuit when a timer goes off

Ends == {"a", "b"}
Peer(e) == IF e = "a" THEN "b" ELSE "a"

NPKTBUFS == SEQMOD \div 2
Slots == 0 .. Pnbufs - 1
HeldSlots == 1 .. NPKTBUFS - 1

CntlTypes == {"TIMEOUT", "XMT_RESET", "ACK_RESET", "REQ_RESET"}
PacketTypes == {"DATA", "ACK", "NAK"} \cup CntlTypes

ASSUME ProtocolAssumption ==
    /\ SEQMOD \in Nat \ {0, 1, 2, 3}
    /\ SEQMOD % 2 = 0
    /\ Pnbufs \in 1 .. NPKTBUFS
    /\ Senders \subseteq Ends
    /\ Losable \subseteq PacketTypes
    /\ Patient \in BOOLEAN
    /\ {MaxLosses, MaxSend, MaxResets, QueueSize} \subseteq Nat

VARIABLES
    xmit,     \* xmit[e]: the transmitter of end e (chn_xstate, chn_xseq, chn_nxpkt, chn_xpkts)
    recv,     \* recv[e]: its receiver (chn_rstate, chn_rseq, chn_rpkts)
    pktq,     \* pktq[e]: the data packets e has not written yet (PktQ[PDATAQ])
    wire,     \* wire[e]: the packets on their way to e
    epoch,    \* history: epoch[e] counts the resets of e's transmitter
    freed,    \* history: freed[e] packets of this epoch have left e's buffers
    got,      \* history: what e's higher level was given since its receiver was reset
    crossed,  \* history: ends where a reset has crossed another, or overtaken data
    losses,   \* packets lost so far
    resets    \* restarts, and resets sent by timers, so far

vars == <<xmit, recv, pktq, wire, epoch, freed, got, crossed, losses, resets>>

-----------------------------------------------------------------------------
(* Data is known by the epoch of its transmitter and its number in it.      *)

NoData == [ep |-> 0, n |-> 0]
Empty == [seq |-> 0, state |-> "NULL", data |-> NoData]
NotHeld == [full |-> FALSE, seq |-> 0, data |-> NoData]

(* A data packet stays in the buffer of its slot, buf.                      *)
Packet(t, s, d) == [type |-> t, seq |-> s, data |-> d, buf |-> 0]
DataPacket(slot, p) == [type |-> "DATA", seq |-> slot.seq, data |-> slot.data, buf |-> p]
Cntl(t) == Packet(t, 0, NoData)

(* A reply that carries s; its sender means number n (history: no action    *)
(* reads it).                                                               *)
Reply(t, s, n) == Packet(t, s, [ep |-> 0, n |-> n])

(* Sequence numbers before and after s. *)
Back(s, k) == (s + SEQMOD - k) % SEQMOD

(* Wrong: not reduced to the bits of a sequence number. *)
AheadUnmasked(s, k) == s + k
Ahead(s, k) == (s + k) % SEQMOD

-----------------------------------------------------------------------------
(* The transmitter as a record: its state, the number of packets sent       *)
(* (chn_xseq, sent modulo SEQMOD), the next slot to be acknowledged and the *)
(* slots.  A slot keeps the header of its last packet when it is NULL.      *)

XReset(state, slots) ==
    [state |-> state, n |-> 0, nx |-> 0, slot |-> slots]

After(p, i) == (p + i) % Pnbufs
Free(x) == {i \in Slots : x.slot[After(x.nx, i)].state = "NULL"}
Marked(x, p, state) == [x EXCEPT !.slot[p].state = state]
Waiting(x) == {p \in Slots : x.slot[p].state = "WAIT"}

(* What a handler at e has done so far: the transmitter, the data packets   *)
(* it has given to qPkt, and how many packets it has freed in all.          *)
Doing(e) == [x |-> xmit[e], out |-> <<>>, freed |-> freed[e]]

(* Psend when data is there: the first free slot from nx takes the next     *)
(* packet; without one nothing happens.                                     *)
Psend(a, e) ==
    LET x == a.x
        p == After(x.nx, Min(Free(x)))
        new == [seq |-> x.n % SEQMOD, state |-> "WAIT",
                data |-> [ep |-> epoch[e], n |-> x.n + 1]]
    IN  IF Free(x) = {} \/ x.n >= MaxSend THEN a
        ELSE [a EXCEPT !.x = [x EXCEPT !.slot[p] = new, !.n = @ + 1, !.state = "ACTIVE"],
                       !.out = Append(@, DataPacket(new, p))]

(* Psend until it finds no free slot, or no data.                           *)
PsendAll(a, e) ==
    LET walk[k \in 0 .. Pnbufs] == IF k = 0 THEN a ELSE Psend(walk[k - 1], e)
    IN  walk[Pnbufs]

Resend(a, p) ==
    [a EXCEPT !.out = Append(@, DataPacket(a.x.slot[p], p))]

Ready(e) == xmit[e].state # "RESET" /\ recv[e].state # "RESET"

(* Rack: every packet up to s is acknowledged.  The walk through the        *)
(* numbers s may stand for, oldest first, goes on only while the slot at nx *)
(* holds the next one, even if it was freed before; each slot freed makes   *)
(* room for a packet, if "more" is there.                                   *)
FreeNext(a) ==
    [a EXCEPT !.x = [Marked(a.x, a.x.nx, "NULL") EXCEPT !.nx = After(@, 1)],
              !.freed = IF a.x.slot[a.x.nx].state = "NULL" THEN @ ELSE @ + 1]

RackStep(a, e, t, more) ==
    IF a.x.slot[a.x.nx].seq # t THEN a
    ELSE IF more /\ Ready(e) THEN Psend(FreeNext(a), e)
    ELSE FreeNext(a)

Rack(a, e, s, more) ==
    LET walk[k \in 0 .. Pnbufs] ==
          IF k = 0 THEN a ELSE RackStep(walk[k - 1], e, Back(s, Pnbufs - k), more)
    IN  walk[Pnbufs]

MarkNAK(a, p) == [a EXCEPT !.x = Marked(@, p, "NAK")]

(* Wrong: the packet before s, which is sent again, is the one that is marked. *)
RnakBefore(b, t, s) ==
    LET p == After(b.a.x.nx, b.hit)
        slot == b.a.x.slot[p]
    IN  IF b.done \/ slot.seq # t THEN b
        ELSE IF slot.state = "WAIT" /\ t = Back(s, 1)
        THEN [b EXCEPT !.a = Resend(MarkNAK(@, p), p), !.done = TRUE]
        ELSE [b EXCEPT !.hit = @ + 1]

(* Rnak: packet s came too early.  The walk is Rack's: its slot is marked,  *)
(* and the packet before it is sent again.                                  *)
RnakStep(b, t, s) ==
    LET p == After(b.a.x.nx, b.hit)
        slot == b.a.x.slot[p]
    IN  IF b.done \/ slot.seq # t THEN b
        ELSE IF slot.state = "WAIT" /\ t = s
        THEN [b EXCEPT !.a = MarkNAK(@, p), !.done = TRUE]
        ELSE [b EXCEPT !.hit = @ + 1,
                       !.a = IF slot.state = "WAIT" /\ t = Back(s, 1) THEN Resend(@, p) ELSE @]

Rnak(a, s) ==
    LET walk[k \in 0 .. Pnbufs] ==
          IF k = 0 THEN [a |-> a, hit |-> 0, done |-> FALSE]
          ELSE RnakStep(walk[k - 1], Back(s, Pnbufs - k), s)
    IN  walk[Pnbufs].a

(* The packets of the slots "due" are sent again, the slot at nx first.     *)
Resent(a, due) ==
    LET walk[k \in 0 .. Pnbufs] ==
          IF k = 0 THEN a
          ELSE LET p == After(a.x.nx, k - 1)
               IN  IF p \in due THEN Resend(walk[k - 1], p) ELSE walk[k - 1]
    IN  walk[Pnbufs]

-----------------------------------------------------------------------------
(* The receiver as a record. *)

RReset(state) ==
    [state |-> state, next |-> 0, held |-> [i \in HeldSlots |-> NotHeld]]

(* Movenak: held packets that are now in sequence, the first slot first. *)
Movenak(b) ==
    LET fit == {i \in HeldSlots : b.r.held[i].full /\ b.r.held[i].seq = b.r.next}
        i == Min(fit)
    IN  IF fit = {} THEN b
        ELSE [r |-> [b.r EXCEPT !.held[i] = NotHeld, !.next = Ahead(@, 1)],
              got |-> Append(b.got, b.r.held[i].data)]

(* Packet pkt is the next one: it is given to the higher level, and so are  *)
(* the held ones that follow it.                                            *)
Accept(e, pkt) ==
    LET walk[k \in 0 .. NPKTBUFS - 1] ==
          IF k = 0 THEN [r |-> [recv[e] EXCEPT !.next = Ahead(@, 1)],
                         got |-> Append(got[e], pkt.data)]
          ELSE Movenak(walk[k - 1])
    IN  walk[NPKTBUFS - 1]

Retry(r, s) == \E k \in 1 .. NPKTBUFS : s = Back(r.next, k)
Skipped(r, s) == \E k \in 1 .. NPKTBUFS - 1 : s = Ahead(r.next, k)

(* Skipseq's search: the first slot that is empty or has number s. *)
SlotsFor(r, s) == {i \in HeldSlots : ~r.held[i].full \/ r.held[i].seq = s}
Hold(r, pkt) ==
    LET i == Min(SlotsFor(r, pkt.seq))
    IN  IF r.held[i].full THEN r
        ELSE [r EXCEPT !.held[i] = [full |-> TRUE, seq |-> pkt.seq, data |-> pkt.data]]

-----------------------------------------------------------------------------
(* The circuit.  A handler at e takes the first packet and sends "out".     *)

Arrives(e, t) == wire[e] # <<>> /\ Head(wire[e]).type = t
Handle(e, out) ==
    wire' = [wire EXCEPT ![e] = Tail(@), ![Peer(e)] = @ \o out]
Emit(e, out) == wire' = [wire EXCEPT ![Peer(e)] = @ \o out]

(* qPkt: a packet whose buffer is still queued goes to the end of the       *)
(* queue, as it is now.                                                     *)
qPkt(q, pkt) ==
    LET same == {i \in 1 .. Len(q) : q[i].buf = pkt.buf}
    IN  IF same = {} THEN Append(q, pkt)
        ELSE Append(RemoveAt(q, Min(same)), pkt)

qPkts(q, out) ==
    LET walk[k \in 0 .. Len(out)] == IF k = 0 THEN q ELSE qPkt(walk[k - 1], out[k])
    IN  walk[Len(out)]

Queue(e, out) == pktq' = [pktq EXCEPT ![e] = qPkts(@, out)]

InFlight == Len(wire["a"]) + Len(wire["b"]) + Len(pktq["a"]) + Len(pktq["b"])
Quiet == InFlight < QueueSize
OnWire(e, types) == \E i \in 1 .. Len(wire[e]) : wire[e][i].type \in types

(* e sends XMT_RESET: is an exchange it began before still under way? *)
Crossing(e) ==
    crossed' = IF OnWire(Peer(e), {"XMT_RESET"}) \/ OnWire(e, {"ACK_RESET"})
               THEN crossed \cup {e} ELSE crossed

UnchangedReceiver == UNCHANGED <<recv, got>>
UnchangedTransmitter == UNCHANGED <<xmit, pktq, freed, epoch>>
Counters == <<crossed, losses, resets>>

(* Pinit, at an end whose daemon starts.  The circuit is opened anew: what  *)
(* was on its way to the daemon before is gone.                             *)
Started == <<Cntl("REQ_RESET"), Cntl("XMT_RESET")>>

Init ==
    /\ xmit = [e \in Ends |-> XReset("RESET", [p \in Slots |-> Empty])]
    /\ recv = [e \in Ends |-> RReset("RESET")]
    /\ pktq = [e \in Ends |-> <<>>]
    /\ wire = [e \in Ends |-> Started]
    /\ epoch = [e \in Ends |-> 0]
    /\ freed = [e \in Ends |-> 0]
    /\ got = [e \in Ends |-> <<>>]
    /\ crossed = {}
    /\ losses = 0
    /\ resets = 0

Restart(e) ==
    /\ resets < MaxResets
    /\ resets' = resets + 1
    /\ xmit' = [xmit EXCEPT ![e] = XReset("RESET", [p \in Slots |-> Empty])]
    /\ recv' = [recv EXCEPT ![e] = RReset("RESET")]
    /\ freed' = [freed EXCEPT ![e] = 0]
    /\ got' = [got EXCEPT ![e] = <<>>]
    /\ pktq' = [pktq EXCEPT ![e] = <<>>]
    /\ wire' = [wire EXCEPT ![e] = <<>>, ![Peer(e)] = @ \o Started]
    /\ Crossing(e)
    /\ UNCHANGED <<epoch, losses>>

Lose(e) ==
    /\ wire[e] # <<>>
    /\ Head(wire[e]).type \in Losable
    /\ losses < MaxLosses
    /\ losses' = losses + 1
    /\ Handle(e, <<>>)
    /\ UnchangedReceiver /\ UnchangedTransmitter /\ UNCHANGED <<crossed, resets>>

(* The higher level calls Psend or Psendc. *)
Send(e) ==
    LET a == Psend(Doing(e), e)
    IN  /\ e \in Senders
        /\ Ready(e)
        /\ a.out # <<>>
        /\ xmit' = [xmit EXCEPT ![e] = a.x]
        /\ Queue(e, a.out)
        /\ UNCHANGED <<wire, freed, epoch>> /\ UnchangedReceiver /\ UNCHANGED Counters

(* The driver writes the next data packet.                                  *)
Transmit(e) ==
    /\ pktq[e] # <<>>
    /\ pktq' = [pktq EXCEPT ![e] = Tail(@)]
    /\ Emit(e, <<Head(pktq[e])>>)
    /\ UNCHANGED <<xmit, freed, epoch>> /\ UnchangedReceiver /\ UNCHANGED Counters

-----------------------------------------------------------------------------
(* Precv, one action for each branch. *)

RecvData(e) ==
    Arrives(e, "DATA") /\ UnchangedTransmitter /\ UNCHANGED <<losses, resets>>

DataWhileReset(e) ==
    /\ RecvData(e)
    /\ recv[e].state = "RESET"
    /\ Handle(e, <<>>)
    /\ UnchangedReceiver /\ UNCHANGED crossed

NextData(e) ==
    LET pkt == Head(wire[e])
        b == Accept(e, pkt)
    IN  /\ RecvData(e)
        /\ recv[e].state # "RESET"
        /\ pkt.seq = recv[e].next
        /\ recv' = [recv EXCEPT ![e] = b.r]
        /\ got' = [got EXCEPT ![e] = b.got]
        /\ Handle(e, <<Reply("ACK", Back(b.r.next, 1), Len(b.got))>>)
        /\ UNCHANGED crossed

(* Wrong: the packet that is expected is acknowledged, not the last one given. *)
RetriedDataAhead(e) ==
    /\ RecvData(e)
    /\ recv[e].state # "RESET"
    /\ Head(wire[e]).seq # recv[e].next
    /\ Retry(recv[e], Head(wire[e]).seq)
    /\ Handle(e, <<Reply("ACK", recv[e].next, Len(got[e]))>>)
    /\ UnchangedReceiver /\ UNCHANGED crossed

RetriedData(e) ==
    /\ RecvData(e)
    /\ recv[e].state # "RESET"
    /\ Head(wire[e]).seq # recv[e].next
    /\ Retry(recv[e], Head(wire[e]).seq)
    /\ Handle(e, <<Reply("ACK", Back(recv[e].next, 1), Len(got[e]))>>)
    /\ UnchangedReceiver /\ UNCHANGED crossed

(* Preset: the receiver waits for a reset of the other end's transmitter.   *)
Preset(e) ==
    /\ recv' = [recv EXCEPT ![e].state = "RESET"]
    /\ Handle(e, <<Cntl("XMT_RESET")>>)
    /\ Crossing(e)

(* It is held; without a slot for it the channel is reset.                  *)
SkippedData(e) ==
    LET pkt == Head(wire[e])
    IN  /\ RecvData(e)
        /\ recv[e].state # "RESET"
        /\ pkt.seq # recv[e].next
        /\ ~Retry(recv[e], pkt.seq)
        /\ Skipped(recv[e], pkt.seq)
        /\ IF SlotsFor(recv[e], pkt.seq) = {} THEN Preset(e)
           ELSE /\ recv' = [recv EXCEPT ![e] = Hold(@, pkt)]
                /\ Handle(e, <<Reply("NAK", pkt.seq, pkt.data.n)>>)
                /\ UNCHANGED crossed
        /\ UNCHANGED got

(* The transmitter of e after a handler that did a. *)
Done(e, a) ==
    /\ xmit' = [xmit EXCEPT ![e] = a.x]
    /\ freed' = [freed EXCEPT ![e] = a.freed]
    /\ Queue(e, a.out)
    /\ Handle(e, <<>>)
    /\ UNCHANGED epoch /\ UnchangedReceiver /\ UNCHANGED Counters

More(e) == IF e \in Senders THEN BOOLEAN ELSE {FALSE}

RecvACK(e) ==
    /\ Arrives(e, "ACK")
    /\ \E more \in More(e) :
          Done(e, IF xmit[e].state = "RESET" THEN Doing(e)
                  ELSE Rack(Doing(e), e, Head(wire[e]).seq, more))

RecvNAK(e) ==
    /\ Arrives(e, "NAK")
    /\ Done(e, IF xmit[e].state = "RESET" THEN Doing(e)
               ELSE Rnak(Doing(e), Head(wire[e]).seq))

(* Rcontrol, TIMEOUT.  Before the reset is complete the packets of Pinit    *)
(* are sent again, unless that has just been done.                          *)
TimeoutWhileReset(e) ==
    /\ Arrives(e, "TIMEOUT")
    /\ xmit[e].state = "RESET"
    /\ \/ Handle(e, <<>>) /\ UNCHANGED crossed
       \/ recv[e].state = "RESET" /\ Crossing(e) /\ Handle(e, Started)
    /\ UnchangedReceiver /\ UnchangedTransmitter /\ UNCHANGED <<losses, resets>>

(* Wrong: a TIMEOUT is taken for an acknowledgement only. *)
RecvTIMEOUTAsACK(e) ==
    /\ Arrives(e, "TIMEOUT")
    /\ xmit[e].state # "RESET"
    /\ \E more \in More(e) : Done(e, Rack(Doing(e), e, Head(wire[e]).seq, more))

(* "due" are the packets that have waited long enough; one that was just    *)
(* sent has not.                                                            *)
RecvTIMEOUT(e) ==
    /\ Arrives(e, "TIMEOUT")
    /\ xmit[e].state # "RESET"
    /\ \E more \in More(e) :
       LET a == Rack(Doing(e), e, Head(wire[e]).seq, more)
           waited == {p \in Waiting(a.x) : a.x.slot[p] = xmit[e].slot[p]}
       IN  \E due \in IF Patient THEN {waited} ELSE SUBSET waited :
           LET b == Resent(a, due)
           IN  Done(e, IF Waiting(a.x) = {} THEN [b EXCEPT !.x.state = "IDLE"]
                       ELSE IF Cardinality(Waiting(a.x)) < Pnbufs /\ more /\ Ready(e)
                       THEN PsendAll(b, e)
                       ELSE b)

(* Rcontrol, XMT_RESET: acknowledge, then PXreset.  Data still queued is    *)
(* overtaken by the acknowledgement, and nobody drops it.                   *)
RecvXMT_RESET(e) ==
    /\ Arrives(e, "XMT_RESET")
    /\ xmit' = [xmit EXCEPT ![e] =
                  XReset("IDLE", [p \in Slots |-> [@.slot[p] EXCEPT !.state = "NULL"]])]
    /\ epoch' = [epoch EXCEPT ![e] = @ + 1]
    /\ freed' = [freed EXCEPT ![e] = 0]
    /\ Handle(e, <<Cntl("ACK_RESET")>>)
    /\ crossed' = IF pktq[e] = <<>> THEN crossed ELSE crossed \cup {Peer(e)}
    /\ UnchangedReceiver /\ UNCHANGED <<pktq, losses, resets>>

(* Wrong: packets held before the reset are kept. *)
RecvACK_RESETHolding(e) ==
    /\ Arrives(e, "ACK_RESET")
    /\ recv' = [recv EXCEPT ![e].state = "IDLE", ![e].next = 0]
    /\ got' = [got EXCEPT ![e] = <<>>]
    /\ Handle(e, <<>>)
    /\ UnchangedTransmitter /\ UNCHANGED Counters

(* Rcontrol, ACK_RESET: PRreset. *)
RecvACK_RESET(e) ==
    /\ Arrives(e, "ACK_RESET")
    /\ recv' = [recv EXCEPT ![e] = RReset("IDLE")]
    /\ got' = [got EXCEPT ![e] = <<>>]
    /\ Handle(e, <<>>)
    /\ UnchangedTransmitter /\ UNCHANGED Counters

(* Rcontrol, REQ_RESET: Preset unless that is done. *)
RecvREQ_RESET(e) ==
    /\ Arrives(e, "REQ_RESET")
    /\ IF recv[e].state = "RESET" THEN Handle(e, <<>>) /\ UNCHANGED <<recv, crossed>>
       ELSE Preset(e)
    /\ UNCHANGED <<got, losses, resets>>
    /\ UnchangedTransmitter

-----------------------------------------------------------------------------
(* Ptimo: the timers of e's transmitter and receiver. *)

TimedReset(e, t) ==
    /\ IF Patient
       THEN InFlight = 0 /\ UNCHANGED resets
       ELSE resets < MaxResets /\ resets' = resets + 1
    /\ Emit(e, <<Cntl(t)>>)
    /\ UnchangedReceiver /\ UnchangedTransmitter /\ UNCHANGED losses

RequestAgain(e) ==
    xmit[e].state = "RESET" /\ TimedReset(e, "REQ_RESET") /\ UNCHANGED crossed

ResetAgain(e) ==
    recv[e].state = "RESET" /\ TimedReset(e, "XMT_RESET") /\ Crossing(e)

SendTIMEOUT(e) ==
    /\ recv[e].state # "RESET"
    /\ Quiet
    /\ Emit(e, <<Reply("TIMEOUT", Back(recv[e].next, 1), Len(got[e]))>>)
    /\ UnchangedReceiver /\ UnchangedTransmitter /\ UNCHANGED Counters

Receive(e) ==
    \/ DataWhileReset(e) \/ NextData(e) \/ RetriedData(e) \/ SkippedData(e)
    \/ RecvACK(e) \/ RecvNAK(e) \/ TimeoutWhileReset(e) \/ RecvTIMEOUT(e)
    \/ RecvXMT_RESET(e) \/ RecvACK_RESET(e) \/ RecvREQ_RESET(e)

Ptimo(e) == RequestAgain(e) \/ ResetAgain(e) \/ SendTIMEOUT(e)

Next == \E e \in Ends : Receive(e) \/ Send(e) \/ Transmit(e) \/ Ptimo(e) \/ Restart(e) \/ Lose(e)

Spec == Init /\ [][Next]_vars

(* A daemon handles what arrives, its higher level has data, and its timers *)
(* go off.                                                                  *)
FairSpec ==
    /\ Spec
    /\ \A e \in Ends :
          /\ WF_vars(Receive(e)) /\ WF_vars(Send(e)) /\ WF_vars(Transmit(e))
          /\ SF_vars(RequestAgain(e)) /\ SF_vars(ResetAgain(e)) /\ SF_vars(SendTIMEOUT(e))

-----------------------------------------------------------------------------
XmitRecords ==
    [state : {"IDLE", "ACTIVE", "RESET"}, n : Nat, nx : Slots,
     slot : [Slots -> [seq : 0 .. SEQMOD - 1, state : {"NULL", "WAIT", "NAK"},
                       data : [ep : Nat, n : Nat]]]]

RecvRecords ==
    [state : {"IDLE", "RESET"}, next : 0 .. SEQMOD - 1,
     held : [HeldSlots -> [full : BOOLEAN, seq : 0 .. SEQMOD - 1, data : [ep : Nat, n : Nat]]]]

Packets == [type : PacketTypes, seq : 0 .. SEQMOD - 1, data : [ep : Nat, n : Nat], buf : Slots]

(* Types of the variables. *)
PacketTypeOK ==
    /\ xmit \in [Ends -> XmitRecords]
    /\ recv \in [Ends -> RecvRecords]
    /\ \A e \in Ends : \A i \in 1 .. Len(wire[e]) : wire[e][i] \in Packets
    /\ \A e \in Ends : \A i \in 1 .. Len(pktq[e]) : pktq[e][i] \in Packets
    /\ epoch \in [Ends -> Nat] /\ freed \in [Ends -> Nat]
    /\ \A e \in Ends : \A i \in 1 .. Len(got[e]) : got[e][i] \in [ep : Nat, n : Nat]
    /\ crossed \subseteq Ends
    /\ losses \in 0 .. MaxLosses /\ resets \in 0 .. MaxResets

(* What a receiver has given to its higher level since it was reset is what *)
(* the other end sent since one reset of its transmitter: the first packets *)
(* in order, none missing, none twice, none of another epoch.  Excepted are *)
(* resets that cross, for an answer carries nothing that tells which reset  *)
(* it answers, nor an ACK which epoch, and a reset of a transmitter that has*)
(* data queued: the answer overtakes them, no reset empties the queue, and  *)
(* they are taken for packets of the new epoch.                             *)
InOrder ==
    \A e \in Ends \ crossed : \A i \in 1 .. Len(got[e]) :
        got[e][i].n = i /\ got[e][i].ep = got[e][1].ep

(* The receiver at the other end of e is about to be reset with e. *)
Resetting(e) ==
    \/ recv[Peer(e)].state = "RESET"
    \/ OnWire(e, {"XMT_RESET"})
    \/ OnWire(Peer(e), {"ACK_RESET"})

(* The other end's higher level has what was sent up to packet n.           *)
Given(e, n) == n > 0 => n <= Len(got[Peer(e)]) /\ got[Peer(e)][1].ep = epoch[e]

(* A transmitter lets go of a packet only when the other end's higher level *)
(* has it, with the same exceptions: an ACK for data of the old epoch that  *)
(* was overtaken frees a packet of the new one.                             *)
FreedIsGiven ==
    \A e \in Ends : Peer(e) \in crossed \/ Resetting(e) \/ Given(e, freed[e])

(* A packet that comes too early finds a slot, whatever was held there      *)
(* before: a receiver is never reset for want of one.                       *)
RoomForSkipped ==
    \A e \in Ends \ crossed :
        Arrives(e, "DATA") /\ recv[e].state # "RESET" =>
            LET s == Head(wire[e]).seq
            IN  \/ s = recv[e].next
                \/ Retry(recv[e], s)
                \/ Skipped(recv[e], s) /\ SlotsFor(recv[e], s) # {}

(* A packet the receiver asked not to be sent again (NAK state: only WAIT   *)
(* packets are repeated on a timeout) is held there or was delivered, for   *)
(* which there must always be room.                                         *)
NAKedIsHeld ==
    /\ RoomForSkipped
    /\ \A e \in Ends : \A p \in Slots :
         xmit[e].slot[p].state = "NAK" =>
             \/ Peer(e) \in crossed \/ Resetting(e)
             \/ Given(e, xmit[e].slot[p].data.n)
             \/ \E i \in HeldSlots : /\ recv[Peer(e)].held[i].full
                                     /\ recv[Peer(e)].held[i].data = xmit[e].slot[p].data

(* With finitely many losses everything that is sent is given to the higher *)
(* level of the other end and acknowledged.                                 *)
AllGiven ==
    <>[](\A e \in Senders : freed[e] = MaxSend /\ Len(got[Peer(e)]) = MaxSend)
=============================================================================
