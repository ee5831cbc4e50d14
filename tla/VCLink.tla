------------------------------- MODULE VCLink -------------------------------
(***************************************************************************)
(* A whole link in one direction, on one channel: the transmitter of the   *)
(* writer process (VCdaemon/transmitter.c, writer.c, message.c, status.c), *)
(* a circuit that loses packets, and at the far end the receiver, whose    *)
(* module this one extends.  What VCReceiver assumes of its environment is *)
(* here what the transmitter does: Spec of VCReceiver is a property.       *)
(*                                                                         *)
(* Queue fwd holds the packets on their way to the receiver, back those of *)
(* the receiver on their way to the transmitter, through the pipe to the   *)
(* writer of its daemon, the circuit and the pipe from the reader here.    *)
(* When a daemon ends, so does the circuit, and the daemon at the other    *)
(* end; a new session begins when both have been started again.            *)
(***************************************************************************)
EXTENDS VCReceiver, FiniteSets

CONSTANTS InitDataCount, (* packets sent ahead of the SOMA                 *)
          MAX_EOMS,      (* EOMs sent for a message before giving up       *)
          OutDataSize,   (* most bytes the transmitter puts in a packet    *)
          QueueSize,     (* bound: packets on their way                    *)
          MaxLosses,     (* bound: packets lost                            *)
          Patient,       (* timers outlast answers, all gaps are asked for:*)
                         (* SendNAK's limits are no less than a message    *)
          LinkFaults     (* a subset of AllLinkFaults                      *)

(* "stop": a daemon ends in good order.  "kill": the transmitting daemon   *)
(* dies.  "cancel": an operator removes the command file of a message, or  *)
(* its file cannot be read.                                                *)
AllLinkFaults == {"stop", "kill", "cancel"}

ASSUME LinkAssumption ==
  /\ InitDataCount \in Nat /\ MAX_EOMS \in Nat \ {0} /\ OutDataSize \in 1 .. MaxPkt
  /\ QueueSize \in Nat \ {0} /\ MaxLosses \in Nat /\ Patient \in BOOLEAN
  /\ Patient => MsgSize <= MAXNAKSIZE * MaxNAKs
  /\ LinkFaults \subseteq AllLinkFaults
  /\ IsFiniteSet(Msgs)

VARIABLES
  (* the writer process *)
  writing,   (* running, and synchronised with the other end               *)
  has,       (* the channel has a message, tmsg (ch_msgid is not empty)    *)
  outstate,  (* ch_state                                                   *)
  outaddr,   (* ch_msgaddr                                                 *)
  eof,       (* CH_EOF                                                     *)
  count,     (* ch_count: data to be sent ahead, or EOMs left              *)
  somdue,    (* ch_cntrltime is 0: a SOM comes before anything else        *)
  (* its file system *)
  queue,     (* command files, in the order they are taken                 *)
  outsaved,  (* the channel's part of the writer's status file             *)
  (* the circuit *)
  circuit,   (* there is one                                               *)
  fwd, back, (* packets on their way                                       *)
  losses,
  (* history *)
  mixed,     (* messages with a byte of another message in their file      *)
  canceled

outVars  == <<writing, has, outstate, outaddr, eof, count, somdue, queue, outsaved>>
wireVars == <<circuit, fwd, back, losses>>
linkVars == <<vars, outVars, wireVars, mixed, canceled>>

SOM(m)        == [type |-> "SOM", id |-> m, addr |-> MsgSize, len |-> 0]
DATA(m, a, n) == [type |-> "DATA", id |-> m, addr |-> a, len |-> n]
EOM(m)        == [type |-> "EOM", id |-> m, addr |-> MsgSize, len |-> 0]
MQE           == [type |-> "MQE", id |-> NoMsg, addr |-> 0, len |-> 0]

LinkInit ==
  /\ Init
  /\ queue \in [1 .. Cardinality(Msgs) -> Msgs]
  /\ \A i, j \in DOMAIN queue : queue[i] = queue[j] => i = j
  /\ tmsg = Head(queue)
  /\ writing = TRUE /\ has = FALSE /\ outstate = "IDLE" /\ outaddr = 0
  /\ eof = FALSE /\ count = 0 /\ somdue = FALSE
  /\ outsaved = [id |-> NoMsg, addr |-> 0]
  /\ circuit = TRUE /\ fwd = <<>> /\ back = <<>> /\ losses = 0
  /\ mixed = {} /\ canceled = {}

-----------------------------------------------------------------------------
(* The transmitter.  It blocks when the circuit takes no more, and its     *)
(* timers go off at any time, unless they are patient.                     *)

Sending == writing /\ circuit /\ Len(fwd) < QueueSize
Send(p) == fwd' = Append(fwd, p) /\ UNCHANGED <<circuit, back, losses>>

(* Write_Status of the writer.                                             *)
SaveOut == outsaved' = [id |-> IF has' THEN tmsg' ELSE NoMsg, addr |-> outaddr']

(* What the receiver's module sees of most steps of the transmitter.       *)
Quiet == UNCHANGED <<vars, mixed, canceled>>

Timer == Patient => fwd = <<>> /\ back = <<>> /\ pc = "ready"

StartMessage ==
  /\ outstate' = "STARTING" /\ eof' = FALSE
  /\ count' = IF outaddr' = 0 THEN InitDataCount ELSE 0

(* Wrong: a command file is removed for a message that has none.           *)
CleanUpAny ==
  /\ writing /\ outstate \in {"IDLE", "ENDED"} /\ has
  /\ queue' = Tail(queue)
  /\ has' = FALSE
  /\ Quiet /\ UNCHANGED <<writing, outstate, outaddr, eof, count, somdue, outsaved, wireVars>>

(* FindMessage unlinks the command file of a message that was acknowledged *)
(* ...                                                                     *)
CleanUp ==
  /\ writing /\ outstate \in {"IDLE", "ENDED"} /\ has
  /\ queue' = IF tmsg \in canceled THEN queue ELSE Tail(queue)
  /\ has' = FALSE
  /\ Quiet /\ UNCHANGED <<writing, outstate, outaddr, eof, count, somdue, outsaved, wireVars>>

(* ... and takes another.                                                  *)
FindMessage ==
  /\ Sending /\ outstate \in {"IDLE", "ENDED"} /\ ~has
  /\ queue # <<>>
  /\ has' = TRUE /\ tmsg' = Head(queue)
  /\ somad' = (somad /\ tmsg' = tmsg)
  /\ outaddr' = 0 /\ StartMessage /\ somdue' = FALSE
  /\ Send(SOM(tmsg')) /\ SaveOut
  /\ UNCHANGED <<readVars, saved, fileVars, routVars, histVars, writing, queue, mixed, canceled>>

(* Wrong: sent while messages wait.                                        *)
SendMQEWhileWaiting ==
  /\ Sending /\ ~has /\ fwd = <<>>
  /\ Send(MQE)
  /\ Quiet /\ UNCHANGED outVars

(* All channels are empty.                                                 *)
SendMQE ==
  /\ Sending /\ ~has /\ queue = <<>> /\ fwd = <<>>
  /\ Send(MQE)
  /\ Quiet /\ UNCHANGED outVars

(* What ReadData gives of n bytes at a.                                    *)
Size(a, n) == IF a + n > MsgSize THEN MsgSize - a ELSE n

SendData ==
  /\ Send(DATA(tmsg, outaddr, Size(outaddr, OutDataSize)))
  /\ outaddr' = outaddr + Size(outaddr, OutDataSize)
  /\ eof' = (outaddr' = MsgSize)

(* Wrong: not repeated.                                                    *)
SendSOMOnce ==
  /\ Sending /\ outstate = "STARTING"
  /\ somdue /\ somdue' = FALSE
  /\ Send(SOM(tmsg))
  /\ Quiet /\ UNCHANGED <<writing, has, outstate, outaddr, eof, count, queue, outsaved>>

SendSOM ==
  /\ Sending /\ outstate = "STARTING"
  /\ somdue \/ Timer
  /\ somdue' = FALSE
  /\ Send(SOM(tmsg))
  /\ Quiet /\ UNCHANGED <<writing, has, outstate, outaddr, eof, count, queue, outsaved>>

SendAhead ==
  /\ Sending /\ outstate = "STARTING" /\ ~somdue /\ count > 0
  /\ count' = count - 1
  /\ IF eof THEN UNCHANGED <<outaddr, eof, wireVars>> ELSE SendData
  /\ Quiet /\ UNCHANGED <<writing, has, outstate, somdue, queue, outsaved>>

SendNext ==
  /\ Sending /\ outstate = "ACTIVE" /\ ~eof
  /\ SendData
  /\ Quiet /\ UNCHANGED <<writing, has, outstate, count, somdue, queue, outsaved>>

(* Wrong: the message is done with when its end is sent.                   *)
FirstEOMDone ==
  /\ Sending /\ outstate = "ACTIVE" /\ eof /\ Quiet
  /\ outstate' = "IDLE" /\ eof' = FALSE /\ count' = MAX_EOMS - 1
  /\ UNCHANGED <<writing, has, outaddr, somdue, queue>>
  /\ Send(EOM(tmsg)) /\ SaveOut

FirstEOM ==
  /\ Sending /\ outstate = "ACTIVE" /\ eof /\ Quiet
  /\ outstate' = "ENDING" /\ eof' = FALSE /\ count' = MAX_EOMS - 1
  /\ UNCHANGED <<writing, has, outaddr, somdue, queue>>
  /\ Send(EOM(tmsg)) /\ SaveOut

RepeatEOM ==
  /\ Sending /\ outstate = "ENDING" /\ Timer /\ count > 0
  /\ count' = count - 1
  /\ Send(EOM(tmsg))
  /\ Quiet /\ UNCHANGED <<writing, has, outstate, outaddr, eof, somdue, queue, outsaved>>

Receiving(p) == writing /\ circuit /\ back # <<>> /\ p = Head(back)
Received == back' = Tail(back) /\ UNCHANGED <<circuit, fwd, losses>>
Mine(p) == has /\ p.id = tmsg

(* Wrong: any message's acknowledgement will do.                           *)
RecvEOMAAny(p) ==
  /\ p.type = "EOMA" /\ Receiving(p) /\ Received /\ Quiet
  /\ UNCHANGED <<writing, has, outaddr, eof, count, somdue, queue>>
  /\ outstate' = "IDLE" /\ SaveOut

RecvEOMA(p) ==
  /\ p.type = "EOMA" /\ Receiving(p) /\ Received /\ Quiet
  /\ UNCHANGED <<writing, has, outaddr, eof, count, somdue, queue>>
  /\ IF Mine(p) THEN outstate' = "IDLE" /\ SaveOut ELSE UNCHANGED <<outstate, outsaved>>

(* The message goes on at the address the receiver names, unless that is   *)
(* 0; if all of it was sent, its end follows.                              *)
RecvSOMA(p) ==
  /\ p.type = "SOMA" /\ Receiving(p) /\ Quiet
  /\ \/ /\ ~Mine(p)
        /\ Received /\ UNCHANGED outVars
     \/ /\ Mine(p)
        /\ outaddr' = IF p.addr # 0 THEN p.addr ELSE outaddr
        /\ IF outaddr' < MsgSize
           THEN /\ outstate' = "ACTIVE" /\ eof' = FALSE /\ Received /\ UNCHANGED count
           ELSE /\ outstate' = "ENDING" /\ count' = MAX_EOMS - 1 /\ UNCHANGED eof
                /\ back' = Tail(back) /\ fwd' = Append(fwd, EOM(tmsg))
                /\ UNCHANGED <<circuit, losses>>
        /\ UNCHANGED <<writing, has, somdue, queue>> /\ SaveOut

(* The packets that carry a .. a+n-1 again.                                *)
Chunks(a, n) ==
  LET size == IF OutDataSize > n THEN n ELSE OutDataSize
      k    == (n + size - 1) \div size
  IN  [i \in 1 .. k |-> DATA(tmsg, a + (i - 1) * size, Size(a + (i - 1) * size, size))]

(* Wrong: not heeded any more once the end has been sent.                  *)
RecvNAKActive(p) ==
  /\ p.type = "NAK" /\ Receiving(p)
  /\ IF outstate # "ACTIVE" \/ outaddr < p.addr
     THEN Received
     ELSE back' = Tail(back) /\ fwd' = fwd \o Chunks(p.addr, p.len) /\ UNCHANGED <<circuit, losses>>
  /\ Quiet /\ UNCHANGED outVars

RecvNAK(p) ==
  /\ p.type = "NAK" /\ Receiving(p)
  /\ IF outstate \in {"IDLE", "ENDED"} \/ outaddr < p.addr
     THEN Received /\ UNCHANGED outVars
     ELSE IF p.len = MsgSize
     THEN /\ outstate' = "ACTIVE" /\ outaddr' = p.addr /\ eof' = FALSE
          /\ Received /\ UNCHANGED <<writing, has, count, somdue, queue, outsaved>>
     ELSE /\ back' = Tail(back) /\ fwd' = fwd \o Chunks(p.addr, p.len)
          /\ UNCHANGED <<outVars, circuit, losses>>
  /\ Quiet

-----------------------------------------------------------------------------
(* The circuit delivers the oldest packet, or loses it.  The reader does   *)
(* not take one while there is no room for its answers.                    *)

Orders(S) == {s \in [1 .. Cardinality(S) -> S] : S \subseteq {s[i] : i \in DOMAIN s}}

Arrived(p) ==
  /\ circuit /\ Reading /\ fwd # <<>> /\ Head(fwd) = p
  /\ Len(back) < QueueSize
  /\ fwd' = Tail(fwd)
  /\ UNCHANGED <<outVars, circuit, losses, canceled>>

(* A handler's answers go out in some order.                               *)
Answered == \E s \in Orders(reply') : back' = back \o s

DeliverSOM(m) ==
  /\ Arrived(SOM(m))
  /\ SOMAgain(m) \/ SOMRepeated(m) \/ SOMResumed(m) \/ SOMNoFile(m) \/ SOMNew(m)
  /\ Answered /\ UNCHANGED mixed

DeliverDATA(p) ==
  /\ p.type = "DATA" /\ Arrived(p)
  /\ \/ /\ \/ DuplicateData(p.addr, p.len) \/ FillingData(p.addr, p.len)
           \/ NextData(p.addr, p.len) \/ AheadData(p.addr, p.len)
        /\ Answered
        /\ mixed' = IF p.id = chan.msgid THEN mixed ELSE mixed \cup {chan.msgid}
     \/ ~Assembling /\ UNCHANGED <<vars, back, mixed>>

(* NAKGaps asks for every gap at a second EOM, as much of it as SendNAK    *)
(* does, if the measured data rate allows that many bytes.                 *)
AllAskedFor ==
  Patient /\ (chan.state = "ENDING" \/ msgaddr = 0) =>
    UNION {SendNAK(r[1], r[2]) : r \in Runs(gaps')} \subseteq reply'

DeliverEOM(m) ==
  /\ Arrived(EOM(m)) /\ UNCHANGED mixed
  /\ \/ EOMAgain(m) /\ Answered
     \/ (EOMOfNothing(m) \/ EOMOfSome(m)) /\ AllAskedFor /\ Answered
     \/ (~MessageOf(m) \/ chan.state = "IDLE") /\ UNCHANGED <<vars, back>>

DeliverMQE ==
  /\ Arrived(MQE) /\ RecvRMQE /\ UNCHANGED <<back, mixed>>

Acknowledge ==
  /\ SendEOMA
  /\ back' = IF circuit THEN Append(back, EOMA(chan.msgid)) ELSE back
  /\ UNCHANGED <<outVars, circuit, fwd, losses, mixed, canceled>>

Lose ==
  /\ losses < MaxLosses /\ losses' = losses + 1
  /\ \/ fwd # <<>> /\ fwd' = Tail(fwd) /\ UNCHANGED back
     \/ back # <<>> /\ back' = Tail(back) /\ UNCHANGED fwd
  /\ Quiet /\ UNCHANGED <<outVars, circuit>>

-----------------------------------------------------------------------------
(* Ends and beginnings.                                                    *)

Cut == circuit' = FALSE /\ fwd' = <<>> /\ back' = <<>> /\ UNCHANGED losses

ReceiverStops ==
  /\ Stop \/ ErrorExit
  /\ Cut /\ UNCHANGED <<outVars, mixed, canceled>>

(* finish() saves the status.                                              *)
TransmitterStops ==
  /\ writing /\ writing' = FALSE
  /\ Cut /\ Quiet
  /\ UNCHANGED <<has, outstate, outaddr, eof, count, somdue, queue>>
  /\ SaveOut

(* When one end has gone, so has the circuit, and the other end follows.   *)
HangUp == ~circuit /\ (ReceiverStops \/ TransmitterStops)

MayFail == circuit /\ lives < MaxLives

Break == "stop" \in LinkFaults /\ MayFail /\ (ReceiverStops \/ TransmitterStops)

TooManyEOMs ==
  /\ circuit /\ outstate = "ENDING" /\ Timer /\ count = 0
  /\ TransmitterStops

(* A handler of the receiver cannot write to the writer, and ends with it. *)
ReceiverFails ==
  /\ \/ /\ circuit /\ fwd # <<>>
        /\ \/ \E m \in Msgs : Head(fwd) = SOM(m) /\ ExitCreating(m)
           \/ Head(fwd).type \in {"DATA", "EOM"} /\ ExitNAKing
     \/ ExitPassing
  /\ Cut /\ UNCHANGED <<outVars, mixed, canceled>>

KillReceiver ==
  /\ Kill
  /\ Cut /\ UNCHANGED <<outVars, mixed, canceled>>

(* Its status file was written at the last change of state, or later by    *)
(* the clock.                                                              *)
KillTransmitter ==
  /\ "kill" \in LinkFaults /\ MayFail
  /\ writing /\ writing' = FALSE
  /\ Cut /\ Quiet
  /\ UNCHANGED <<has, outstate, outaddr, eof, count, somdue, queue>>
  /\ SaveOut \/ UNCHANGED outsaved

(* Wrong: an interrupted message goes on without a SOM.                    *)
ConnectActive ==
  /\ ~writing /\ Restart
  /\ writing' = TRUE /\ circuit' = TRUE
  /\ IF queue # <<>> /\ outsaved.id = Head(queue)
     THEN has' = TRUE /\ outstate' = "ACTIVE" /\ outaddr' = outsaved.addr
     ELSE has' = FALSE /\ outstate' = "IDLE" /\ outaddr' = 0
  /\ count' = 0 /\ somdue' = FALSE
  /\ eof' = (outaddr' = MsgSize) /\ SaveOut
  /\ UNCHANGED <<queue, fwd, back, losses, mixed, canceled>>

(* Both ends have been started again: InitStatus.                          *)
Connect ==
  /\ ~writing /\ Restart
  /\ writing' = TRUE /\ circuit' = TRUE
  /\ IF queue # <<>> /\ outsaved.id = Head(queue)
     THEN has' = TRUE /\ outaddr' = outsaved.addr /\ StartMessage /\ somdue' = TRUE
     ELSE /\ has' = FALSE /\ outstate' = "IDLE" /\ outaddr' = 0
          /\ count' = 0 /\ somdue' = FALSE /\ eof' = FALSE
  /\ SaveOut
  /\ UNCHANGED <<queue, fwd, back, losses, mixed, canceled>>

(* BadMesg: the command file of the message has been removed (checkactive  *)
(* finds out when another channel looks for work), or its file cannot be   *)
(* read.                                                                   *)
Cancel ==
  /\ "cancel" \in LinkFaults
  /\ writing /\ has /\ tmsg \notin canceled
  /\ outstate' = "ENDED"
  /\ queue' = Tail(queue)
  /\ canceled' = canceled \cup {tmsg}
  /\ UNCHANGED <<vars, writing, has, outaddr, eof, count, somdue, outsaved,
                 wireVars, mixed>>

Finish ==
  /\ EndMesgDone
  /\ UNCHANGED <<outVars, wireVars, mixed, canceled>>

Elsewhere ==
  /\ RouterTakes \/ Flush \/ Checkpoint
  /\ UNCHANGED <<outVars, wireVars, mixed, canceled>>

Transmit ==
  \/ CleanUp \/ FindMessage
  \/ SendSOM \/ SendAhead \/ SendNext \/ FirstEOM \/ RepeatEOM

Answers == \E p \in {back[i] : i \in DOMAIN back} : RecvEOMA(p) \/ RecvSOMA(p) \/ RecvNAK(p)

Delivery ==
  \/ \E m \in Msgs : DeliverSOM(m) \/ DeliverEOM(m)
  \/ \E p \in {fwd[i] : i \in DOMAIN fwd} : DeliverDATA(p)
  \/ DeliverMQE

LinkNext ==
  \/ Transmit \/ SendMQE \/ Answers
  \/ Delivery \/ Acknowledge \/ Lose
  \/ Break \/ TooManyEOMs \/ ReceiverFails \/ KillReceiver \/ KillTransmitter \/ HangUp \/ Connect
  \/ Cancel \/ Finish \/ Elsewhere

LinkSpec == LinkInit /\ [][LinkNext]_linkVars

(* The writer and the reader are scheduled, the circuit delivers what it   *)
(* does not lose, and the supervisor starts daemons again.                 *)
Fairness ==
  /\ WF_linkVars(Transmit) /\ WF_linkVars(Answers) /\ WF_linkVars(Delivery)
  /\ WF_linkVars(Acknowledge) /\ WF_linkVars(Finish)
  /\ WF_linkVars(HangUp) /\ WF_linkVars(Connect)

FairLinkSpec == LinkSpec /\ Fairness

-----------------------------------------------------------------------------
(* A message passed to the router has no byte of another in it, although   *)
(* DATA and NAK packets do not say which message they are of.              *)
NotMixed == \A i \in DOMAIN passed : passed[i].id \notin mixed

(* ``Unexpected EOM'' (receiver.c:407), which aborts all messages and ends  *)
(* the daemon, does not happen: no EOM finds its message still to be       *)
(* started, however the two ends were restarted.                           *)
NoUnexpectedEOM ==
  Reading /\ fwd # <<>> /\ Head(fwd).type = "EOM" /\ MessageOf(Head(fwd).id) =>
    chan.state # "STARTING"

(* A command file goes only when the other end has passed the message on,  *)
(* or somebody else removed it, or the other end could not write its SOMA. *)
Kept ==
  \A m \in Msgs :
    \/ m \in canceled \/ m \in halfway
    \/ \E i \in DOMAIN queue : queue[i] = m
    \/ \E i \in DOMAIN passed : passed[i].id = m

(* With patient timers, and gaps that one round of NAKs can ask for, a     *)
(* lost packet costs at most one EOM: the daemon does not end with ``Too   *)
(* many EOMs'' while MAX_EOMS is more than the packets lost.               *)
NeverGivesUp == ~(circuit /\ outstate = "ENDING" /\ count = 0 /\ Timer)

(* The transmitter and the circuit keep what VCReceiver assumes of them.   *)
KeepsReceiverSpec == Spec

(* If the receiver ends between two handlers only, its status saved, the   *)
(* link is HandOver: every message once and in order, whatever is lost,    *)
(* repeated or interrupted ...                                             *)
HO == INSTANCE HandOver
        WITH queued <- queue, received <- [i \in DOMAIN passed |-> passed[i].id]
HandsOver == HO!Spec

(* ... and, if the timers are patient, all of them in the end.             *)
HandsOverAll == HO!FairSpec
=============================================================================
