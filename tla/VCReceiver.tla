----------------------------- MODULE VCReceiver -----------------------------
(***************************************************************************)
(* One channel of the reader process of a link daemon (VCdaemon/           *)
(* receiver.c, gap.c, reader.c, status.c): it assembles a message from     *)
(* data packets in a file, asks for what is missing, passes the finished   *)
(* message to the router and acknowledges it, and keeps enough in its      *)
(* status file to go on with a half-received message in a later life.      *)
(*                                                                         *)
(* The environment is a transmitter that works at one message until it is  *)
(* acknowledged, an in-order circuit that loses packets, a router that     *)
(* takes the messages passed to it, and whatever stops the daemon.         *)
(* A file is the set of addresses whose byte it holds; a gap list is the   *)
(* set of addresses it covers (MCGaps checks that the lists of gap.c       *)
(* behave as sets); a call of WriteData is one step (WriteBuffer checks    *)
(* the steps inside it).                                                   *)
(***************************************************************************)
EXTENDS Integers, Sequences

CONSTANTS Msgs, NoMsg,    (* message ids; "no message yet"                 *)
          MsgSize,        (* bytes in a message                            *)
          FILEBUFFERSIZE, (* size of a file block                          *)
          MaxPkt,         (* most bytes in a packet                        *)
          MAXNAKSIZE,     (* most bytes one NAK asks for                   *)
          MaxNAKs,        (* most NAKs that one call of SendNAK sends      *)
          Faults,         (* what may go wrong, a subset of AllFaults      *)
          MaxLives        (* bound: how often the daemon is started        *)

(* "kill": the daemon dies between two handlers or inside EndMesg, its     *)
(* status not saved; "create": it dies inside Recv_SOM.  "error": Error()  *)
(* ends it, status saved, before a handler has changed anything.  "pipe":  *)
(* the writer has gone, or does not read, while a handler writes to it: the*)
(* daemon ends in the middle of the handler, and finish() saves the status *)
(* it has reached.  "echo": the circuit echoes.  "space": the spool file   *)
(* system fills up.  "slow": the measured data rate falls below one byte a *)
(* second.                                                                 *)
AllFaults == {"kill", "create", "error", "pipe", "echo", "space", "slow"}

ASSUME ReceiverAssumption ==
  /\ NoMsg \notin Msgs
  /\ MsgSize \in Nat \ {0} /\ FILEBUFFERSIZE \in Nat \ {0}
  /\ MaxPkt \in Nat \ {0} /\ MaxLives \in Nat
  /\ MAXNAKSIZE \in Nat \ {0} /\ MaxNAKs \in Nat \ {0}
  /\ Faults \subseteq AllFaults

Addr == 0 .. MsgSize - 1

VARIABLES
  (* the reader process *)
  up,        (* running, and synchronised with the other end               *)
  pc,        (* how far EndMesg has got                                    *)
  chan,      (* fields of Chan that survive in the status file             *)
  msgaddr,   (* ch_msgaddr: everything beyond has not been sent            *)
  open,      (* CH_MSGFILE                                                 *)
  bufstart, bufend,    (* the write buffer covers bufstart .. bufend-1     *)
  gaps,      (* ch_gaplist                                                 *)
  reply,     (* packets the last handler gave the writer to send           *)
  (* the file system *)
  saved,     (* the channel's part of the status file                      *)
  files,     (* messages that have a file                                  *)
  disk,      (* what each file holds                                       *)
  (* the router *)
  passed,    (* command files ever given to the router, in order           *)
  taken,     (* how many of them it has dealt with                         *)
  routed,    (* those it found a message file for, and what that lacked    *)
  (* the transmitter at the other end *)
  tmsg,      (* the message it works at                                    *)
  somad,     (* its start was acknowledged in this session                 *)
  (* history *)
  acked,     (* messages acknowledged by an EOMA                           *)
  halfway,   (* messages whose start ended the daemon, saved as received   *)
  resumed,   (* how often the current message's file was reopened          *)
  lives

readVars == <<up, pc, chan, msgaddr, open, bufstart, bufend, gaps, reply>>
fileVars == <<files, disk>>
routVars == <<passed, taken, routed>>
sendVars == <<tmsg, somad>>
histVars == <<acked, halfway, resumed, lives>>
vars == <<readVars, saved, fileVars, routVars, sendVars, histVars>>

Chans == [state : {"IDLE", "STARTING", "ACTIVE", "ENDING", "ENDED"},
          msgid : Msgs \cup {NoMsg}, goodaddr : 0 .. MsgSize, rdup : BOOLEAN]

Init ==
  /\ chan = [state |-> "IDLE", msgid |-> NoMsg, goodaddr |-> 0, rdup |-> FALSE]
  /\ saved = chan
  /\ up = TRUE /\ pc = "ready" /\ open = FALSE /\ msgaddr = 0
  /\ bufstart = 0 /\ bufend = 0 /\ gaps = {} /\ reply = {}
  /\ files = {} /\ disk = [m \in Msgs |-> {}]
  /\ passed = <<>> /\ taken = 0 /\ routed = {}
  /\ tmsg \in Msgs /\ somad = FALSE
  /\ acked = {} /\ halfway = {} /\ resumed = 0 /\ lives = 1

SOMA(m, a) == [type |-> "SOMA", id |-> m, addr |-> a, len |-> 0]
EOMA(m)    == [type |-> "EOMA", id |-> m, addr |-> MsgSize, len |-> 0]
NAK(a, n)  == [type |-> "NAK", id |-> NoMsg, addr |-> a, len |-> n]

Buffered == bufstart .. bufend - 1
Pkt(a, n) == a .. a + n - 1
Reading == up /\ pc = "ready"

-----------------------------------------------------------------------------
(* Gaps (gap.c).                                                           *)

(* The maximal runs of a set of addresses: the elements of the gap list.   *)
Runs(S) == {r \in Addr \X (1 .. MsgSize) :
              /\ Pkt(r[1], r[2]) \subseteq S
              /\ r[1] - 1 \notin S /\ r[1] + r[2] \notin S}

(* FillGap recomputes goodaddr when the packet cuts off a gap's start: it  *)
(* becomes the start of the first gap left, or the size of the message.    *)
FillGapGood(P, good) ==
  IF \E x \in gaps \cap P : x - 1 \notin gaps
  THEN IF gaps \ P = {} THEN MsgSize
       ELSE CHOOSE x \in gaps \ P : \A y \in gaps \ P : x <= y
  ELSE good

(* SendNAK, for n bytes at a: NAKs of limited size, and only so many of    *)
(* them, however long the gap is; but one for a whole message.             *)
SendNAK(a, n) ==
  IF n = MsgSize THEN {NAK(a, n)}
  ELSE {NAK(a + i * MAXNAKSIZE,
            IF n - i * MAXNAKSIZE < MAXNAKSIZE THEN n - i * MAXNAKSIZE ELSE MAXNAKSIZE) :
          i \in {j \in 0 .. MaxNAKs - 1 : j * MAXNAKSIZE < n}}

(* Wrong: goodaddr is not lowered.                                         *)
QueueGapKeepsGood(e) == chan.goodaddr

(* QueueGap, for the gap from ch_msgaddr to e.                             *)
QueueGapGood(e) == IF msgaddr < chan.goodaddr THEN msgaddr ELSE chan.goodaddr
QueueGapNAK(e)  == IF msgaddr .. e - 1 \subseteq gaps THEN {} ELSE SendNAK(msgaddr, e - msgaddr)

(* NAKGaps, with a budget: any of the gaps is NAKed, those that were not   *)
(* for this EOM or whose last NAK timed out.                               *)
SomeNAKs(S) == {UNION {SendNAK(r[1], r[2]) : r \in R} : R \in SUBSET Runs(S)}

-----------------------------------------------------------------------------
(* WriteData (bufferio.c) in one step: what goes to the file, and the new  *)
(* buffer.                                                                 *)
BlockEnd(a) == (a \div FILEBUFFERSIZE) * FILEBUFFERSIZE + FILEBUFFERSIZE
BlockOf(a)  == (a \div FILEBUFFERSIZE) * FILEBUFFERSIZE

(* Where the buffer starts after the packet is buffered.                   *)
NewStart(a, n) ==
  LET start == IF a > bufend THEN a ELSE bufstart
  IN  IF a + n > BlockEnd(start) THEN BlockOf(a + n - 1) ELSE start

Written(S) == disk' = [disk EXCEPT ![chan.msgid] = IF chan.msgid \in files THEN @ \cup S ELSE @]

WriteBig(a, n) ==
  /\ n > FILEBUFFERSIZE \div 2 /\ a >= bufend
  /\ Written(Buffered \cup Pkt(a, n))
  /\ bufstart' = a + n /\ bufend' = a + n

WriteBelow(a, n) ==
  /\ ~(n > FILEBUFFERSIZE \div 2 /\ a >= bufend)
  /\ a + n <= bufstart
  /\ Written(Pkt(a, n))
  /\ UNCHANGED <<bufstart, bufend>>

WriteBuffered(a, n) ==
  /\ ~(n > FILEBUFFERSIZE \div 2 /\ a >= bufend)
  /\ a + n > bufstart
  /\ Written({x \in Buffered \cup Pkt(a, n) : x < NewStart(a, n)})
  /\ bufstart' = NewStart(a, n)
  /\ bufend' = IF a + n > bufend THEN a + n ELSE bufend

WriteData(a, n) == WriteBig(a, n) \/ WriteBelow(a, n) \/ WriteBuffered(a, n)

FlushWData == Written(Buffered) /\ bufstart' = bufend /\ UNCHANGED bufend

-----------------------------------------------------------------------------
(* Data packets (RecvData).                                                *)

Assembling == chan.state \in {"ACTIVE", "ENDING"}

(* Wrong: the message file stays open.                                     *)
PassMessageKeepsOpen(c) ==
  /\ UNCHANGED open
  /\ pc' = "passed"
  /\ passed' = Append(passed, [id |-> c.msgid, dup |-> c.rdup, resumed |-> resumed])

(* EndMesg (receiver.c:118): flush, close, hand over to the router.  The   *)
(* EOMA and the status file follow in steps of their own.  c is the        *)
(* channel as it is when EndMesg is called.                                *)
PassMessage(c) ==
  /\ open' = FALSE
  /\ pc' = "passed"
  /\ passed' = Append(passed, [id |-> c.msgid, dup |-> c.rdup, resumed |-> resumed])

Stay == UNCHANGED <<saved, files, taken, routed, sendVars, histVars, up>>

(* Data that was already there: no gap touched, nothing new.               *)
DuplicateData(a, n) ==
  /\ Reading /\ Assembling
  /\ a + n <= msgaddr /\ gaps \cap Pkt(a, n) = {}
  /\ reply' = {}
  /\ Stay /\ UNCHANGED <<pc, chan, msgaddr, open, bufstart, bufend, gaps, disk, passed>>

(* Data below ch_msgaddr that fills a gap; the last one of a message whose *)
(* end was seen ends it.                                                   *)
FillingData(a, n) ==
  LET P == Pkt(a, n) IN
  /\ Reading /\ Assembling /\ open
  /\ a < msgaddr
  /\ gaps \cap P # {} \/ msgaddr < a + n
  /\ gaps' = gaps \ P
  /\ chan' = [chan EXCEPT !.goodaddr = FillGapGood(P, @)]
  /\ msgaddr' = IF msgaddr < a + n THEN a + n ELSE msgaddr
  /\ reply' = {}
  /\ IF chan.state = "ENDING" /\ gaps' = {}
     THEN /\ Written(Buffered \cup P)
          /\ bufend' = IF a + n > bufend THEN a + n ELSE bufend
          /\ bufstart' = bufend'
          /\ PassMessage(chan)
     ELSE /\ WriteData(a, n)
          /\ UNCHANGED <<open, pc, passed>>
  /\ Stay

(* Data at ch_msgaddr.  Now and then gaps are NAKed again.                 *)
NextData(a, n) ==
  LET P == Pkt(a, n) IN
  /\ Reading /\ Assembling /\ open
  /\ a = msgaddr
  /\ IF gaps = {}
     THEN chan' = [chan EXCEPT !.goodaddr = IF @ < a THEN a ELSE @]
     ELSE chan' = [chan EXCEPT !.goodaddr = FillGapGood(P, @)]
  /\ gaps' = gaps \ P
  /\ reply' \in SomeNAKs(gaps')
  /\ WriteData(a, n)
  /\ msgaddr' = a + n
  /\ Stay /\ UNCHANGED <<pc, open, passed>>

(* Wrong: the status is not saved when goodaddr drops.                     *)
AheadDataUnsaved(a, n) ==
  /\ Reading /\ Assembling /\ open
  /\ a > msgaddr
  /\ gaps' = gaps \cup (msgaddr .. a - 1)
  /\ chan' = [chan EXCEPT !.goodaddr = QueueGapGood(a)]
  /\ UNCHANGED saved
  /\ \E R \in SomeNAKs(gaps') : reply' = QueueGapNAK(a) \cup R
  /\ WriteData(a, n)
  /\ msgaddr' = a + n
  /\ UNCHANGED <<up, pc, open, passed, files, taken, routed, sendVars, histVars>>

(* Data beyond ch_msgaddr: what is between is missing, and NAKed.          *)
AheadData(a, n) ==
  /\ Reading /\ Assembling /\ open
  /\ a > msgaddr
  /\ gaps' = gaps \cup (msgaddr .. a - 1)
  /\ chan' = [chan EXCEPT !.goodaddr = QueueGapGood(a)]
  /\ saved' = IF chan' = chan THEN saved ELSE chan'
  /\ \E R \in SomeNAKs(gaps') : reply' = QueueGapNAK(a) \cup R
  /\ WriteData(a, n)
  /\ msgaddr' = a + n
  /\ UNCHANGED <<up, pc, open, passed, files, taken, routed, sendVars, histVars>>

(* No room for the data: it is dropped.  The first time the status is      *)
(* saved, and CH_LOWSPACE keeps the report from being repeated.            *)
DroppedData ==
  /\ "space" \in Faults
  /\ Reading /\ Assembling
  /\ saved' \in {saved, chan}
  /\ reply' = {}
  /\ UNCHANGED <<up, pc, chan, msgaddr, open, bufstart, bufend, gaps,
                 fileVars, routVars, sendVars, histVars>>

RecvData(a, n) ==
  /\ a + n <= MsgSize
  /\ \/ DuplicateData(a, n) \/ FillingData(a, n) \/ NextData(a, n) \/ AheadData(a, n)
     \/ DroppedData

-----------------------------------------------------------------------------
(* The rest of EndMesg.                                                    *)

SendEOMA ==
  /\ up /\ pc = "passed"
  /\ pc' = "acked"
  /\ reply' = {EOMA(chan.msgid)}
  /\ acked' = acked \cup {chan.msgid}
  /\ UNCHANGED <<up, chan, msgaddr, open, bufstart, bufend, gaps, saved,
                 fileVars, routVars, sendVars, halfway, resumed, lives>>

EndMesgDone ==
  /\ up /\ pc = "acked"
  /\ pc' = "ready"
  /\ chan' = [chan EXCEPT !.state = "ENDED", !.rdup = FALSE]
  /\ saved' = chan'
  /\ reply' = {}
  /\ UNCHANGED <<up, msgaddr, open, bufstart, bufend, gaps,
                 fileVars, routVars, sendVars, histVars>>

-----------------------------------------------------------------------------
(* End of message (Recv_EOM).  The transmitter sends it only after a SOMA. *)

MessageOf(m) == chan.msgid = m

(* The message was already received: its EOMA got lost.                    *)
EOMAgain(m) ==
  /\ Reading /\ MessageOf(m) /\ chan.state = "ENDED"
  /\ reply' = {EOMA(m)} /\ acked' = acked \cup {m}
  /\ UNCHANGED <<up, pc, chan, msgaddr, open, bufstart, bufend, gaps, saved,
                 fileVars, routVars, sendVars, halfway, resumed, lives>>

(* Nothing of the message has arrived but its end: all of it is missing.   *)
EOMOfNothing(m) ==
  /\ Reading /\ MessageOf(m) /\ Assembling
  /\ msgaddr = 0
  /\ gaps' = Addr
  /\ chan' = [chan EXCEPT !.goodaddr = 0]
  /\ saved' = IF chan' = chan THEN saved ELSE chan'
  /\ reply' \in {{NAK(0, MsgSize)}} \cup (IF gaps = Addr THEN {{}} ELSE {})
  /\ UNCHANGED <<up, pc, msgaddr, open, bufstart, bufend,
                 fileVars, routVars, sendVars, histVars>>

(* NAK what is missing; if the walk of the gap list finds nothing to       *)
(* count, because there is no gap or no budget, the message has ended.     *)
EOMOfSome(m) ==
  LET tail == msgaddr .. MsgSize - 1
      good == IF tail = {} THEN chan.goodaddr ELSE QueueGapGood(MsgSize)
      c    == [chan EXCEPT !.goodaddr = good, !.state = "ENDING"]
  IN
  /\ Reading /\ MessageOf(m) /\ Assembling /\ open
  /\ msgaddr > 0
  /\ gaps' = gaps \cup tail
  /\ msgaddr' = MsgSize
  /\ chan' = c
  /\ saved' = IF good = chan.goodaddr THEN saved ELSE [chan EXCEPT !.goodaddr = good]
  /\ \/ /\ gaps' # {}
        /\ reply' \in {R \cup (IF tail = {} THEN {} ELSE QueueGapNAK(MsgSize)) : R \in SomeNAKs(gaps')}
        /\ UNCHANGED <<pc, open, bufstart, bufend, disk, passed>>
     \/ /\ gaps' = {} \/ "slow" \in Faults
        /\ reply' = IF tail = {} THEN {} ELSE QueueGapNAK(MsgSize)
        /\ FlushWData
        /\ PassMessage(c)
  /\ UNCHANGED <<up, files, taken, routed, sendVars, histVars>>

(* AbortInMesgs: drop the message, whatever its state.  c and f are the    *)
(* channel and the files afterwards.                                       *)
Abort(c, f) ==
  /\ f = IF open THEN files \ {chan.msgid} ELSE files
  /\ c = IF chan.state \in {"ENDED", "IDLE"} THEN chan
         ELSE [chan EXCEPT !.state = "ENDED", !.goodaddr = 0]

(* The daemon is down: the buffer and the circuit's packets are gone.      *)
Down ==
  /\ up' = FALSE /\ pc' = "ready" /\ open' = FALSE /\ gaps' = {} /\ reply' = {}
  /\ msgaddr' = 0 /\ bufstart' = 0 /\ bufend' = 0
  /\ somad' = FALSE

(* An end where a start was refused or is still awaited: abort and die.    *)
EOMWhileStarting(m) ==
  /\ Reading /\ MessageOf(m) /\ chan.state = "STARTING"
  /\ \E f \in SUBSET files : Abort(chan', f) /\ files' = f
  /\ saved' = chan'
  /\ Down
  /\ UNCHANGED <<disk, routVars, tmsg, histVars>>

(* The transmitter repeats an EOM; the last may arrive when it has seen    *)
(* the EOMA and gone on to another message.                                *)
RecvEOM(m) ==
  \/ m \in acked /\ EOMAgain(m)
  \/ /\ m = tmsg /\ somad
     /\ EOMAgain(m) \/ EOMOfNothing(m) \/ EOMOfSome(m) \/ EOMWhileStarting(m)

-----------------------------------------------------------------------------
(* Start of message (Recv_SOM).                                            *)

(* Wrong: a message still being received counts as received.               *)
SOMAgainAnyState(m) ==
  /\ Reading /\ MessageOf(m)
  /\ reply' = {EOMA(m)} /\ acked' = acked \cup {m}
  /\ UNCHANGED <<up, pc, chan, msgaddr, open, bufstart, bufend, gaps, saved,
                 fileVars, routVars, sendVars, halfway, resumed, lives>>

(* The message was already received.                                       *)
SOMAgain(m) ==
  /\ Reading /\ MessageOf(m) /\ chan.state = "ENDED"
  /\ reply' = {EOMA(m)} /\ acked' = acked \cup {m}
  /\ UNCHANGED <<up, pc, chan, msgaddr, open, bufstart, bufend, gaps, saved,
                 fileVars, routVars, sendVars, halfway, resumed, lives>>

(* Answer with the address to go on from, unless there is no room for the  *)
(* rest.  c is the channel as set up so far.                               *)
Answer(c, at) ==
  \/ /\ chan' = [c EXCEPT !.state = "ACTIVE"]
     /\ saved' = chan'
     /\ reply' = {SOMA(c.msgid, at)}
     /\ somad' = TRUE
  \/ /\ "space" \in Faults
     /\ chan' = [c EXCEPT !.state = "STARTING"]
     /\ saved' \in {saved, chan'}
     /\ reply' = {}
     /\ UNCHANGED somad

(* Wrong: a repeated start forgets the gaps.                               *)
SOMRepeatedFlushesGaps(m) ==
  /\ Reading /\ MessageOf(m) /\ chan.state # "ENDED" /\ open
  /\ gaps' = {}
  /\ Answer(chan, msgaddr)
  /\ UNCHANGED <<up, pc, msgaddr, open, bufstart, bufend,
                 fileVars, routVars, tmsg, histVars>>

(* The message is being received: the SOMA got lost.                       *)
SOMRepeated(m) ==
  /\ Reading /\ MessageOf(m) /\ chan.state # "ENDED" /\ open
  /\ Answer(chan, msgaddr)
  /\ UNCHANGED <<up, pc, msgaddr, open, bufstart, bufend, gaps,
                 fileVars, routVars, tmsg, histVars>>

(* A message of an earlier life: go on at the end of its file, or at       *)
(* ch_goodaddr if that comes first.                                        *)
Length(n, m) == (\A x \in disk[m] : x < n) /\ (n = 0 \/ n - 1 \in disk[m])

(* Wrong: a resumed message goes on at the end of its file.                *)
SOMResumedAtEnd(m) ==
  /\ Reading /\ MessageOf(m) /\ chan.state # "ENDED" /\ ~open
  /\ m \in files
  /\ open' = TRUE
  /\ \E len \in 0 .. MsgSize :
       /\ Length(len, m)
       /\ msgaddr' = len
  /\ bufstart' = msgaddr' /\ bufend' = msgaddr'
  /\ gaps' = {}
  /\ Answer(chan, msgaddr')
  /\ resumed' = resumed + 1
  /\ UNCHANGED <<up, pc, fileVars, routVars, tmsg, acked, halfway, lives>>

SOMResumed(m) ==
  /\ Reading /\ MessageOf(m) /\ chan.state # "ENDED" /\ ~open
  /\ m \in files
  /\ open' = TRUE
  /\ \E len \in 0 .. MsgSize :
       /\ Length(len, m)
       /\ msgaddr' = IF len > chan.goodaddr THEN chan.goodaddr ELSE len
  /\ bufstart' = msgaddr' /\ bufend' = msgaddr'
  /\ gaps' = {}
  /\ Answer(chan, msgaddr')
  /\ resumed' = resumed + 1
  /\ UNCHANGED <<up, pc, fileVars, routVars, tmsg, acked, halfway, lives>>

(* A new file for message m.  f are the files before it is made.           *)
NewFile(m, f, c) ==
  /\ files' = f \cup {m}
  /\ disk' = [disk EXCEPT ![m] = {}]
  /\ open' = TRUE
  /\ msgaddr' = 0 /\ bufstart' = 0 /\ bufend' = 0 /\ gaps' = {}
  /\ Answer([c EXCEPT !.msgid = m, !.goodaddr = MsgSize], 0)
  /\ resumed' = 0
  /\ UNCHANGED <<up, pc, routVars, tmsg, acked, halfway, lives>>

(* Wrong: a received message is taken again if its file is gone.           *)
SOMNoFileEnded(m) ==
  /\ Reading /\ MessageOf(m) /\ ~open
  /\ m \notin files
  /\ NewFile(m, files, [chan EXCEPT !.rdup = TRUE])

(* A message of an earlier life whose file is gone: perhaps it was passed  *)
(* to the router before the daemon died.  Take it again, marked.           *)
SOMNoFile(m) ==
  /\ Reading /\ MessageOf(m) /\ chan.state # "ENDED" /\ ~open
  /\ m \notin files
  /\ NewFile(m, files, [chan EXCEPT !.rdup = TRUE])

(* Another message: drop what was being received.                          *)
SOMNew(m) ==
  /\ Reading /\ ~MessageOf(m)
  /\ LET unfinished == open \/ chan.state \notin {"ENDED", "IDLE"}
     IN  NewFile(m, IF unfinished THEN files \ {chan.msgid} ELSE files, chan)

RecvSOM(m) ==
  /\ m = tmsg
  /\ SOMAgain(m) \/ SOMRepeated(m) \/ SOMResumed(m) \/ SOMNoFile(m) \/ SOMNew(m)

(* The other end has nothing more to send: abort what is still being       *)
(* received.                                                               *)
RecvRMQE ==
  /\ Reading
  /\ \E f \in SUBSET files : Abort(chan', f) /\ files' = f
  /\ saved' = IF chan' = chan THEN saved ELSE chan'
  /\ open' = FALSE /\ reply' = {}
  /\ UNCHANGED <<up, pc, msgaddr, bufstart, bufend, gaps, disk, routVars, sendVars, histVars>>

RecvMQE == tmsg \in acked /\ RecvRMQE

-----------------------------------------------------------------------------
(* The status file is also written for other channels and by the clock.    *)
Checkpoint ==
  /\ Reading /\ saved # chan
  /\ saved' = chan
  /\ UNCHANGED <<readVars, fileVars, routVars, sendVars, histVars>>

(* read_cleanup after an interrupted read.                                 *)
Flush ==
  /\ Reading /\ open /\ bufstart < bufend
  /\ FlushWData
  /\ reply' = {}
  /\ UNCHANGED <<up, pc, chan, msgaddr, open, gaps, saved, files, routVars, sendVars, histVars>>

(* An orderly end, at the circuit's: flush the buffers, save the status.   *)
Stop ==
  /\ Reading
  /\ IF open THEN Written(Buffered) ELSE UNCHANGED disk
  /\ saved' = chan
  /\ Down
  /\ UNCHANGED <<chan, files, routVars, tmsg, histVars>>

(* Error(), before a handler has changed anything, or a read or write that *)
(* fails there: finish() saves the status but does not flush.              *)
ErrorExit ==
  /\ "error" \in Faults
  /\ Reading
  /\ saved' = chan
  /\ Down
  /\ UNCHANGED <<chan, fileVars, routVars, tmsg, histVars>>

(* The daemon hears its own packets: abort everything and die.             *)
Echo ==
  /\ "echo" \in Faults
  /\ Reading
  /\ \E f \in SUBSET files : Abort(chan', f) /\ files' = f
  /\ saved' = chan'
  /\ Down
  /\ UNCHANGED <<disk, routVars, tmsg, histVars>>

Kill ==
  /\ "kill" \in Faults
  /\ up
  /\ chan' = saved
  /\ Down
  /\ UNCHANGED <<saved, fileVars, routVars, tmsg, histVars>>

(* The daemon ends inside Recv_SOM, when the new file has been made and    *)
(* before the status that says so is saved: ...                            *)
Creating(m) ==
  /\ Reading /\ m = tmsg
  /\ ~MessageOf(m) \/ (chan.state # "ENDED" /\ ~open /\ m \notin files)
  /\ LET unfinished == open \/ chan.state \notin {"ENDED", "IDLE"}
     IN  files' = (IF unfinished THEN files \ {chan.msgid} ELSE files) \cup {m}
  /\ disk' = [disk EXCEPT ![m] = {}]
  /\ resumed' = 0
  /\ Down
  /\ UNCHANGED <<routVars, tmsg, acked, lives>>

(* ... it is killed, ...                                                   *)
KillCreating(m) ==
  /\ "create" \in Faults
  /\ Creating(m)
  /\ chan' = saved
  /\ UNCHANGED <<saved, halfway>>

(* ... or cannot write the SOMA.  The channel saved is that of the new     *)
(* message, but as ended as the one before (receiver.c:902 comes after 849 *)
(* and before 909).                                                        *)
ExitCreating(m) ==
  /\ "pipe" \in Faults
  /\ Creating(m)
  /\ chan' = [state |-> IF MessageOf(m) \/ chan.state = "IDLE" THEN chan.state ELSE "ENDED",
              msgid |-> m, goodaddr |-> MsgSize, rdup |-> chan.rdup \/ MessageOf(m)]
  /\ saved' = chan'
  /\ halfway' = IF chan'.state = "ENDED" THEN halfway \cup {m} ELSE halfway

(* The EOMA cannot be written: the message was passed on, but the channel  *)
(* saved does not say so (receiver.c:131).                                 *)
ExitPassing ==
  /\ "pipe" \in Faults
  /\ up /\ pc = "passed"
  /\ saved' = chan
  /\ Down
  /\ UNCHANGED <<chan, fileVars, routVars, tmsg, histVars>>

(* A NAK cannot be written: QueueGap's, for data ahead or an EOM; one of   *)
(* RecvData's for old gaps, before it writes the data; or Recv_EOM's.      *)
(* What was buffered is flushed if an alarm ended the writing.             *)
ExitNAKing ==
  /\ "pipe" \in Faults
  /\ Reading /\ Assembling /\ open
  /\ \/ /\ msgaddr < MsgSize
        /\ chan' = [chan EXCEPT !.goodaddr = QueueGapGood(MsgSize)]
     \/ \E n \in 1 .. MaxPkt :
          /\ msgaddr + n <= MsgSize /\ gaps \ Pkt(msgaddr, n) # {}
          /\ chan' = [chan EXCEPT !.goodaddr = FillGapGood(Pkt(msgaddr, n), @)]
     \/ /\ somad /\ MessageOf(tmsg)
        /\ msgaddr > 0 /\ gaps \cup (msgaddr .. MsgSize - 1) # {}
        /\ chan' = [chan EXCEPT !.state = "ENDING",
                               !.goodaddr = IF msgaddr < MsgSize THEN QueueGapGood(MsgSize) ELSE @]
  /\ saved' = chan'
  /\ Written(Buffered) \/ UNCHANGED disk
  /\ Down
  /\ UNCHANGED <<files, routVars, tmsg, histVars>>

(* Wrong: the channel goes on as if its file were open.                    *)
RestartKeepsState ==
  /\ ~up /\ lives < MaxLives
  /\ up' = TRUE /\ lives' = lives + 1
  /\ chan' = IF saved.state \in {"ACTIVE", "ENDING"}
             THEN saved
             ELSE [saved EXCEPT !.rdup = FALSE]
  /\ saved' = chan'
  /\ msgaddr' = chan'.goodaddr
  /\ UNCHANGED <<pc, open, bufstart, bufend, gaps, reply,
                 fileVars, routVars, sendVars, acked, halfway, resumed>>

(* A new daemon reads the status file (InitStatus) and saves it again.     *)
Restart ==
  /\ ~up /\ lives < MaxLives
  /\ up' = TRUE /\ lives' = lives + 1
  /\ chan' = IF saved.state \in {"ACTIVE", "ENDING"}
             THEN [saved EXCEPT !.state = "STARTING"]
             ELSE [saved EXCEPT !.rdup = FALSE]
  /\ saved' = chan'
  /\ msgaddr' = chan'.goodaddr
  /\ UNCHANGED <<pc, open, bufstart, bufend, gaps, reply,
                 fileVars, routVars, sendVars, acked, halfway, resumed>>

-----------------------------------------------------------------------------
(* The router takes the next command file: it has the message if the file  *)
(* is still there, and removes it.                                         *)
RouterTakes ==
  /\ taken < Len(passed)
  /\ taken' = taken + 1
  /\ LET m == passed[taken'].id IN
       /\ routed' = IF m \in files
                    THEN routed \cup {[n |-> taken', missing |-> Addr \ disk[m]]}
                    ELSE routed
       /\ files' = files \ {m}
       /\ disk' = [disk EXCEPT ![m] = {}]
  /\ UNCHANGED <<readVars, saved, passed, sendVars, histVars>>

(* The transmitter got the EOMA and goes on to another message.            *)
NextMessage(m) ==
  /\ tmsg \in acked /\ m \notin acked
  /\ tmsg' = m /\ somad' = FALSE
  /\ UNCHANGED <<readVars, saved, fileVars, routVars, histVars>>

Next ==
  \/ \E a \in Addr, n \in 1 .. MaxPkt : RecvData(a, n)
  \/ SendEOMA \/ EndMesgDone
  \/ \E m \in Msgs : RecvEOM(m) \/ RecvSOM(m) \/ NextMessage(m)
  \/ \E m \in Msgs : KillCreating(m) \/ ExitCreating(m)
  \/ ExitPassing \/ ExitNAKing
  \/ RecvMQE \/ Checkpoint \/ Flush
  \/ Stop \/ ErrorExit \/ Echo \/ Kill \/ Restart
  \/ RouterTakes

Spec == Init /\ [][Next]_vars

-----------------------------------------------------------------------------
TypeOK ==
  /\ up \in BOOLEAN /\ pc \in {"ready", "passed", "acked"} /\ open \in BOOLEAN
  /\ chan \in Chans /\ saved \in Chans
  /\ msgaddr \in 0 .. MsgSize
  /\ bufstart \in 0 .. MsgSize /\ bufend \in bufstart .. MsgSize
  /\ gaps \subseteq Addr
  /\ files \subseteq Msgs /\ disk \in [Msgs -> SUBSET Addr]
  /\ passed \in Seq([id : Msgs, dup : BOOLEAN, resumed : Nat])
  /\ taken \in 0 .. Len(passed)
  /\ routed \subseteq [n : 1 .. taken, missing : SUBSET Addr]
  /\ tmsg \in Msgs /\ somad \in BOOLEAN
  /\ acked \subseteq Msgs /\ halfway \subseteq Msgs /\ resumed \in Nat /\ lives \in Nat

Routed(i)   == \E r \in routed : r.n = i
OnlyPass(i) == \A j \in DOMAIN passed : passed[j].id = passed[i].id => j = i

(* The message files are intact (rc_goodaddr, channel.h:97, and the        *)
(* promise of netdaemon.8 to exchange messages reliably).                  *)

(* ``No message file open for RecvData'' (receiver.c:222) never ends the   *)
(* daemon: a channel that accepts data has its file open.                  *)
NoFatal == Reading /\ Assembling => open

(* While a message is received for the first time, or again after one      *)
(* interruption, whatever its file and buffer lack is in the gap list or   *)
(* still to be sent: the receiver never forgets to ask for anything.       *)
Tracked ==
  Reading /\ open /\ resumed <= 1 /\ chan.msgid \in files =>
    Addr \ (disk[chan.msgid] \cup Buffered) \subseteq gaps \cup (msgaddr .. MsgSize - 1)

(* The first time a message is interrupted, the address a later life will  *)
(* go on from (Recv_SOM, receiver.c:834-847) has no hole below it, however *)
(* old the status file is.                                                 *)
ResumePointSafe ==
  ~up /\ resumed = 0 /\ saved.msgid \in files
      /\ saved.state \in {"STARTING", "ACTIVE", "ENDING"} =>
    \A x \in Addr \ disk[saved.msgid] :
      x < saved.goodaddr => \A y \in disk[saved.msgid] : y < x

(* EndMesg passes on a file only if every byte of the message is in it,    *)
(* for a message received in one piece or interrupted once.                *)
WholeWhenPassed ==
  pc # "ready" /\ resumed <= 1 /\ chan.msgid \in files => disk[chan.msgid] = Addr

(* What the router finds when it gets to such a message is whole as well,  *)
(* if the message was passed to it just once.                              *)
RoutedWhole ==
  \A r \in routed : passed[r.n].resumed <= 1 /\ OnlyPass(r.n) => r.missing = {}

(* Every message the router finds is whole, however often it was           *)
(* interrupted.                                                            *)
RoutedAlwaysWhole == \A r \in routed : r.missing = {}

(* An EOMA is sent only for a message that was passed to the router, or    *)
(* whose SOMA could not be written: the transmitter, which then deletes its*)
(* copy, takes it for ``Restarted message already received''               *)
(* (transmitter.c:138).                                                    *)
EOMAHonest == \A m \in acked : m \in halfway \/ \E i \in DOMAIN passed : passed[i].id = m

(* A message that was acknowledged has been routed, or its file is there   *)
(* for the router to find.                                                 *)
NeverLost ==
  \A m \in acked : \E i \in DOMAIN passed :
    /\ passed[i].id = m
    /\ Routed(i) \/ (i > taken /\ m \in files)

(* A step that passes a message to the router passes one that it was not   *)
(* given before.                                                           *)
PassesNew ==
  passed' # passed => \A i \in DOMAIN passed : passed[i].id # passed'[Len(passed')].id

(* No file is left behind in the spool directory: each belongs to the      *)
(* message being received or waits for the router.                         *)
NoOrphan ==
  files \subseteq {chan.msgid, saved.msgid} \cup
                 {passed[i].id : i \in taken + 1 .. Len(passed)}
=============================================================================
