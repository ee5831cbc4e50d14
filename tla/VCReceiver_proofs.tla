------------------------- MODULE VCReceiver_proofs -------------------------
(***************************************************************************)
(* Theorems about VCReceiver, for every value of its constants.  IInv      *)
(* strengthens the safety properties until every action preserves it: what *)
(* makes an interrupted message safe to resume is that goodaddr lies below *)
(* every gap, the saved one no higher, and the file below the buffer.  The *)
(* second part is about the messages passed on to the router.              *)
(***************************************************************************)
EXTENDS VCReceiver, SequenceTheorems, WellFoundedInduction, TLAPS

USE ReceiverAssumption

(* A message that is still being received.                                  *)
Unfinished(c) == c.state \in {"STARTING", "ACTIVE", "ENDING"}

(* A file that holds D has no hole below g with data behind it: resuming at *)
(* the smaller of its length and g skips nothing.                           *)
SafePoint(g, D) == \A x \in Addr \ D : x < g => \A y \in D : y < x

(* Which states of the process, the channel and the status file go together.*)
Phase ==
  /\ open => up /\ pc = "ready" /\ Unfinished(chan)
  /\ ~up => pc = "ready"
  /\ pc # "ready" => chan.state = "ENDING"
  /\ up /\ pc = "ready" /\ Assembling => open
  /\ up /\ pc = "ready" /\ ~open => saved = chan
  /\ open /\ chan.state = "ENDING" => msgaddr = MsgSize
  /\ chan.msgid = NoMsg => chan.state = "IDLE"
  /\ saved.msgid = NoMsg => saved.state = "IDLE"
  /\ saved.msgid # chan.msgid /\ up => ~Unfinished(saved) \/ saved.msgid \notin files

(* goodaddr lies below every gap, and a status file that speaks of this     *)
(* message claims no more than goodaddr.                                    *)
GoodBelowGaps ==
  open => /\ \A x \in gaps : chan.goodaddr <= x
          /\ saved.msgid = chan.msgid => saved.goodaddr <= chan.goodaddr

(* The buffer is below msgaddr, and in a message never interrupted all that *)
(* is in the file is below the buffer.                                      *)
Behind ==
  open => /\ bufend <= msgaddr
          /\ resumed = 0 /\ chan.msgid \in files => \A y \in disk[chan.msgid] : y < bufstart

(* Tracked, as it is used: each byte is in the file, in the buffer, a gap or*)
(* yet to be sent.                                                          *)
Known ==
  open /\ resumed <= 1 /\ chan.msgid \in files =>
    \A x \in Addr : x \in disk[chan.msgid] \/ x \in Buffered \/ x \in gaps \/ msgaddr <= x

(* ResumePointSafe, also while the process runs with the file closed.       *)
Resumable ==
  ~open /\ resumed = 0 /\ saved.msgid \in files /\ Unfinished(saved) =>
    SafePoint(saved.goodaddr, disk[saved.msgid])

(* A channel saved as idle has no message, or one whose start ended the     *)
(* daemon: its file is empty, and no data has been taken since.             *)
IdleEmpty ==
  saved.state = "IDLE" =>
    /\ ~Assembling
    /\ open => bufstart = bufend
    /\ saved.msgid \in files => disk[saved.msgid] = {}

(* WholeWhenPassed needs a NAK budget; without one a message passed on may  *)
(* have holes, but it could still be resumed.                               *)
Whole ==
  /\ "slow" \notin Faults => WholeWhenPassed
  /\ pc # "ready" /\ resumed = 0 /\ chan.msgid \in files =>
       SafePoint(chan.goodaddr, disk[chan.msgid])

(* The inductive invariant.                                                 *)
IInv == /\ TypeOK
        /\ Phase
        /\ GoodBelowGaps
        /\ Behind
        /\ Known
        /\ Resumable
        /\ IdleEmpty
        /\ Whole

(* Blocks of the file: no address lies between the end of a block and the   *)
(* start of a later one.                                                    *)
LEMMA Blocks ==
  \A s, x \in Nat :
    /\ BlockOf(x) \in Nat /\ BlockOf(x) <= x
    /\ BlockEnd(s) \in Nat /\ s < BlockEnd(s)
    /\ BlockEnd(s) <= x => BlockEnd(s) <= BlockOf(x)
<1> SUFFICES ASSUME NEW s \in Nat, NEW x \in Nat
             PROVE  /\ BlockOf(x) \in Nat /\ BlockOf(x) <= x
                    /\ BlockEnd(s) \in Nat /\ s < BlockEnd(s)
                    /\ BlockEnd(s) <= x => BlockEnd(s) <= BlockOf(x)
  OBVIOUS
<1> DEFINE F == FILEBUFFERSIZE
           q == x \div F
           k == s \div F
<1>1. F \in Nat /\ F > 0 /\ q \in Nat /\ k \in Nat
  OBVIOUS
<1>2. q * F <= x /\ x < q * F + F /\ k * F <= s /\ s < k * F + F
  OBVIOUS
<1>3. BlockOf(x) = q * F /\ BlockEnd(s) = k * F + F
  BY DEF BlockOf, BlockEnd
<1>4. k * F \in Nat /\ q * F \in Nat
  BY <1>1
<1>5. ASSUME k * F + F <= x PROVE k * F + F <= q * F
  <2>1. k * F < q * F
    BY <1>5, <1>1, <1>2, <1>4
  <2>2. k < q
    <3> SUFFICES ASSUME q <= k PROVE FALSE
      BY <1>1
    <3>1. q * F <= k * F
      BY <1>1
    <3>2. QED
      BY <3>1, <2>1, <1>4
  <2>3. k + 1 <= q
    BY <2>2, <1>1
  <2>4. (k + 1) * F <= q * F
    BY <2>3, <1>1
  <2>5. (k + 1) * F = k * F + F
    BY <1>1
  <2>6. QED
    BY <2>4, <2>5
<1>6. QED
  BY <1>1, <1>2, <1>3, <1>4, <1>5

(* What WriteData does, whichever way it takes: nothing is lost between     *)
(* buffer and file, and the file stays below the buffer if it was.          *)
LEMMA WriteDataEffect ==
  ASSUME TypeOK, chan.msgid \in Msgs,
         NEW a \in Addr, NEW n \in 1 .. MaxPkt, a + n <= MsgSize, WriteData(a, n)
  PROVE  /\ bufstart' \in 0 .. MsgSize /\ bufend' \in bufstart' .. MsgSize
         /\ bufend' = bufend \/ bufend' = a + n
         /\ disk' \in [Msgs -> SUBSET Addr]
         /\ \A m \in Msgs : m # chan.msgid => disk'[m] = disk[m]
         /\ \A x \in disk[chan.msgid] : x \in disk'[chan.msgid]
         /\ chan.msgid \in files =>
              \A x \in Buffered \cup Pkt(a, n) : x \in disk'[chan.msgid] \/ x \in Buffered'
         /\ (\A y \in disk[chan.msgid] : y < bufstart) => \A y \in disk'[chan.msgid] : y < bufstart'
<1> DEFINE c == chan.msgid
<1>t. /\ bufstart \in Nat /\ bufend \in Nat /\ bufstart <= bufend /\ bufend <= MsgSize
      /\ a \in Nat /\ n \in Nat /\ n > 0 /\ MsgSize \in Nat /\ c \in Msgs
      /\ disk \in [Msgs -> SUBSET Addr]
  BY DEF TypeOK, Addr
<1>w. ASSUME NEW S \in SUBSET Addr, Written(S)
      PROVE  /\ disk' \in [Msgs -> SUBSET Addr]
             /\ \A m \in Msgs : m # c => disk'[m] = disk[m]
             /\ disk'[c] = IF c \in files THEN disk[c] \cup S ELSE disk[c]
  BY <1>t, <1>w DEF Written
<1>b. Buffered \subseteq Addr /\ Pkt(a, n) \subseteq Addr
  BY <1>t DEF Buffered, Pkt, Addr
<1>1. CASE WriteBig(a, n)
  <2>1. /\ Written(Buffered \cup Pkt(a, n)) /\ bufstart' = a + n /\ bufend' = a + n
        /\ bufend <= a
    BY <1>1, <1>t DEF WriteBig
  <2>2. disk'[c] = IF c \in files THEN disk[c] \cup (Buffered \cup Pkt(a, n)) ELSE disk[c]
    BY <2>1, <1>w, <1>b
  <2>3. \A y \in Buffered \cup Pkt(a, n) : y < a + n
    BY <2>1, <1>t DEF Buffered, Pkt
  <2>4. bufstart <= a + n
    BY <2>1, <1>t
  <2>5. /\ disk' \in [Msgs -> SUBSET Addr]
        /\ \A m \in Msgs : m # c => disk'[m] = disk[m]
    BY <2>1, <1>w, <1>b
  <2>6. ASSUME \A y \in disk[c] : y < bufstart, NEW y \in disk'[c] PROVE y < bufstart'
    <3>1. y \in Int
      BY <2>5, <1>t DEF Addr
    <3>2. QED
      BY <2>1, <2>2, <2>3, <2>4, <2>6, <1>t, <3>1
  <2>7. QED
    BY <2>1, <2>2, <2>5, <2>6, <1>t
<1>2. CASE WriteBelow(a, n)
  <2>1. /\ Written(Pkt(a, n)) /\ bufstart' = bufstart /\ bufend' = bufend
        /\ a + n <= bufstart
    BY <1>2 DEF WriteBelow
  <2>2. disk'[c] = IF c \in files THEN disk[c] \cup Pkt(a, n) ELSE disk[c]
    BY <2>1, <1>w, <1>b
  <2>3. \A y \in Pkt(a, n) : y < bufstart
    BY <2>1, <1>t DEF Pkt
  <2>5. /\ disk' \in [Msgs -> SUBSET Addr]
        /\ \A m \in Msgs : m # c => disk'[m] = disk[m]
    BY <2>1, <1>w, <1>b
  <2>6. Buffered' = Buffered
    BY <2>1 DEF Buffered
  <2>7. QED
    BY <2>1, <2>2, <2>3, <2>5, <2>6, <1>t
<1>3. CASE WriteBuffered(a, n)
  <2> DEFINE s == NewStart(a, n)
             S == {x \in Buffered \cup Pkt(a, n) : x < s}
  <2>1. /\ Written(S) /\ bufstart' = s /\ a + n > bufstart
        /\ bufend' = IF a + n > bufend THEN a + n ELSE bufend
    BY <1>3 DEF WriteBuffered
  <2>2. s \in Nat /\ bufstart <= s /\ (s <= a + n \/ s <= bufend)
    <3> DEFINE st == IF a > bufend THEN a ELSE bufstart
    <3>1. s = IF a + n > BlockEnd(st) THEN BlockOf(a + n - 1) ELSE st
      BY DEF NewStart
    <3>2. st \in Nat /\ a + n - 1 \in Nat
      BY <1>t
    <3>3. /\ BlockOf(a + n - 1) \in Nat /\ BlockOf(a + n - 1) <= a + n - 1
          /\ BlockEnd(st) \in Nat /\ st < BlockEnd(st)
          /\ BlockEnd(st) <= a + n - 1 => BlockEnd(st) <= BlockOf(a + n - 1)
      BY <3>2, Blocks
    <3>4. bufstart <= st /\ (st <= a + n \/ st <= bufend)
      BY <1>t
    <3> HIDE DEF st, s
    <3>5. QED
      BY <3>1, <3>2, <3>3, <3>4, <1>t
  <2>4. S \subseteq Addr /\ \A y \in S : y < s
    BY <1>b
  <2> HIDE DEF s
  <2>5. /\ disk' \in [Msgs -> SUBSET Addr]
        /\ \A m \in Msgs : m # c => disk'[m] = disk[m]
        /\ disk'[c] = IF c \in files THEN disk[c] \cup S ELSE disk[c]
    BY <2>1, <2>4, <1>w
  <2>6. ASSUME NEW x \in Buffered \cup Pkt(a, n), x \notin S PROVE x \in Buffered'
    <3>1. Buffered' = s .. bufend' - 1
      BY <2>1 DEF Buffered
    <3>2. x \in Int /\ (x < bufend \/ x < a + n)
      BY <1>t DEF Buffered, Pkt
    <3>3. ~(x < s)
      BY <2>6
    <3>4. QED
      BY <3>1, <3>2, <3>3, <2>1, <2>2, <1>t
  <2>7. ASSUME \A y \in disk[c] : y < bufstart, NEW y \in disk'[c] PROVE y < bufstart'
    <3>1. y \in Int
      BY <2>5, <1>t DEF Addr
    <3>2. QED
      BY <2>1, <2>2, <2>4, <2>5, <2>7, <1>t, <3>1
  <2>8. bufend' \in s .. MsgSize
    BY <2>1, <2>2, <1>t
  <2> HIDE DEF S
  <2>9. QED
    BY <2>1, <2>2, <2>5, <2>6, <2>7, <2>8, <1>t
<1>4. QED
  BY <1>1, <1>2, <1>3 DEF WriteData

(* While a file is open for the first time, goodaddr and any address below  *)
(* it are safe to resume from, with the buffer flushed or without.          *)
LEMMA SafeBelow ==
  ASSUME IInv, open, resumed = 0, chan.msgid \in files, NEW g \in Nat,
         \A x \in gaps : x < g => msgaddr <= x
  PROVE  /\ SafePoint(g, disk[chan.msgid])
         /\ SafePoint(g, disk[chan.msgid] \cup Buffered)
<1>t. /\ chan.goodaddr \in Nat /\ msgaddr \in Nat /\ bufstart \in Nat /\ bufend \in Nat
      /\ bufstart <= bufend /\ gaps \subseteq Addr /\ disk[chan.msgid] \subseteq Addr
  BY DEF IInv, TypeOK, Chans
<1>1. ASSUME NEW x \in Addr, x \notin disk[chan.msgid], x < g, NEW y \in disk[chan.msgid]
      PROVE  y < x
  <2>1. x \in Nat /\ y \in Nat
    BY <1>t DEF Addr
  <2>2. y < bufstart /\ bufend <= msgaddr
    BY DEF IInv, Behind
  <2>3. x \in Buffered \/ x \in gaps \/ msgaddr <= x
    BY <1>1 DEF IInv, Known
  <2>4. x \in gaps => msgaddr <= x
    BY <1>1
  <2>5. QED
    BY <1>t, <2>1, <2>2, <2>3, <2>4 DEF Buffered
<1>2. ASSUME NEW x \in Addr, x \notin disk[chan.msgid] \cup Buffered, x < g, NEW y \in disk[chan.msgid] \cup Buffered
      PROVE  y < x
  <2>1. x \in Nat /\ y \in Nat
    BY <1>t DEF Addr, Buffered
  <2>2. (y < bufstart \/ y < bufend) /\ bufend <= msgaddr
    BY <1>t DEF IInv, Behind, Buffered
  <2>3. x \in gaps \/ msgaddr <= x
    BY <1>2 DEF IInv, Known
  <2>4. x \in gaps => msgaddr <= x
    BY <1>2
  <2>5. QED
    BY <1>t, <2>1, <2>2, <2>3, <2>4
<1>3. QED
  BY <1>1, <1>2 DEF SafePoint

(* goodaddr is such an address.                                             *)
LEMMA OpenSafe ==
  ASSUME IInv, open, resumed = 0, chan.msgid \in files, NEW g \in Nat, g <= chan.goodaddr
  PROVE  /\ SafePoint(g, disk[chan.msgid])
         /\ SafePoint(g, disk[chan.msgid] \cup Buffered)
<1>1. \A x \in gaps : ~(x < g)
  BY DEF IInv, TypeOK, Chans, GoodBelowGaps, Addr
<1>2. QED
  BY <1>1, SafeBelow

(* AbortInMesgs leaves a well-formed channel.                               *)
LEMMA AbortChan ==
  ASSUME chan \in Chans, NEW c, NEW f, Abort(c, f)
  PROVE  c \in Chans
<1>1. 0 \in 0 .. MsgSize
  OBVIOUS
<1>2. [chan EXCEPT !.state = "ENDED", !.goodaddr = 0] \in Chans
  BY <1>1 DEF Chans
<1>3. QED
  BY <1>2 DEF Abort

(* The answer to a SOM changes only the state; the status file follows or,  *)
(* out of space, perhaps not.                                               *)
LEMMA AnswerChan ==
  ASSUME TypeOK, NEW c \in Chans, NEW at, Answer(c, at)
  PROVE  /\ chan' \in Chans /\ saved' \in Chans
         /\ chan'.goodaddr = c.goodaddr /\ chan'.msgid = c.msgid
         /\ saved' = chan' \/ saved' = saved
         /\ saved'.state = "IDLE" => saved' = saved /\ chan'.state = "STARTING"
<1>1. ASSUME NEW s \in {"ACTIVE", "STARTING"}
      PROVE  /\ [c EXCEPT !.state = s] \in Chans
             /\ [c EXCEPT !.state = s].goodaddr = c.goodaddr
             /\ [c EXCEPT !.state = s].msgid = c.msgid
             /\ [c EXCEPT !.state = s].state = s
  BY DEF Chans
<1>2. saved \in Chans
  BY DEF TypeOK
<1>3. \/ chan' = [c EXCEPT !.state = "ACTIVE"] /\ saved' = chan'
      \/ chan' = [c EXCEPT !.state = "STARTING"] /\ saved' \in {saved, chan'}
  BY DEF Answer
<1>4. QED
  BY <1>1, <1>2, <1>3

(* The values a dead daemon leaves are in their types.                      *)
LEMMA DownTypes ==
  ASSUME Down
  PROVE  /\ up' \in BOOLEAN /\ pc' \in {"ready", "passed", "acked"} /\ open' \in BOOLEAN
         /\ msgaddr' \in 0 .. MsgSize /\ bufstart' \in 0 .. MsgSize /\ bufend' \in bufstart' .. MsgSize
         /\ gaps' \subseteq Addr /\ somad' \in BOOLEAN
<1>1. 0 \in 0 .. MsgSize
  OBVIOUS
<1>2. QED
  BY <1>1 DEF Down

(* So are those of a channel whose file was just created.                   *)
LEMMA NewFileTypes ==
  ASSUME TypeOK, NEW m \in Msgs, NEW f \in SUBSET Msgs, NEW c, NewFile(m, f, c)
  PROVE  /\ open' \in BOOLEAN /\ gaps' \subseteq Addr /\ somad' \in BOOLEAN
         /\ msgaddr' \in 0 .. MsgSize /\ bufstart' \in 0 .. MsgSize /\ bufend' \in bufstart' .. MsgSize
         /\ files' \subseteq Msgs /\ disk' \in [Msgs -> SUBSET Addr]
         /\ resumed' \in Nat /\ UNCHANGED <<up, pc, passed, taken, routed, tmsg, acked, halfway, lives>>
<1>1. 0 \in 0 .. MsgSize
  OBVIOUS
<1>2. disk' \in [Msgs -> SUBSET Addr]
  BY DEF NewFile, TypeOK
<1>3. somad' \in BOOLEAN
  BY DEF NewFile, Answer, TypeOK
<1>4. QED
  BY <1>1, <1>2, <1>3 DEF NewFile, routVars, TypeOK

(* Abort and exit: the aborted file is the open one, and nothing unfinished *)
(* is left in the status file.                                              *)
LEMMA EOMWhileStartingInv ==
  ASSUME IInv, NEW m \in Msgs, EOMWhileStarting(m)
  PROVE  IInv'
<1>a. chan' \in Chans /\ saved' \in Chans
  BY AbortChan DEF IInv, TypeOK, EOMWhileStarting
<1>1. TypeOK'
  BY DownTypes, <1>a DEF IInv, TypeOK, EOMWhileStarting, routVars, histVars
<1>2. Phase'
  BY DEF IInv, Phase, EOMWhileStarting, Abort, Down
<1>3. GoodBelowGaps'
  BY DEF GoodBelowGaps, EOMWhileStarting, Down
<1>4. Behind'
  BY DEF Behind, EOMWhileStarting, Down
<1>5. Known'
  BY DEF Known, EOMWhileStarting, Down
<1>6. Resumable'
  BY DEF Resumable, SafePoint, Addr, EOMWhileStarting, Abort
<1>7. Whole'
  BY DEF Whole, WholeWhenPassed, EOMWhileStarting, Down
<1>8. IdleEmpty'
  BY DEF IInv, TypeOK, Phase, IdleEmpty, Chans, Abort, Down, Reading, Unfinished, Assembling,
     EOMWhileStarting
<1>9. QED
  BY <1>1, <1>2, <1>3, <1>4, <1>5, <1>6, <1>7, <1>8 DEF IInv

(* The same without the exit.                                               *)
LEMMA RecvRMQEInv ==
  ASSUME IInv, RecvRMQE
  PROVE  IInv'
<1>a. chan' \in Chans /\ saved' \in Chans
  BY AbortChan DEF IInv, TypeOK, RecvRMQE
<1>1. TypeOK'
  BY <1>a DEF IInv, TypeOK, RecvRMQE, routVars, sendVars, histVars
<1>2. Phase'
  BY DEF IInv, TypeOK, Phase, Chans, Unfinished, Assembling, Reading, RecvRMQE, Abort
<1>3. GoodBelowGaps'
  BY DEF GoodBelowGaps, RecvRMQE
<1>4. Behind'
  BY DEF Behind, RecvRMQE
<1>5. Known'
  BY DEF Known, RecvRMQE
<1>6. Resumable'
  BY DEF IInv, TypeOK, Phase, Resumable, Chans, Unfinished, RecvRMQE, Abort, Reading
<1>7. Whole'
  BY DEF Whole, WholeWhenPassed, RecvRMQE, Reading
<1>8. IdleEmpty'
  BY DEF IInv, TypeOK, Phase, IdleEmpty, Chans, Abort, Reading, Unfinished, Assembling, RecvRMQE
<1>9. QED
  BY <1>1, <1>2, <1>3, <1>4, <1>5, <1>6, <1>7, <1>8 DEF IInv

(* An echo: as EOMWhileStarting.                                            *)
LEMMA EchoInv ==
  ASSUME IInv, Echo
  PROVE  IInv'
<1>a. chan' \in Chans /\ saved' \in Chans
  BY AbortChan DEF IInv, TypeOK, Echo
<1>1. TypeOK'
  BY DownTypes, <1>a DEF IInv, TypeOK, Echo, routVars, histVars
<1>2. Phase'
  BY DEF IInv, Phase, Echo, Abort, Down
<1>3. GoodBelowGaps'
  BY DEF GoodBelowGaps, Echo, Down
<1>4. Behind'
  BY DEF Behind, Echo, Down
<1>5. Known'
  BY DEF Known, Echo, Down
<1>6. Resumable'
  BY DEF Resumable, Unfinished, Echo, Abort
<1>7. Whole'
  BY DEF Whole, WholeWhenPassed, Echo, Down
<1>8. IdleEmpty'
  BY DEF IInv, TypeOK, Phase, IdleEmpty, Chans, Abort, Down, Reading, Unfinished, Assembling,
     Echo
<1>9. QED
  BY <1>1, <1>2, <1>3, <1>4, <1>5, <1>6, <1>7, <1>8 DEF IInv

(* A repeated SOM touches neither file, buffer nor gaps.                    *)
LEMMA SOMRepeatedInv ==
  ASSUME IInv, NEW m \in Msgs, SOMRepeated(m)
  PROVE  IInv'
<1>a. /\ chan' \in Chans /\ saved' \in Chans
      /\ chan'.goodaddr = chan.goodaddr /\ chan'.msgid = m
      /\ saved' = chan' \/ saved' = saved
      /\ saved'.state = "IDLE" => saved' = saved /\ chan'.state = "STARTING"
  BY AnswerChan DEF IInv, TypeOK, SOMRepeated, MessageOf
<1>1. TypeOK'
  BY <1>a DEF IInv, TypeOK, SOMRepeated, Answer, fileVars, routVars, histVars
<1>2. Phase'
  BY DEF IInv, TypeOK, Phase, Chans, Unfinished, SOMRepeated, Answer, fileVars
<1>3. GoodBelowGaps'
  BY <1>a DEF IInv, Chans, GoodBelowGaps, SOMRepeated, MessageOf
<1>4. Behind'
  BY DEF IInv, TypeOK, Behind, Chans, SOMRepeated, Answer, fileVars, histVars
<1>5. Known'
  BY DEF IInv, TypeOK, Known, Buffered, Chans, SOMRepeated, Answer, fileVars, histVars
<1>6. Resumable'
  BY DEF Resumable, SOMRepeated
<1>7. Whole'
  BY DEF IInv, Phase, Whole, WholeWhenPassed, SOMRepeated
<1>8. IdleEmpty'
  BY <1>a DEF IInv, IdleEmpty, Assembling, SOMRepeated, fileVars
<1>9. QED
  BY <1>1, <1>2, <1>3, <1>4, <1>5, <1>6, <1>7, <1>8 DEF IInv

(* The interesting step of recovery: Resumable says that what lies below the*)
(* new msgaddr and is not in the file does not exist.                       *)
LEMMA SOMResumedInv ==
  ASSUME IInv, NEW m \in Msgs, SOMResumed(m)
  PROVE  IInv'
<1>a. /\ chan' \in Chans /\ saved' \in Chans
      /\ chan'.goodaddr = chan.goodaddr /\ chan'.msgid = m
      /\ saved' = chan' \/ saved' = saved
      /\ saved'.state = "IDLE" => saved' = saved /\ chan'.state = "STARTING"
  BY AnswerChan DEF IInv, TypeOK, SOMResumed, MessageOf
<1>b. /\ msgaddr' \in 0 .. MsgSize /\ msgaddr' <= chan.goodaddr
      /\ \A x \in Addr \ disk[m] : x < msgaddr' => \E y \in disk[m] : x < y
  <2>1. chan.goodaddr \in 0 .. MsgSize /\ disk[m] \subseteq Addr
    BY DEF IInv, TypeOK, Chans
  <2>2. PICK len \in 0 .. MsgSize :
               /\ Length(len, m)
               /\ msgaddr' = IF len > chan.goodaddr THEN chan.goodaddr ELSE len
    BY DEF SOMResumed
  <2>3. ASSUME NEW x \in Addr \ disk[m], x < len PROVE \E y \in disk[m] : x < y
    BY <2>2, <2>1, <2>3 DEF Length, Addr
  <2>4. QED
    BY <2>1, <2>2, <2>3 DEF Addr
<1>c. resumed \in Nat /\ resumed' = resumed + 1 /\ bufstart' = msgaddr' /\ bufend' = msgaddr' /\ gaps' = {}
      /\ up /\ pc = "ready" /\ ~open /\ chan.msgid = m /\ chan.state # "ENDED" /\ m \in files /\ disk' = disk
  BY DEF IInv, TypeOK, SOMResumed, Reading, MessageOf, fileVars
<1>d. saved = chan
  BY <1>c DEF IInv, Phase
<1>1. TypeOK'
  <2>11. tmsg' \in Msgs /\ somad' \in BOOLEAN /\ acked' \subseteq Msgs /\ resumed' \in Nat /\ lives' \in Nat
    <3>1. tmsg \in Msgs /\ somad \in BOOLEAN /\ acked \subseteq Msgs /\ lives \in Nat
      BY DEF IInv, TypeOK
    <3>2. somad' \in BOOLEAN
      BY <3>1 DEF SOMResumed, Answer
    <3>3. QED
      BY <1>c, <3>1, <3>2 DEF SOMResumed
  <2>99. QED
    BY <1>a, <1>b, <1>c, <2>11 DEF IInv, TypeOK, SOMResumed, fileVars, routVars
<1>2. Phase'
  BY DEF IInv, TypeOK, Phase, Chans, Unfinished, Reading, SOMResumed, MessageOf, Answer
<1>3. GoodBelowGaps'
  BY <1>a, <1>c, <1>d DEF Chans, GoodBelowGaps
<1>4. Behind'
  BY DEF IInv, TypeOK, Behind, Chans, SOMResumed
<1>5. Known'
  <2>1. SUFFICES ASSUME resumed' <= 1, NEW x \in Addr, x \notin disk[m]
                 PROVE  msgaddr' <= x
    BY <1>a, <1>c DEF Known
  <2>2. resumed = 0 /\ (saved.state = "IDLE" \/ Unfinished(saved))
    BY <1>c, <1>d, <2>1 DEF IInv, Phase, Unfinished, TypeOK, Chans
  <2>3. x < saved.goodaddr => \A y \in disk[m] : y < x
    BY <1>c, <1>d, <2>1, <2>2 DEF IInv, Resumable, IdleEmpty, SafePoint
  <2>4. x \in Nat /\ chan.goodaddr \in Nat /\ disk[m] \subseteq Nat /\ msgaddr' \in Nat
    BY <1>b DEF IInv, TypeOK, Chans, Addr
  <2>5. QED
    BY <1>b, <1>d, <2>1, <2>3, <2>4
<1>6. Resumable'
  BY DEF Resumable, SOMResumed
<1>7. Whole'
  BY DEF Whole, WholeWhenPassed, SOMResumed, Reading
<1>8. IdleEmpty'
  BY <1>a, <1>c DEF IInv, IdleEmpty, Assembling, SOMResumed, fileVars
<1>9. QED
  BY <1>1, <1>2, <1>3, <1>4, <1>5, <1>6, <1>7, <1>8 DEF IInv

(* A new, empty file; goodaddr starts at the size of the message.           *)
LEMMA SOMNoFileInv ==
  ASSUME IInv, NEW m \in Msgs, SOMNoFile(m)
  PROVE  IInv'
<1>a. /\ chan' \in Chans /\ saved' \in Chans
      /\ chan'.goodaddr = MsgSize /\ chan'.msgid = m
      /\ saved' = chan' \/ saved' = saved
      /\ saved'.state = "IDLE" => saved' = saved /\ chan'.state = "STARTING"
  <2>1. MsgSize \in 0 .. MsgSize
    OBVIOUS
  <2>2. PICK c \in Chans : c.goodaddr = MsgSize /\ c.msgid = m /\ Answer(c, 0)
    BY <2>1 DEF IInv, TypeOK, SOMNoFile, NewFile, Chans
  <2>3. QED
    BY <2>2, AnswerChan DEF IInv
<1>n. /\ open' \in BOOLEAN /\ gaps' \subseteq Addr /\ somad' \in BOOLEAN
      /\ msgaddr' \in 0 .. MsgSize /\ bufstart' \in 0 .. MsgSize /\ bufend' \in bufstart' .. MsgSize
      /\ files' \subseteq Msgs /\ disk' \in [Msgs -> SUBSET Addr]
      /\ resumed' \in Nat /\ UNCHANGED <<up, pc, passed, taken, routed, tmsg, acked, halfway, lives>>
  BY NewFileTypes DEF SOMNoFile, IInv, TypeOK
<1>b. gaps' = {} /\ disk' = [disk EXCEPT ![m] = {}] /\ bufend' = 0 /\ msgaddr' = 0
  BY DEF SOMNoFile, NewFile
<1>c. disk'[m] = {}
  BY <1>b DEF IInv, TypeOK
<1>1. TypeOK'
  BY <1>n, <1>a DEF IInv, TypeOK
<1>2. Phase'
  BY ZenonT(60) DEF IInv, TypeOK, Phase, Chans, Unfinished, Assembling, Reading, SOMNoFile,
     MessageOf, Answer, NewFile
<1>3. GoodBelowGaps'
  BY <1>a, <1>b DEF GoodBelowGaps, Chans
<1>4. Behind'
  BY <1>a, <1>b, <1>c DEF Behind
<1>5. Known'
  BY DEF Known, Addr, SOMNoFile, NewFile
<1>6. Resumable'
  BY DEF Resumable, SOMNoFile, NewFile
<1>7. Whole'
  BY DEF Whole, WholeWhenPassed, SOMNoFile, Reading, NewFile
<1>8. IdleEmpty'
  BY <1>a, <1>c DEF IInv, TypeOK, IdleEmpty, Assembling, SOMNoFile, NewFile
<1>9. QED
  BY <1>1, <1>2, <1>3, <1>4, <1>5, <1>6, <1>7, <1>8 DEF IInv

(* The same for another message.                                            *)
LEMMA SOMNewInv ==
  ASSUME IInv, NEW m \in Msgs, SOMNew(m)
  PROVE  IInv'
<1>a. /\ chan' \in Chans /\ saved' \in Chans
      /\ chan'.goodaddr = MsgSize /\ chan'.msgid = m
      /\ saved' = chan' \/ saved' = saved
      /\ saved'.state = "IDLE" => saved' = saved /\ chan'.state = "STARTING"
  <2>1. MsgSize \in 0 .. MsgSize
    OBVIOUS
  <2>2. PICK c \in Chans : c.goodaddr = MsgSize /\ c.msgid = m /\ Answer(c, 0)
    BY <2>1 DEF IInv, TypeOK, SOMNew, NewFile, Chans
  <2>3. QED
    BY <2>2, AnswerChan DEF IInv
<1>n. /\ open' \in BOOLEAN /\ gaps' \subseteq Addr /\ somad' \in BOOLEAN
      /\ msgaddr' \in 0 .. MsgSize /\ bufstart' \in 0 .. MsgSize /\ bufend' \in bufstart' .. MsgSize
      /\ files' \subseteq Msgs /\ disk' \in [Msgs -> SUBSET Addr]
      /\ resumed' \in Nat /\ UNCHANGED <<up, pc, passed, taken, routed, tmsg, acked, halfway, lives>>
  BY NewFileTypes DEF SOMNew, IInv, TypeOK
<1>b. gaps' = {} /\ disk' = [disk EXCEPT ![m] = {}] /\ bufend' = 0 /\ msgaddr' = 0
  BY DEF SOMNew, NewFile
<1>c. disk'[m] = {}
  BY <1>b DEF IInv, TypeOK
<1>1. TypeOK'
  BY <1>n, <1>a DEF IInv, TypeOK
<1>2. Phase'
  BY DEF IInv, TypeOK, Phase, Chans, Unfinished, Reading, SOMNew, Answer, NewFile
<1>3. GoodBelowGaps'
  BY <1>a, <1>b DEF GoodBelowGaps, Chans
<1>4. Behind'
  BY <1>a, <1>b, <1>c DEF Behind
<1>5. Known'
  BY DEF Known, Addr, SOMNew, NewFile
<1>6. Resumable'
  BY DEF Resumable, SOMNew, NewFile
<1>7. Whole'
  BY DEF Whole, WholeWhenPassed, SOMNew, Reading, NewFile
<1>8. IdleEmpty'
  BY <1>a, <1>c DEF IInv, TypeOK, IdleEmpty, Assembling, SOMNew, NewFile
<1>9. QED
  BY <1>1, <1>2, <1>3, <1>4, <1>5, <1>6, <1>7, <1>8 DEF IInv

(* The router removes a file; the statements about files are about those    *)
(* that exist.                                                              *)
LEMMA RouterTakesInv ==
  ASSUME IInv, RouterTakes
  PROVE  IInv'
<1>1. TypeOK'
  <2>1. /\ passed \in Seq([id : Msgs, dup : BOOLEAN, resumed : Nat])
        /\ taken \in 0 .. Len(passed) /\ taken < Len(passed) /\ taken' = taken + 1 /\ passed' = passed
    BY DEF IInv, TypeOK, RouterTakes
  <2>2. taken' \in 1 .. Len(passed) /\ passed[taken'].id \in Msgs
    <3>1. taken' \in 1 .. Len(passed)
      BY <2>1
    <3>2. passed[taken'] \in [id : Msgs, dup : BOOLEAN, resumed : Nat]
      BY <2>1, <3>1, ElementOfSeq
    <3>3. QED
      BY <3>1, <3>2
  <2>3. files' \subseteq Msgs /\ disk' \in [Msgs -> SUBSET Addr]
    BY <2>2 DEF IInv, TypeOK, RouterTakes
  <2>4. routed' \subseteq [n : 1 .. taken', missing : SUBSET Addr]
    <3>1. routed \subseteq [n : 1 .. taken, missing : SUBSET Addr]
      BY DEF IInv, TypeOK
    <3>2. routed \subseteq [n : 1 .. taken', missing : SUBSET Addr]
      BY <2>1, <3>1
    <3>3. [n |-> taken', missing |-> Addr \ disk[passed[taken'].id]] \in [n : 1 .. taken', missing : SUBSET Addr]
      BY <2>2
    <3>4. QED
      BY <3>2, <3>3 DEF RouterTakes
  <2>5. QED
    BY <2>1, <2>2, <2>3, <2>4 DEF IInv, TypeOK, RouterTakes, readVars, sendVars,
       histVars
<1>2. Phase'
  BY DEF IInv, Phase, Assembling, RouterTakes, readVars
<1>3. GoodBelowGaps'
  BY DEF IInv, GoodBelowGaps, RouterTakes, readVars
<1>4. Behind'
  BY DEF IInv, Behind, RouterTakes, readVars, histVars
<1>5. Known'
  BY DEF IInv, Known, Buffered, RouterTakes, readVars, histVars
<1>6. Resumable'
  BY DEF IInv, Resumable, RouterTakes, readVars, histVars
<1>7. Whole'
  BY DEF IInv, Whole, WholeWhenPassed, RouterTakes, readVars, histVars
<1>8. IdleEmpty'
  BY DEF IInv, TypeOK, IdleEmpty, Assembling, RouterTakes, readVars
<1>9. QED
  BY <1>1, <1>2, <1>3, <1>4, <1>5, <1>6, <1>7, <1>8 DEF IInv

(* The status file is read and written back.                                *)
LEMMA RestartInv ==
  ASSUME IInv, Restart
  PROVE  IInv'
<1>1. TypeOK'
  <2>1. chan' \in Chans /\ saved' \in Chans
    BY DEF IInv, TypeOK, Chans, Restart
  <2>4. msgaddr' \in 0 .. MsgSize
    <3>1. chan' \in Chans
      BY <2>1
    <3>2. QED
      BY <3>1 DEF Restart, Chans
  <2>99. QED
    BY <2>1, <2>4, SMTT(30) DEF IInv, TypeOK, Restart, fileVars, routVars, sendVars
<1>2. Phase'
  BY DEF IInv, Phase, Assembling, Restart
<1>3. GoodBelowGaps'
  BY DEF IInv, Phase, GoodBelowGaps, Restart
<1>4. Behind'
  BY DEF IInv, Phase, Behind, Restart
<1>5. Known'
  BY DEF IInv, Phase, Known, Restart
<1>6. Resumable'
  BY DEF IInv, Resumable, Unfinished, Restart, fileVars
<1>7. Whole'
  BY DEF IInv, Phase, Whole, WholeWhenPassed, Restart
<1>8. IdleEmpty'
  BY DEF IInv, TypeOK, Phase, IdleEmpty, Chans, Assembling, Restart, fileVars
<1>9. QED
  BY <1>1, <1>2, <1>3, <1>4, <1>5, <1>6, <1>7, <1>8 DEF IInv

(* The buffer goes to the file, and both stay below msgaddr.                *)
LEMMA FlushInv ==
  ASSUME IInv, Flush
  PROVE  IInv'
<1>b. Buffered \subseteq Addr
  BY DEF IInv, TypeOK, Buffered, Addr
<1>w. /\ disk' \in [Msgs -> SUBSET Addr]
      /\ \A m \in Msgs : m # chan.msgid => disk'[m] = disk[m]
      /\ chan.msgid \in files =>
           disk'[chan.msgid] = disk[chan.msgid] \cup Buffered
  <2>1. disk \in [Msgs -> SUBSET Addr] /\ files \subseteq Msgs
    BY DEF IInv, TypeOK
  <2>3. QED
    BY <1>b, <2>1 DEF Flush, FlushWData, Written
<1>1. TypeOK'
  <2>1. chan' \in Chans /\ saved' \in Chans
    BY DEF IInv, TypeOK, Flush
  <2>99. QED
    BY <2>1, <1>w DEF IInv, TypeOK, Flush, FlushWData, routVars, sendVars, histVars
<1>2. Phase'
  BY DEF IInv, Phase, Flush
<1>3. GoodBelowGaps'
  BY DEF IInv, GoodBelowGaps, Flush
<1>4. Behind'
  <2>1. SUFFICES ASSUME open, resumed = 0, chan.msgid \in files, NEW y \in disk'[chan.msgid]
                 PROVE  y < bufend
    BY DEF IInv, Behind, Flush, FlushWData, histVars
  <2>2. y \in disk[chan.msgid] \/ y \in Buffered
    BY <1>w, <2>1
  <2>3. y \in disk[chan.msgid] => y < bufstart
    BY <2>1 DEF IInv, Behind
  <2>4. bufstart \in Int /\ bufend \in Int /\ bufstart <= bufend
    BY DEF IInv, TypeOK
  <2>5. y \in Int
    BY <1>w, <1>b, <2>1, <2>2 DEF IInv, TypeOK, Addr
  <2>6. QED
    BY <2>2, <2>3, <2>4, <2>5 DEF Buffered
<1>5. Known'
  BY DEF IInv, TypeOK, Known, Flush, FlushWData, Written, histVars
<1>6. Resumable'
  BY DEF Resumable, Flush
<1>7. Whole'
  BY DEF IInv, Phase, Whole, WholeWhenPassed, Flush
<1>8. IdleEmpty'
  <2>1. saved.state = "IDLE" => FALSE
    BY DEF IInv, TypeOK, IdleEmpty, Flush
  <2>2. QED
    BY <2>1 DEF IdleEmpty, Flush
<1>9. QED
  BY <1>1, <1>2, <1>3, <1>4, <1>5, <1>6, <1>7, <1>8 DEF IInv

(* The buffer is flushed: OpenSafe gives a safe point of the saved goodaddr.*)
LEMMA StopInv ==
  ASSUME IInv, Stop
  PROVE  IInv'
<1>b. Buffered \subseteq Addr
  BY DEF IInv, TypeOK, Buffered, Addr
<1>w. /\ disk' \in [Msgs -> SUBSET Addr]
      /\ \A m \in Msgs : m # chan.msgid => disk'[m] = disk[m]
      /\ chan.msgid \in files =>
           disk'[chan.msgid] = IF open THEN disk[chan.msgid] \cup Buffered ELSE disk[chan.msgid]
  <2>1. disk \in [Msgs -> SUBSET Addr] /\ files \subseteq Msgs
    BY DEF IInv, TypeOK
  <2>3. QED
    BY <1>b, <2>1 DEF Stop, Written
<1>1. TypeOK'
  <2>1. chan' \in Chans /\ saved' \in Chans
    BY DEF IInv, TypeOK, Stop
  <2>99. QED
    BY DownTypes, <2>1, <1>w DEF IInv, TypeOK, Stop, routVars, histVars
<1>2. Phase'
  BY DEF IInv, Phase, Stop, Down
<1>3. GoodBelowGaps'
  BY DEF GoodBelowGaps, Stop, Down
<1>4. Behind'
  BY DEF Behind, Stop, Down
<1>5. Known'
  BY DEF Known, Stop, Down
<1>6. Resumable'
  <2>1. SUFFICES ASSUME resumed = 0, saved'.msgid \in files, Unfinished(saved')
                 PROVE  SafePoint(saved'.goodaddr, disk'[saved'.msgid])
    BY DEF Resumable, Stop, histVars
  <2>t. chan.goodaddr \in Nat /\ saved.goodaddr \in Nat
    BY DEF IInv, TypeOK, Chans
  <2>2. CASE ~open
    BY <2>1, <2>2 DEF IInv, Resumable, Phase, Stop, Reading
  <2>3. CASE open
    <3>1. chan.msgid \in files /\ saved'.msgid = chan.msgid /\ saved'.goodaddr = chan.goodaddr
      BY <2>1 DEF Stop
    <3>2. SafePoint(chan.goodaddr, disk[chan.msgid] \cup Buffered)
      <4>1. chan.goodaddr <= chan.goodaddr
        BY <2>t
      <4>2. QED
        BY <2>1, <2>3, <2>t, <3>1, <4>1, OpenSafe
    <3>3. disk'[chan.msgid] = disk[chan.msgid] \cup Buffered
      BY <2>3, <3>1, <1>w
    <3>4. QED
      BY <3>1, <3>2, <3>3
  <2>4. QED
    BY <2>2, <2>3
<1>7. Whole'
  BY DEF Whole, WholeWhenPassed, Stop, Down
<1>8. IdleEmpty'
  BY DEF IInv, Phase, IdleEmpty, Unfinished, Assembling, Reading, Stop, Down
<1>9. QED
  BY <1>1, <1>2, <1>3, <1>4, <1>5, <1>6, <1>7, <1>8 DEF IInv

(* The buffer is lost: OpenSafe gives the same for the file without it.     *)
LEMMA ErrorExitInv ==
  ASSUME IInv, ErrorExit
  PROVE  IInv'
<1>1. TypeOK'
  <2>1. chan' \in Chans /\ saved' \in Chans
    BY DEF IInv, TypeOK, ErrorExit
  <2>99. QED
    BY DownTypes, <2>1 DEF IInv, TypeOK, ErrorExit, fileVars, routVars, histVars
<1>2. Phase'
  BY DEF IInv, Phase, ErrorExit, Down
<1>3. GoodBelowGaps'
  BY DEF GoodBelowGaps, ErrorExit, Down
<1>4. Behind'
  BY DEF Behind, ErrorExit, Down
<1>5. Known'
  BY DEF Known, ErrorExit, Down
<1>6. Resumable'
  <2>1. SUFFICES ASSUME resumed = 0, saved'.msgid \in files, Unfinished(saved')
                 PROVE  SafePoint(saved'.goodaddr, disk'[saved'.msgid])
    BY DEF Resumable, ErrorExit, fileVars, histVars
  <2>t. chan.goodaddr \in Nat /\ saved.goodaddr \in Nat
    BY DEF IInv, TypeOK, Chans
  <2>2. CASE ~open
    BY <2>1, <2>2 DEF IInv, Resumable, Phase, ErrorExit, Reading, fileVars
  <2>3. CASE open
    BY <2>1, <2>3, <2>t, OpenSafe DEF ErrorExit, fileVars
  <2>4. QED
    BY <2>2, <2>3
<1>7. Whole'
  BY DEF Whole, WholeWhenPassed, ErrorExit, Down
<1>8. IdleEmpty'
  BY DEF IInv, Phase, IdleEmpty, Unfinished, Assembling, Reading, ErrorExit, Down, fileVars
<1>9. QED
  BY <1>1, <1>2, <1>3, <1>4, <1>5, <1>6, <1>7, <1>8 DEF IInv

(* As ErrorExit, with a status file that may be old: its goodaddr is not    *)
(* above the current one.                                                   *)
LEMMA KillInv ==
  ASSUME IInv, Kill
  PROVE  IInv'
<1>1. TypeOK'
  <2>1. chan' \in Chans /\ saved' \in Chans
    BY DEF IInv, TypeOK, Kill
  <2>99. QED
    BY DownTypes, <2>1 DEF IInv, TypeOK, Kill, fileVars, routVars, histVars
<1>2. Phase'
  BY DEF IInv, Phase, Kill, Down
<1>3. GoodBelowGaps'
  BY DEF GoodBelowGaps, Kill, Down
<1>4. Behind'
  BY DEF Behind, Kill, Down
<1>5. Known'
  BY DEF Known, Kill, Down
<1>6. Resumable'
  <2>1. SUFFICES ASSUME resumed = 0, saved'.msgid \in files, Unfinished(saved')
                 PROVE  SafePoint(saved'.goodaddr, disk'[saved'.msgid])
    BY DEF Resumable, Kill, fileVars, histVars
  <2>t. chan.goodaddr \in Nat /\ saved.goodaddr \in Nat
    BY DEF IInv, TypeOK, Chans
  <2>2. CASE ~open
    BY <2>1, <2>2 DEF IInv, Resumable, Kill, fileVars
  <2>3. CASE open
    BY <2>1, <2>3, <2>t, OpenSafe DEF IInv, Phase, GoodBelowGaps, Kill, fileVars
  <2>4. QED
    BY <2>2, <2>3
<1>7. Whole'
  BY DEF Whole, WholeWhenPassed, Kill, Down
<1>8. IdleEmpty'
  BY DEF IInv, IdleEmpty, Assembling, Kill, Down, fileVars
<1>9. QED
  BY <1>1, <1>2, <1>3, <1>4, <1>5, <1>6, <1>7, <1>8 DEF IInv

(* The remaining receiver actions leave file, gaps and buffer alone.        *)
LEMMA EOMAgainInv ==
  ASSUME IInv, NEW m \in Msgs, EOMAgain(m)
  PROVE  IInv'
<1>1. TypeOK'
  BY DEF IInv, TypeOK, EOMAgain, fileVars, routVars, sendVars
<1>2. Phase'
  BY DEF IInv, Phase, Unfinished, Assembling, EOMAgain
<1>3. GoodBelowGaps'
  BY DEF IInv, GoodBelowGaps, EOMAgain
<1>4. Behind'
  BY DEF IInv, Phase, Behind, Unfinished, EOMAgain
<1>5. Known'
  BY DEF IInv, Phase, Known, Unfinished, EOMAgain
<1>6. Resumable'
  BY DEF IInv, Resumable, EOMAgain, fileVars
<1>7. Whole'
  BY DEF IInv, Phase, Whole, WholeWhenPassed, EOMAgain
<1>8. IdleEmpty'
  BY DEF IInv, IdleEmpty, Assembling, EOMAgain, fileVars
<1>9. QED
  BY <1>1, <1>2, <1>3, <1>4, <1>5, <1>6, <1>7, <1>8 DEF IInv

(* An acknowledgement changes nothing the invariant speaks of.              *)
LEMMA SOMAgainInv ==
  ASSUME IInv, NEW m \in Msgs, SOMAgain(m)
  PROVE  IInv'
<1>1. TypeOK'
  BY DEF IInv, TypeOK, SOMAgain, fileVars, routVars, sendVars
<1>2. Phase'
  BY DEF IInv, Phase, Unfinished, Assembling, SOMAgain
<1>3. GoodBelowGaps'
  BY DEF IInv, GoodBelowGaps, SOMAgain
<1>4. Behind'
  BY DEF IInv, Phase, Behind, Unfinished, SOMAgain
<1>5. Known'
  BY DEF IInv, Phase, Known, Unfinished, SOMAgain
<1>6. Resumable'
  BY DEF IInv, Resumable, SOMAgain, fileVars
<1>7. Whole'
  BY DEF IInv, Phase, Whole, WholeWhenPassed, SOMAgain
<1>8. IdleEmpty'
  BY DEF IInv, IdleEmpty, Assembling, SOMAgain, fileVars
<1>9. QED
  BY <1>1, <1>2, <1>3, <1>4, <1>5, <1>6, <1>7, <1>8 DEF IInv

(* The transmitter's choice of another message is invisible here.           *)
LEMMA NextMessageInv ==
  ASSUME IInv, NEW m \in Msgs, NextMessage(m)
  PROVE  IInv'
<1>1. TypeOK'
  BY DEF IInv, TypeOK, NextMessage, readVars, fileVars, routVars, histVars
<1>2. Phase'
  BY DEF IInv, Phase, Assembling, NextMessage, readVars, fileVars
<1>3. GoodBelowGaps'
  BY DEF IInv, GoodBelowGaps, NextMessage, readVars
<1>4. Behind'
  BY DEF IInv, Behind, NextMessage, readVars, fileVars, histVars
<1>5. Known'
  BY DEF IInv, Known, Buffered, NextMessage, readVars, fileVars, histVars
<1>6. Resumable'
  BY DEF IInv, Resumable, NextMessage, readVars, fileVars, histVars
<1>7. Whole'
  BY DEF IInv, Whole, WholeWhenPassed, NextMessage, readVars, fileVars, histVars
<1>8. IdleEmpty'
  BY DEF IInv, IdleEmpty, Assembling, NextMessage, readVars, fileVars
<1>9. QED
  BY <1>1, <1>2, <1>3, <1>4, <1>5, <1>6, <1>7, <1>8 DEF IInv

(* The acknowledgement itself.                                              *)
LEMMA SendEOMAInv ==
  ASSUME IInv, SendEOMA
  PROVE  IInv'
<1>1. TypeOK'
  BY DEF IInv, TypeOK, Phase, Chans, SendEOMA, fileVars, routVars, sendVars
<1>2. Phase'
  BY DEF IInv, Phase, SendEOMA, fileVars
<1>3. GoodBelowGaps'
  BY DEF IInv, GoodBelowGaps, SendEOMA
<1>4. Behind'
  BY DEF IInv, Phase, Behind, SendEOMA
<1>5. Known'
  BY DEF IInv, Phase, Known, SendEOMA
<1>6. Resumable'
  BY DEF IInv, Resumable, SendEOMA, fileVars
<1>7. Whole'
  BY DEF IInv, Whole, WholeWhenPassed, SendEOMA, fileVars
<1>8. IdleEmpty'
  BY DEF IInv, IdleEmpty, Assembling, SendEOMA, fileVars
<1>9. QED
  BY <1>1, <1>2, <1>3, <1>4, <1>5, <1>6, <1>7, <1>8 DEF IInv

(* The channel and the status file become ENDED together.                   *)
LEMMA EndMesgDoneInv ==
  ASSUME IInv, EndMesgDone
  PROVE  IInv'
<1>1. TypeOK'
  BY DEF IInv, TypeOK, Chans, EndMesgDone, fileVars, routVars, sendVars, histVars
<1>2. Phase'
  BY DEF IInv, Phase, Assembling, EndMesgDone
<1>3. GoodBelowGaps'
  BY DEF IInv, Phase, GoodBelowGaps, EndMesgDone
<1>4. Behind'
  BY DEF IInv, Phase, Behind, EndMesgDone
<1>5. Known'
  BY DEF IInv, Phase, Known, EndMesgDone
<1>6. Resumable'
  BY DEF Resumable, Unfinished, EndMesgDone
<1>7. Whole'
  BY DEF Whole, WholeWhenPassed, EndMesgDone
<1>8. IdleEmpty'
  BY DEF IInv, TypeOK, Chans, IdleEmpty, EndMesgDone
<1>9. QED
  BY <1>1, <1>2, <1>3, <1>4, <1>5, <1>6, <1>7, <1>8 DEF IInv

(* Nothing has arrived: all is a gap, and goodaddr 0 is below it.           *)
LEMMA EOMOfNothingInv ==
  ASSUME IInv, NEW m \in Msgs, EOMOfNothing(m)
  PROVE  IInv'
<1>1. TypeOK'
  BY DEF IInv, TypeOK, Chans, EOMOfNothing, fileVars, routVars, sendVars, histVars
<1>2. Phase'
  BY DEF IInv, Phase, Unfinished, EOMOfNothing, fileVars
<1>3. GoodBelowGaps'
  BY DEF IInv, TypeOK, GoodBelowGaps, Chans, Addr, EOMOfNothing
<1>4. Behind'
  BY DEF IInv, Behind, EOMOfNothing, fileVars, histVars
<1>5. Known'
  BY DEF Known, EOMOfNothing
<1>6. Resumable'
  BY DEF IInv, Phase, Resumable, EOMOfNothing, Reading
<1>7. Whole'
  BY DEF Whole, WholeWhenPassed, EOMOfNothing, Reading
<1>8. IdleEmpty'
  BY DEF IInv, TypeOK, Chans, IdleEmpty, Assembling, EOMOfNothing, fileVars
<1>9. QED
  BY <1>1, <1>2, <1>3, <1>4, <1>5, <1>6, <1>7, <1>8 DEF IInv

(* The status file catches up with the channel.                             *)
LEMMA CheckpointInv ==
  ASSUME IInv, Checkpoint
  PROVE  IInv'
<1>1. TypeOK'
  BY DEF IInv, TypeOK, Checkpoint, readVars, fileVars, routVars, sendVars, histVars
<1>2. Phase'
  BY DEF IInv, Phase, Checkpoint, readVars
<1>3. GoodBelowGaps'
  BY DEF IInv, TypeOK, GoodBelowGaps, Chans, Checkpoint, readVars
<1>4. Behind'
  BY DEF IInv, Behind, Checkpoint, readVars, fileVars, histVars
<1>5. Known'
  BY DEF IInv, Known, Buffered, Checkpoint, readVars, fileVars, histVars
<1>6. Resumable'
  BY DEF IInv, Phase, Resumable, Checkpoint, Reading, readVars
<1>7. Whole'
  BY DEF Whole, WholeWhenPassed, Checkpoint, Reading, readVars
<1>8. IdleEmpty'
  BY DEF IInv, Phase, IdleEmpty, Assembling, Unfinished, Reading, Checkpoint, readVars, fileVars
<1>9. QED
  BY <1>1, <1>2, <1>3, <1>4, <1>5, <1>6, <1>7, <1>8 DEF IInv

(* Dropped data is still a gap or beyond msgaddr.                           *)
LEMMA DroppedDataInv ==
  ASSUME IInv, DroppedData
  PROVE  IInv'
<1>1. TypeOK'
  BY DEF IInv, TypeOK, DroppedData, fileVars, routVars, sendVars, histVars
<1>2. Phase'
  BY DEF IInv, Phase, DroppedData, fileVars
<1>3. GoodBelowGaps'
  BY DEF IInv, TypeOK, GoodBelowGaps, Chans, DroppedData
<1>4. Behind'
  BY DEF IInv, Behind, DroppedData, fileVars, histVars
<1>5. Known'
  BY DEF IInv, Known, Buffered, DroppedData, fileVars, histVars
<1>6. Resumable'
  BY DEF IInv, Phase, Resumable, DroppedData, Reading
<1>7. Whole'
  BY DEF Whole, WholeWhenPassed, DroppedData, Reading
<1>8. IdleEmpty'
  BY DEF IInv, IdleEmpty, Assembling, DroppedData, fileVars
<1>9. QED
  BY <1>1, <1>2, <1>3, <1>4, <1>5, <1>6, <1>7, <1>8 DEF IInv

(* Nothing changes.                                                         *)
LEMMA DuplicateDataInv ==
  ASSUME IInv, NEW a \in Addr, NEW n \in 1 .. MaxPkt, DuplicateData(a, n)
  PROVE  IInv'
<1>1. TypeOK'
  BY DEF IInv, TypeOK, DuplicateData, Stay, sendVars, histVars
<1>2. Phase'
  BY DEF IInv, Phase, DuplicateData, Stay
<1>3. GoodBelowGaps'
  BY DEF IInv, GoodBelowGaps, DuplicateData, Stay
<1>4. Behind'
  BY DEF IInv, Behind, DuplicateData, Stay, histVars
<1>5. Known'
  BY DEF IInv, Known, Buffered, DuplicateData, Stay, histVars
<1>6. Resumable'
  BY DEF IInv, Resumable, DuplicateData, Stay, histVars
<1>7. Whole'
  BY DEF IInv, Whole, WholeWhenPassed, DuplicateData, Stay, histVars
<1>8. IdleEmpty'
  BY DEF IInv, IdleEmpty, Assembling, DuplicateData, Stay
<1>9. QED
  BY <1>1, <1>2, <1>3, <1>4, <1>5, <1>6, <1>7, <1>8 DEF IInv

(* A daemon that ends while it creates a file leaves that file empty.       *)
LEMMA CreatingInv ==
  ASSUME IInv, NEW m \in Msgs, Creating(m), chan' \in Chans, saved' = chan', halfway' \subseteq Msgs,
         saved'.msgid = m \/ saved' = saved
  PROVE  IInv'
<1>d. /\ disk' = [disk EXCEPT ![m] = {}] /\ disk' \in [Msgs -> SUBSET Addr]
      /\ disk'[m] = {} /\ \A k \in Msgs : k # m => disk'[k] = disk[k]
  BY DEF IInv, TypeOK, Creating
<1>f. files' \subseteq files \cup {m} /\ files \subseteq Msgs
  BY DEF IInv, TypeOK, Creating
<1>o. /\ ~up' /\ pc' = "ready" /\ ~open' /\ resumed' = 0
      /\ UNCHANGED <<passed, taken, routed, tmsg, acked, lives>>
  BY DEF Creating, Down, routVars
<1>1. TypeOK'
  <2>1. Down
    BY DEF Creating
  <2>2. QED
    BY <1>d, <1>f, <1>o, <2>1, DownTypes DEF IInv, TypeOK
<1>2. Phase'
  <2>1. saved'.msgid = NoMsg => saved'.state = "IDLE"
    BY DEF IInv, Phase
  <2>2. QED
    BY <1>o, <2>1 DEF Phase
<1>3. GoodBelowGaps' /\ Behind' /\ Known'
  BY <1>o DEF GoodBelowGaps, Behind, Known
<1>4. ASSUME saved'.msgid # m, saved'.msgid \in files', Unfinished(saved') PROVE FALSE
  <2>1. saved' = saved /\ saved.msgid \in files /\ up /\ pc = "ready"
    BY <1>f, <1>4 DEF Creating, Reading
  <2>2. saved.msgid = chan.msgid
    BY <1>4, <2>1 DEF IInv, Phase
  <2>3. open \/ chan.state \notin {"ENDED", "IDLE"}
    BY <1>4, <2>1 DEF IInv, Phase, Unfinished
  <2>4. saved.msgid \notin files'
    BY <1>4, <2>1, <2>2, <2>3 DEF Creating
  <2>5. QED
    BY <1>4, <2>1, <2>4
<1>6. Resumable'
  <2>1. SUFFICES ASSUME saved'.msgid \in files', Unfinished(saved') PROVE disk'[saved'.msgid] = {}
    BY DEF Resumable, SafePoint
  <2>2. QED
    BY <1>d, <1>4, <2>1
<1>7. Whole'
  BY <1>o DEF Whole, WholeWhenPassed
<1>8. IdleEmpty'
  <2>1. SUFFICES ASSUME saved'.state = "IDLE", saved'.msgid \in files' PROVE disk'[saved'.msgid] = {}
    BY <1>o DEF IdleEmpty, Assembling
  <2>2. CASE saved'.msgid = m
    BY <1>d, <2>2
  <2>3. CASE saved'.msgid # m
    <3>1. saved' = saved /\ saved.msgid \in files
      BY <1>f, <2>1, <2>3
    <3>2. QED
      BY <1>d, <1>f, <2>1, <2>3, <3>1 DEF IInv, IdleEmpty
  <2>4. QED
    BY <2>2, <2>3
<1>9. QED
  BY <1>1, <1>2, <1>3, <1>6, <1>7, <1>8 DEF IInv

(* The daemon is killed there.                                              *)
LEMMA KillCreatingInv ==
  ASSUME IInv, NEW m \in Msgs, KillCreating(m)
  PROVE  IInv'
  BY CreatingInv DEF IInv, TypeOK, KillCreating

(* The SOMA cannot be written: the status file speaks of the empty file.    *)
LEMMA ExitCreatingInv ==
  ASSUME IInv, NEW m \in Msgs, ExitCreating(m)
  PROVE  IInv'
<1>1. /\ Creating(m) /\ saved' = chan'
      /\ chan' = [state |-> IF MessageOf(m) \/ chan.state = "IDLE" THEN chan.state ELSE "ENDED",
                  msgid |-> m, goodaddr |-> MsgSize, rdup |-> chan.rdup \/ MessageOf(m)]
      /\ halfway' \in {halfway, halfway \cup {m}}
  BY DEF ExitCreating
<1>2. chan \in Chans /\ halfway \subseteq Msgs /\ MsgSize \in 0 .. MsgSize
  BY DEF IInv, TypeOK
<1>3. chan' \in Chans
  BY <1>1, <1>2 DEF Chans, MessageOf
<1>4. saved'.msgid = m
  BY <1>1
<1>5. QED
  BY <1>1, <1>2, <1>3, <1>4, CreatingInv

(* The EOMA cannot be written: ENDING is saved, and the file, if the router *)
(* has not taken it, has its last byte.                                     *)
LEMMA ExitPassingInv ==
  ASSUME IInv, ExitPassing
  PROVE  IInv'
<1>1. TypeOK'
  <2>1. Down /\ saved' = chan
    BY DEF ExitPassing
  <2>2. QED
    BY DownTypes, <2>1 DEF IInv, TypeOK, ExitPassing, fileVars, routVars, histVars
<1>2. Phase'
  BY DEF IInv, Phase, ExitPassing, Down
<1>3. GoodBelowGaps' /\ Behind' /\ Known'
  BY DEF GoodBelowGaps, Behind, Known, ExitPassing, Down
<1>6. Resumable'
  <2>1. SUFFICES ASSUME resumed = 0, chan.msgid \in files
                 PROVE  SafePoint(chan.goodaddr, disk[chan.msgid])
    BY DEF Resumable, ExitPassing, fileVars, histVars
  <2>2. QED
    BY <2>1 DEF IInv, Whole, ExitPassing
<1>7. Whole' /\ IdleEmpty'
  BY DEF Whole, WholeWhenPassed, IInv, Phase, IdleEmpty, ExitPassing, Down
<1>8. QED
  BY <1>1, <1>2, <1>3, <1>6, <1>7 DEF IInv

(* A set of addresses has a least one.                                      *)
LEMMA LeastGap ==
  ASSUME NEW S \in SUBSET Addr, S # {}
  PROVE  LET m == CHOOSE x \in S : \A y \in S : x <= y
         IN  m \in S /\ \A y \in S : m <= y
<1> DEFINE R == {p \in Nat \X Nat : p[1] < p[2]}
<1>1. S \subseteq Nat
  BY DEF Addr
<1>2. PICK x \in S : \A y \in S : ~(<<y, x>> \in R)
  <2>1. R = OpToRel(<, Nat)
    BY DEF OpToRel
  <2>2. IsWellFoundedOn(R, Nat)
    BY <2>1, NatLessThanWellFounded
  <2> HIDE DEF R
  <2>3. QED
    BY <1>1, <2>2, WFMin
<1>3. ASSUME NEW y \in S PROVE x <= y
  <2>1. x \in Nat /\ y \in Nat
    BY <1>1
  <2>2. y < x => <<y, x>> \in R
    BY <2>1
  <2> HIDE DEF R
  <2>3. ~(y < x)
    BY <1>2, <2>2
  <2>4. QED
    BY <2>1, <2>3
<1>4. QED
  BY <1>3

(* FillGap never lowers goodaddr, and keeps it below the gaps.              *)
LEMMA FillGapGoodRises ==
  ASSUME IInv, open, NEW P \in SUBSET Addr
  PROVE  /\ FillGapGood(P, chan.goodaddr) \in 0 .. MsgSize
         /\ chan.goodaddr <= FillGapGood(P, chan.goodaddr)
         /\ \A x \in gaps \ P : FillGapGood(P, chan.goodaddr) <= x
<1>1. chan.goodaddr \in 0 .. MsgSize /\ gaps \subseteq Addr /\ \A x \in gaps : chan.goodaddr <= x
  BY DEF IInv, TypeOK, Chans, GoodBelowGaps
<1>2. CASE ~ \E x \in gaps \cap P : x - 1 \notin gaps
  BY <1>1, <1>2 DEF FillGapGood
<1>3. CASE (\E x \in gaps \cap P : x - 1 \notin gaps) /\ gaps \ P = {}
  BY <1>1, <1>3 DEF FillGapGood
<1>4. CASE (\E x \in gaps \cap P : x - 1 \notin gaps) /\ gaps \ P # {}
  <2> DEFINE m == CHOOSE x \in gaps \ P : \A y \in gaps \ P : x <= y
  <2>1. m \in gaps \ P /\ \A y \in gaps \ P : m <= y
    BY <1>1, <1>4, LeastGap
  <2>2. FillGapGood(P, chan.goodaddr) = m
    BY <1>4 DEF FillGapGood
  <2> HIDE DEF m
  <2>3. QED
    BY <1>1, <2>1, <2>2 DEF Addr
<1>5. QED
  BY <1>2, <1>3, <1>4

(* A NAK cannot be written: what was to be NAKed is below msgaddr, or a gap *)
(* that the file has nothing behind.                                        *)
LEMMA ExitNAKingInv ==
  ASSUME IInv, ExitNAKing
  PROVE  IInv'
<1>1. /\ Reading /\ Assembling /\ open /\ saved' = chan' /\ Down
      /\ Written(Buffered) \/ UNCHANGED disk
      /\ UNCHANGED <<files, passed, taken, routed, tmsg, acked, halfway, resumed, lives>>
  BY DEF ExitNAKing, routVars, histVars
<1>2. /\ chan \in Chans /\ gaps \subseteq Addr /\ msgaddr \in 0 .. MsgSize /\ MsgSize \in Nat
      /\ chan.goodaddr \in 0 .. MsgSize /\ disk \in [Msgs -> SUBSET Addr]
      /\ Buffered \subseteq Addr
  BY DEF IInv, TypeOK, Chans, Buffered, Addr
<1>3. PICK g \in 0 .. MsgSize, s \in {"ACTIVE", "ENDING"} :
        /\ chan' = [chan EXCEPT !.state = s, !.goodaddr = g]
        /\ \A x \in gaps : x < g => msgaddr <= x
  <2>1. \A x \in gaps : ~(x < chan.goodaddr)
    BY <1>1, <1>2 DEF IInv, GoodBelowGaps, Addr
  <2>2. /\ QueueGapGood(MsgSize) \in 0 .. MsgSize
        /\ \A x \in gaps : ~(x < QueueGapGood(MsgSize))
    BY <1>2, <2>1 DEF QueueGapGood, Addr
  <2>3. ASSUME NEW g \in 0 .. MsgSize, chan' = [chan EXCEPT !.goodaddr = g]
        PROVE  chan' = [chan EXCEPT !.state = chan.state, !.goodaddr = g]
    BY <1>2, <2>3 DEF Chans
  <2>4. CASE chan' = [chan EXCEPT !.goodaddr = QueueGapGood(MsgSize)]
    BY <1>1, <2>2, <2>3, <2>4 DEF Assembling
  <2>5. ASSUME NEW n \in 1 .. MaxPkt, msgaddr + n <= MsgSize,
               chan' = [chan EXCEPT !.goodaddr = FillGapGood(Pkt(msgaddr, n), @)]
        PROVE  \E g \in 0 .. MsgSize :
                 /\ chan' = [chan EXCEPT !.goodaddr = g]
                 /\ \A x \in gaps : x < g => msgaddr <= x
    <3> DEFINE P == Pkt(msgaddr, n)
    <3>1. P \in SUBSET Addr /\ \A x \in P : msgaddr <= x
      BY <1>2, <2>5 DEF Pkt, Addr
    <3> DEFINE g == FillGapGood(P, chan.goodaddr)
    <3>2. g \in 0 .. MsgSize /\ \A x \in gaps \ P : g <= x
      BY <1>1, <3>1, FillGapGoodRises
    <3>3. chan' = [chan EXCEPT !.goodaddr = g]
      BY <2>5
    <3> HIDE DEF P, g
    <3>4. ASSUME NEW x \in gaps, x < g PROVE msgaddr <= x
      BY <1>2, <3>1, <3>2, <3>4 DEF Addr
    <3>5. QED
      BY <3>2, <3>3, <3>4
  <2>6. CASE \E n \in 1 .. MaxPkt : /\ msgaddr + n <= MsgSize
                                  /\ chan' = [chan EXCEPT !.goodaddr = FillGapGood(Pkt(msgaddr, n), @)]
    BY <1>1, <2>3, <2>5, <2>6 DEF Assembling
  <2>7. CASE chan' = [chan EXCEPT !.state = "ENDING",
                          !.goodaddr = IF msgaddr < MsgSize THEN QueueGapGood(MsgSize) ELSE @]
    <3>1. CASE msgaddr < MsgSize
      BY <2>2, <2>7, <3>1
    <3>2. CASE ~(msgaddr < MsgSize)
      <4>1. chan' = [chan EXCEPT !.state = "ENDING", !.goodaddr = chan.goodaddr]
        BY <2>7, <3>2
      <4>2. QED
        BY <1>2, <2>1, <4>1
    <3>3. QED
      BY <3>1, <3>2
  <2>8. QED
    BY <2>4, <2>6, <2>7 DEF ExitNAKing
<1>4. chan' \in Chans /\ chan'.msgid = chan.msgid /\ chan'.goodaddr = g /\ chan'.state = s
  BY <1>2, <1>3 DEF Chans
<1>5. /\ disk' \in [Msgs -> SUBSET Addr]
      /\ chan.msgid \in Msgs => disk'[chan.msgid] \in {disk[chan.msgid], disk[chan.msgid] \cup Buffered}
  BY <1>1, <1>2 DEF Written
<1>6. TypeOK'
  BY <1>1, <1>4, <1>5, DownTypes DEF IInv, TypeOK
<1>7. Phase'
  BY <1>1, <1>3, <1>4 DEF IInv, Phase, Down, Assembling
<1>8. GoodBelowGaps' /\ Behind' /\ Known' /\ Whole'
  BY <1>1 DEF GoodBelowGaps, Behind, Known, Whole, WholeWhenPassed, Down
<1>9. Resumable'
  <2>1. SUFFICES ASSUME resumed = 0, chan.msgid \in files
                 PROVE  SafePoint(g, disk'[chan.msgid])
    BY <1>1, <1>4 DEF Resumable
  <2>2. g \in Nat /\ chan.msgid \in Msgs
    BY <2>1 DEF IInv, TypeOK
  <2>3. SafePoint(g, disk[chan.msgid]) /\ SafePoint(g, disk[chan.msgid] \cup Buffered)
    BY <1>1, <1>3, <2>1, <2>2, SafeBelow
  <2>4. QED
    BY <1>5, <2>2, <2>3
<1>10. IdleEmpty'
  BY <1>1, <1>4 DEF IdleEmpty
<1>11. QED
  BY <1>6, <1>7, <1>8, <1>9, <1>10 DEF IInv

(* What the three handlers of new data have in common: if the gaps          *)
(* afterwards cover what was skipped and goodaddr is below them and not     *)
(* below the status file's, the invariant holds.                            *)
LEMMA DataStored ==
  ASSUME IInv, Reading, Assembling, open,
         NEW a \in Addr, NEW n \in 1 .. MaxPkt, a + n <= MsgSize, WriteData(a, n),
         chan' \in Chans, chan'.state = chan.state, chan'.msgid = chan.msgid,
         saved' = chan' \/ (saved' = saved /\ chan.goodaddr <= chan'.goodaddr),
         gaps' \subseteq Addr, \A x \in gaps' : chan'.goodaddr <= x,
         \A x \in gaps : x \in gaps' \/ x \in Pkt(a, n),
         \A x \in Addr : msgaddr <= x /\ x < a => x \in gaps',
         msgaddr' = IF msgaddr < a + n THEN a + n ELSE msgaddr,
         UNCHANGED <<up, pc, open, files, routVars, sendVars, histVars>>
  PROVE  IInv'
<1>t. /\ a \in Nat /\ n \in Nat /\ n > 0 /\ MsgSize \in Nat
      /\ msgaddr \in 0 .. MsgSize /\ bufend \in Nat /\ chan.msgid \in Msgs
      /\ chan.goodaddr \in Nat /\ chan'.goodaddr \in Nat /\ saved.goodaddr \in Nat
  BY DEF IInv, TypeOK, Phase, Chans, Assembling, Addr
<1>u. UNCHANGED <<up, pc, open, files, passed, taken, routed, tmsg, somad, acked, halfway, resumed, lives>>
  BY DEF routVars, sendVars, histVars
<1>p. up /\ pc = "ready" /\ open /\ Unfinished(chan)
  BY DEF Reading, Assembling, Unfinished
<1>w. /\ bufstart' \in 0 .. MsgSize /\ bufend' \in bufstart' .. MsgSize
      /\ bufend' = bufend \/ bufend' = a + n
      /\ disk' \in [Msgs -> SUBSET Addr]
      /\ \A m \in Msgs : m # chan.msgid => disk'[m] = disk[m]
      /\ \A x \in disk[chan.msgid] : x \in disk'[chan.msgid]
      /\ chan.msgid \in files =>
           \A x \in Buffered \cup Pkt(a, n) : x \in disk'[chan.msgid] \/ x \in Buffered'
      /\ (\A y \in disk[chan.msgid] : y < bufstart) => \A y \in disk'[chan.msgid] : y < bufstart'
  BY <1>t, WriteDataEffect DEF IInv
<1>m. msgaddr' \in 0 .. MsgSize /\ msgaddr <= msgaddr' /\ a + n <= msgaddr'
  BY <1>t
<1>1. TypeOK'
  BY <1>u, <1>w, <1>m DEF IInv, TypeOK
<1>2. Phase'
  <2>1. open' => up' /\ pc' = "ready" /\ Unfinished(chan')
    BY <1>u, <1>p DEF Unfinished
  <2>2. chan'.state = "ENDING" => msgaddr' = MsgSize
    BY <1>t, <1>p DEF IInv, Phase
  <2>3. /\ chan'.msgid = NoMsg => chan'.state = "IDLE"
        /\ saved'.msgid = NoMsg => saved'.state = "IDLE"
    BY DEF IInv, Phase
  <2>4. saved'.msgid # chan'.msgid => ~Unfinished(saved') \/ saved'.msgid \notin files'
    BY <1>u, <1>p DEF IInv, Phase
  <2>5. QED
    BY <1>u, <1>p, <2>1, <2>2, <2>3, <2>4 DEF Phase
<1>3. GoodBelowGaps'
  <2>1. saved'.msgid = chan'.msgid => saved'.goodaddr <= chan'.goodaddr
    <3>1. CASE saved' = chan'
      BY <1>t, <3>1
    <3>2. CASE saved' = saved /\ chan.goodaddr <= chan'.goodaddr
      <4>1. saved.msgid = chan.msgid => saved.goodaddr <= chan.goodaddr
        BY <1>p DEF IInv, GoodBelowGaps
      <4>2. QED
        BY <1>t, <3>2, <4>1
    <3>3. QED
      BY <3>1, <3>2
  <2>2. QED
    BY <2>1 DEF GoodBelowGaps
<1>4. Behind'
  <2>1. bufend' <= msgaddr'
    BY <1>p, <1>t, <1>w, <1>m DEF IInv, Behind
  <2>2. QED
    BY <1>p, <1>u, <1>w, <2>1 DEF IInv, Behind
<1>5. Known'
  <2> SUFFICES ASSUME resumed <= 1, chan.msgid \in files, NEW x \in Addr,
                      x \notin disk'[chan.msgid], x \notin Buffered', x \notin gaps'
               PROVE  msgaddr' <= x
    BY <1>u DEF Known
  <2>1. x \notin disk[chan.msgid] /\ x \notin Buffered /\ x \notin Pkt(a, n)
    BY <1>w
  <2>2. x \in Nat /\ msgaddr <= x
    BY <1>p, <2>1 DEF IInv, Known, Addr
  <2>3. ~(x < a) /\ ~(a <= x /\ x < a + n)
    BY <1>t, <2>1, <2>2 DEF Pkt
  <2>4. QED
    BY <1>t, <2>2, <2>3
<1>6. Resumable'
  BY <1>u, <1>p DEF Resumable
<1>7. Whole'
  BY <1>u, <1>p DEF Whole, WholeWhenPassed
<1>8. IdleEmpty'
  BY <1>p DEF IInv, IdleEmpty, Assembling
<1>9. QED
  BY <1>1, <1>2, <1>3, <1>4, <1>5, <1>6, <1>7, <1>8 DEF IInv

(* Data at msgaddr: DataStored, with goodaddr from FillGap or from msgaddr. *)
LEMMA NextDataInv ==
  ASSUME IInv, NEW a \in Addr, NEW n \in 1 .. MaxPkt, a + n <= MsgSize, NextData(a, n)
  PROVE  IInv'
<1>1. /\ Reading /\ Assembling /\ open /\ a = msgaddr /\ WriteData(a, n) /\ msgaddr' = a + n
      /\ saved' = saved /\ gaps' = gaps \ Pkt(a, n)
      /\ UNCHANGED <<up, pc, open, files, routVars, sendVars, histVars>>
  BY DEF NextData, Stay, routVars
<1>2. chan \in Chans /\ chan.goodaddr \in 0 .. MsgSize /\ gaps \subseteq Addr /\ a \in 0 .. MsgSize
      /\ a \in Nat /\ n \in Nat /\ n > 0
  BY DEF IInv, TypeOK, Chans, Addr
<1>3. PICK g \in 0 .. MsgSize :
        /\ chan' = [chan EXCEPT !.goodaddr = g]
        /\ chan.goodaddr <= g /\ \A x \in gaps' : g <= x
  <2>1. CASE gaps = {}
    BY <1>1, <1>2, <2>1 DEF NextData
  <2>2. CASE gaps # {}
    <3>1. Pkt(a, n) \in SUBSET Addr
      BY <1>2 DEF Pkt, Addr
    <3>2. chan' = [chan EXCEPT !.goodaddr = FillGapGood(Pkt(a, n), chan.goodaddr)]
      BY <2>2 DEF NextData
    <3>3. QED
      BY <1>1, <3>1, <3>2, FillGapGoodRises
  <2>3. QED
    BY <2>1, <2>2
<1>4. chan' \in Chans /\ chan'.state = chan.state /\ chan'.msgid = chan.msgid /\ chan'.goodaddr = g
  BY <1>2, <1>3 DEF Chans
<1>5. msgaddr' = IF msgaddr < a + n THEN a + n ELSE msgaddr
  BY <1>1, <1>2
<1>6. \A x \in Addr : ~(msgaddr <= x /\ x < a)
  BY <1>1, <1>2 DEF Addr
<1>7. QED
  BY <1>1, <1>2, <1>3, <1>4, <1>5, <1>6, DataStored

(* Data beyond msgaddr: the gap between is queued, and goodaddr saved if it *)
(* drops.                                                                   *)
LEMMA AheadDataInv ==
  ASSUME IInv, NEW a \in Addr, NEW n \in 1 .. MaxPkt, a + n <= MsgSize, AheadData(a, n)
  PROVE  IInv'
<1>1. /\ Reading /\ Assembling /\ open /\ a > msgaddr /\ WriteData(a, n) /\ msgaddr' = a + n
      /\ gaps' = gaps \cup (msgaddr .. a - 1)
      /\ chan' = [chan EXCEPT !.goodaddr = QueueGapGood(a)]
      /\ saved' = IF chan' = chan THEN saved ELSE chan'
      /\ UNCHANGED <<up, pc, open, files, routVars, sendVars, histVars>>
  BY DEF AheadData, routVars
<1>2. /\ chan \in Chans /\ chan.goodaddr \in 0 .. MsgSize /\ gaps \subseteq Addr
      /\ msgaddr \in 0 .. MsgSize /\ a \in Nat /\ a < MsgSize /\ n \in Nat /\ n > 0 /\ MsgSize \in Nat
  BY DEF IInv, TypeOK, Chans, Addr
<1> DEFINE g == QueueGapGood(a)
<1>3. g \in 0 .. MsgSize /\ g <= chan.goodaddr /\ g <= msgaddr
  BY <1>2 DEF QueueGapGood
<1>4. chan' \in Chans /\ chan'.state = chan.state /\ chan'.msgid = chan.msgid /\ chan'.goodaddr = g
  BY <1>1, <1>2, <1>3 DEF Chans
<1>5. gaps' \subseteq Addr
  BY <1>1, <1>2 DEF Addr
<1>6. ASSUME NEW x \in gaps' PROVE g <= x
  <2>1. x \in Nat
    BY <1>5 DEF Addr
  <2>2. x \in gaps => chan.goodaddr <= x
    BY <1>1 DEF IInv, GoodBelowGaps
  <2>3. x \notin gaps => msgaddr <= x
    BY <1>1
  <2>4. QED
    BY <1>2, <1>3, <2>1, <2>2, <2>3
<1>7. saved' = chan' \/ (saved' = saved /\ chan.goodaddr <= chan'.goodaddr)
  <2>1. chan' = chan => chan.goodaddr <= chan'.goodaddr
    BY <1>2
  <2>2. QED
    BY <1>1, <2>1
<1>8. msgaddr' = IF msgaddr < a + n THEN a + n ELSE msgaddr
  BY <1>1, <1>2
<1>9. \A x \in Addr : msgaddr <= x /\ x < a => x \in gaps'
  BY <1>1, <1>2 DEF Addr
<1> HIDE DEF g
<1>10. QED
  BY <1>1, <1>4, <1>5, <1>6, <1>7, <1>8, <1>9, DataStored

(* Data below msgaddr: DataStored, or, if it is the last, Known shows that  *)
(* the file is whole.                                                       *)
LEMMA FillingDataInv ==
  ASSUME IInv, NEW a \in Addr, NEW n \in 1 .. MaxPkt, a + n <= MsgSize, FillingData(a, n)
  PROVE  IInv'
<1> DEFINE P == Pkt(a, n)
           g == FillGapGood(P, chan.goodaddr)
           last == chan.state = "ENDING" /\ gaps' = {}
<1>1. /\ Reading /\ Assembling /\ open /\ a < msgaddr
      /\ gaps' = gaps \ P
      /\ chan' = [chan EXCEPT !.goodaddr = g]
      /\ msgaddr' = IF msgaddr < a + n THEN a + n ELSE msgaddr
      /\ UNCHANGED <<saved, up, files, taken, routed, tmsg, somad, acked, halfway, resumed, lives>>
  BY DEF FillingData, Stay, sendVars, histVars
<1>2. /\ chan \in Chans /\ gaps \subseteq Addr /\ msgaddr \in 0 .. MsgSize
      /\ bufstart \in Nat /\ bufend \in Nat /\ bufstart <= bufend /\ bufend <= MsgSize
      /\ a \in Nat /\ n \in Nat /\ n > 0 /\ MsgSize \in Nat
      /\ chan.msgid \in Msgs /\ disk \in [Msgs -> SUBSET Addr] /\ files \subseteq Msgs
  BY <1>1, SMTT(30) DEF IInv, TypeOK, Phase, Chans, Addr, Assembling
<1>3. P \in SUBSET Addr
  BY <1>2 DEF Pkt, Addr
<1>4. g \in 0 .. MsgSize /\ chan.goodaddr <= g /\ \A x \in gaps' : g <= x
  BY <1>1, <1>3, FillGapGoodRises
<1>5. chan' \in Chans /\ chan'.state = chan.state /\ chan'.msgid = chan.msgid /\ chan'.goodaddr = g
  BY <1>1, <1>2, <1>4 DEF Chans
<1> HIDE DEF g
<1>6. CASE ~last
  <2>1. WriteData(a, n) /\ UNCHANGED <<open, pc, passed>>
    BY <1>6 DEF FillingData
  <2>2. \A x \in gaps : x \in gaps' \/ x \in P
    BY <1>1
  <2>3. \A x \in Addr : ~(msgaddr <= x /\ x < a)
    BY <1>1, <1>2 DEF Addr
  <2>4. UNCHANGED <<up, pc, open, files, routVars, sendVars, histVars>>
    BY <1>1, <2>1 DEF routVars, sendVars, histVars
  <2>5. QED
    BY <1>1, <1>2, <1>4, <1>5, <2>1, <2>2, <2>3, <2>4, DataStored
<1>7. CASE last
  <2> DEFINE S == Buffered \cup P
  <2>1. /\ Written(S) /\ bufend' = (IF a + n > bufend THEN a + n ELSE bufend) /\ bufstart' = bufend'
        /\ open' = FALSE /\ pc' = "passed"
        /\ passed' = Append(passed, [id |-> chan.msgid, dup |-> chan.rdup, resumed |-> resumed])
    BY <1>7 DEF FillingData, PassMessage
  <2>2. S \subseteq Addr
    BY <1>2, <1>3 DEF Buffered, Addr
  <2>3. /\ disk' \in [Msgs -> SUBSET Addr]
        /\ \A m \in Msgs : m # chan.msgid => disk'[m] = disk[m]
        /\ chan.msgid \in files => disk'[chan.msgid] = disk[chan.msgid] \cup S
    BY <1>2, <2>1, <2>2 DEF Written
  <2>4. msgaddr = MsgSize
    BY <1>1, <1>7 DEF IInv, Phase, Reading
  <2>5. ASSUME resumed <= 1, chan.msgid \in files PROVE disk'[chan.msgid] = Addr
    <3>1. ASSUME NEW x \in Addr PROVE x \in disk'[chan.msgid]
      <4>1. x \in disk[chan.msgid] \/ x \in Buffered \/ x \in gaps
        BY <1>1, <2>4, <2>5 DEF IInv, Known, Addr
      <4>2. x \in gaps => x \in P
        BY <1>1, <1>7
      <4>3. QED
        BY <2>3, <2>5, <4>1, <4>2
    <3>2. QED
      BY <1>2, <2>3, <3>1
  <2>p. up' /\ chan.state = "ENDING"
    BY <1>1, <1>7 DEF Reading
  <2>6. TypeOK'
    <3>1. /\ msgaddr' \in 0 .. MsgSize /\ bufend' \in 0 .. MsgSize /\ bufend' \in bufend' .. MsgSize
      BY <1>1, <1>2, <2>1
    <3>2. passed' \in Seq([id : Msgs, dup : BOOLEAN, resumed : Nat]) /\ taken \in 0 .. Len(passed')
      <4>1. [id |-> chan.msgid, dup |-> chan.rdup, resumed |-> resumed] \in [id : Msgs, dup : BOOLEAN, resumed : Nat]
        BY <1>2 DEF IInv, TypeOK, Chans
      <4>2. passed \in Seq([id : Msgs, dup : BOOLEAN, resumed : Nat]) /\ taken \in 0 .. Len(passed)
        BY DEF IInv, TypeOK
      <4>3. QED
        BY <2>1, <4>1, <4>2
    <3>3. QED
      BY <1>1, <1>5, <2>1, <2>3, <3>1, <3>2 DEF IInv, TypeOK
  <2>7. Phase'
    BY <1>1, <1>5, <2>1, <2>p DEF IInv, Phase
  <2>8. GoodBelowGaps' /\ Behind' /\ Known'
    BY <2>1 DEF GoodBelowGaps, Behind, Known
  <2>9. Resumable'
    <3> SUFFICES ASSUME resumed = 0, saved.msgid \in files, Unfinished(saved)
                 PROVE  SafePoint(saved.goodaddr, disk'[saved.msgid])
      BY <1>1 DEF Resumable
    <3>1. saved.msgid = chan.msgid
      BY <1>1 DEF IInv, Phase, Reading
    <3>2. QED
      BY <2>5, <3>1 DEF SafePoint
  <2>10. Whole'
    BY <1>1, <1>5, <2>5 DEF Whole, WholeWhenPassed, SafePoint
  <2>11. IdleEmpty'
    <3>1. saved.state # "IDLE"
      BY <1>1 DEF IInv, IdleEmpty
    <3>2. QED
      BY <1>1, <3>1 DEF IdleEmpty
  <2>12. QED
    BY <2>6, <2>7, <2>8, <2>9, <2>10, <2>11 DEF IInv
<1>8. QED
  BY <1>6, <1>7

(* The end of the message: the tail becomes a gap, or nothing is missing and*)
(* the file is whole.                                                       *)
LEMMA EOMOfSomeInv ==
  ASSUME IInv, NEW m \in Msgs, EOMOfSome(m)
  PROVE  IInv'
<1> DEFINE tail == msgaddr .. MsgSize - 1
           good == IF tail = {} THEN chan.goodaddr ELSE QueueGapGood(MsgSize)
           c    == [chan EXCEPT !.goodaddr = good, !.state = "ENDING"]
           More == gaps' # {} /\ UNCHANGED <<pc, open, bufstart, bufend, disk, passed>>
           Done == (gaps' = {} \/ "slow" \in Faults) /\ FlushWData /\ PassMessage(c)
<1>1. /\ Reading /\ chan.msgid = m /\ Assembling /\ open
      /\ gaps' = gaps \cup tail /\ msgaddr' = MsgSize /\ chan' = c
      /\ saved' = IF good = chan.goodaddr THEN saved ELSE [chan EXCEPT !.goodaddr = good]
      /\ More \/ Done
      /\ UNCHANGED <<up, files, taken, routed, tmsg, somad, acked, halfway, resumed, lives>>
  BY DEF EOMOfSome, MessageOf, sendVars, histVars
<1>2. /\ chan \in Chans /\ saved \in Chans /\ chan.goodaddr \in 0 .. MsgSize /\ gaps \subseteq Addr
      /\ msgaddr \in 0 .. MsgSize /\ MsgSize \in Nat
      /\ bufstart \in Nat /\ bufend \in Nat /\ bufstart <= bufend /\ bufend <= MsgSize
      /\ disk \in [Msgs -> SUBSET Addr] /\ files \subseteq Msgs
  BY DEF IInv, TypeOK, Chans
<1>3. /\ good \in 0 .. MsgSize /\ good <= chan.goodaddr
      /\ tail = {} \/ good <= msgaddr
  BY <1>2 DEF QueueGapGood
<1> HIDE DEF good
<1>4. /\ chan' \in Chans /\ chan'.msgid = m /\ chan'.goodaddr = good /\ chan'.state = "ENDING"
      /\ chan'.rdup = chan.rdup
  BY <1>1, <1>2, <1>3 DEF Chans
<1>5. /\ saved' \in Chans
      /\ \/ saved' = saved /\ good = chan.goodaddr
         \/ saved'.msgid = m /\ saved'.goodaddr = good /\ saved'.state = chan.state
  BY <1>1, <1>2, <1>3 DEF Chans
<1>6. tail \subseteq Addr /\ gaps' \subseteq Addr
  BY <1>1, <1>2 DEF Addr
<1>7. ASSUME NEW x \in gaps' PROVE good <= x
  <2>1. x \in Nat
    BY <1>6 DEF Addr
  <2>2. x \in gaps => chan.goodaddr <= x
    BY <1>1 DEF IInv, GoodBelowGaps
  <2>3. x \notin gaps => msgaddr <= x /\ tail # {}
    BY <1>1
  <2>4. QED
    BY <1>2, <1>3, <2>1, <2>2, <2>3
<1>p. up /\ pc = "ready" /\ Unfinished(chan)
  BY <1>1 DEF Reading, Assembling, Unfinished
<1>s. /\ saved'.msgid = NoMsg => saved'.state = "IDLE"
      /\ saved'.state # "IDLE"
      /\ saved'.msgid # m => ~Unfinished(saved') \/ saved'.msgid \notin files
  BY <1>1, <1>5, <1>p DEF IInv, Phase, IdleEmpty, Assembling
<1>m. m # NoMsg
  BY DEF ReceiverAssumption
<1>8. CASE More
  <2>1. TypeOK'
    BY <1>1, <1>2, <1>4, <1>5, <1>6, <1>8, SMTT(30) DEF IInv, TypeOK
  <2>2. Phase'
    BY <1>1, <1>4, <1>8, <1>p, <1>s, <1>m DEF Phase, Unfinished
  <2>3. GoodBelowGaps'
    <3>1. saved'.msgid = m => saved'.goodaddr <= good
      BY <1>1, <1>3, <1>5 DEF IInv, GoodBelowGaps, Chans
    <3>2. QED
      BY <1>4, <1>7, <3>1 DEF GoodBelowGaps
  <2>4. Behind'
    BY <1>1, <1>2, <1>4, <1>8 DEF IInv, Behind
  <2>5. Known'
    <3> SUFFICES ASSUME resumed <= 1, m \in files, NEW x \in Addr
                 PROVE  x \in disk[m] \/ x \in Buffered \/ x \in gaps'
      BY <1>1, <1>4, <1>8 DEF Known, Buffered
    <3>1. x \in disk[m] \/ x \in Buffered \/ x \in gaps \/ msgaddr <= x
      BY <1>1 DEF IInv, Known
    <3>2. msgaddr <= x => x \in tail
      BY <1>2 DEF Addr
    <3>3. QED
      BY <1>1, <3>1, <3>2
  <2>6. Resumable' /\ Whole'
    BY <1>1, <1>8, <1>p DEF Resumable, Whole, WholeWhenPassed
  <2>7. QED
    BY <1>s, <2>1, <2>2, <2>3, <2>4, <2>5, <2>6 DEF IInv, IdleEmpty
<1>9. CASE Done
  <2>1. /\ gaps' = {} \/ "slow" \in Faults
        /\ Written(Buffered) /\ bufstart' = bufend /\ bufend' = bufend
        /\ open' = FALSE /\ pc' = "passed"
        /\ passed' = Append(passed, [id |-> m, dup |-> chan.rdup, resumed |-> resumed])
    BY <1>1, <1>4, <1>9 DEF FlushWData, PassMessage
  <2>2. Buffered \subseteq Addr
    BY <1>2 DEF Buffered, Addr
  <2>3. /\ disk' \in [Msgs -> SUBSET Addr]
        /\ \A k \in Msgs : k # m => disk'[k] = disk[k]
        /\ m \in files => disk'[m] = disk[m] \cup Buffered
    BY <1>1, <1>2, <2>1, <2>2 DEF Written
  <2>4. TypeOK'
    <3>1. passed' \in Seq([id : Msgs, dup : BOOLEAN, resumed : Nat]) /\ taken \in 0 .. Len(passed')
      <4>1. [id |-> m, dup |-> chan.rdup, resumed |-> resumed] \in [id : Msgs, dup : BOOLEAN, resumed : Nat]
        BY <1>2 DEF IInv, TypeOK, Chans
      <4>2. passed \in Seq([id : Msgs, dup : BOOLEAN, resumed : Nat]) /\ taken \in 0 .. Len(passed)
        BY DEF IInv, TypeOK
      <4>3. QED
        BY <2>1, <4>1, <4>2
    <3>2. bufstart' \in 0 .. MsgSize /\ bufend' \in bufstart' .. MsgSize /\ msgaddr' \in 0 .. MsgSize
      BY <1>1, <1>2, <2>1
    <3>3. QED
      BY <1>1, <1>4, <1>5, <1>6, <2>1, <2>3, <3>1, <3>2 DEF IInv, TypeOK
  <2>5. Phase'
    BY <1>1, <1>4, <1>p, <1>s, <1>m, <2>1 DEF Phase, Unfinished
  <2>6. GoodBelowGaps' /\ Behind' /\ Known'
    BY <2>1 DEF GoodBelowGaps, Behind, Known
  <2>7. Resumable'
    <3> SUFFICES ASSUME resumed = 0, saved'.msgid \in files, Unfinished(saved')
                 PROVE  SafePoint(saved'.goodaddr, disk'[saved'.msgid])
      BY <1>1 DEF Resumable
    <3>1. saved'.msgid = m
      BY <1>s
    <3>2. saved'.goodaddr \in Nat /\ saved'.goodaddr <= chan.goodaddr
      BY <1>1, <1>2, <1>3, <1>5, <3>1 DEF IInv, GoodBelowGaps, Chans
    <3>3. QED
      BY <1>1, <2>3, <3>1, <3>2, OpenSafe
  <2>8. ASSUME "slow" \notin Faults, resumed <= 1, m \in files
        PROVE  disk'[m] = Addr
    <3>1. gaps = {} /\ tail = {}
      BY <1>1, <2>1, <2>8
    <3>2. ASSUME NEW x \in Addr PROVE x \in disk'[m]
      <4>1. ~(msgaddr <= x)
        BY <1>2, <3>1 DEF Addr
      <4>2. QED
        BY <1>1, <2>3, <2>8, <3>1, <4>1 DEF IInv, Known
    <3>3. QED
      BY <2>3, <3>2
  <2>9. ASSUME resumed = 0, m \in files PROVE SafePoint(good, disk'[m])
    <3>1. good \in Nat
      BY <1>3
    <3>2. QED
      BY <1>1, <1>3, <2>3, <2>9, <3>1, OpenSafe
  <2>10. Whole'
    BY <1>1, <1>4, <2>8, <2>9 DEF Whole, WholeWhenPassed
  <2>11. IdleEmpty'
    BY <1>s DEF IdleEmpty
  <2>12. QED
    BY <2>4, <2>5, <2>6, <2>7, <2>10, <2>11 DEF IInv
<1>10. QED
  BY <1>1, <1>8, <1>9

(* The invariant holds at the start.                                        *)
LEMMA InitInv ==
  ASSUME Init
  PROVE  IInv
<1>1. 0 \in 0 .. MsgSize /\ 0 .. MsgSize \subseteq Nat
  OBVIOUS
<1>2. chan \in Chans
  BY <1>1 DEF Init, Chans
<1>3. disk \in [Msgs -> SUBSET Addr]
  BY DEF Init
<1>4. passed \in Seq([id : Msgs, dup : BOOLEAN, resumed : Nat]) /\ taken \in 0 .. Len(passed)
  BY DEF Init
<1>5. TypeOK
  BY <1>1, <1>2, <1>3, <1>4 DEF Init, TypeOK
<1>6. QED
  BY <1>5 DEF Init, IInv, Phase, GoodBelowGaps, Behind, Known, Resumable, Whole,
     WholeWhenPassed, IdleEmpty, Assembling, Unfinished

(* Every step keeps it, by the lemmas on the actions.                       *)
LEMMA NextInv ==
  ASSUME IInv, [Next]_vars
  PROVE  IInv'
<1>1. CASE \E a \in Addr, n \in 1 .. MaxPkt : RecvData(a, n)
  BY <1>1, DuplicateDataInv, FillingDataInv, NextDataInv, AheadDataInv, DroppedDataInv
     DEF RecvData
<1>2. CASE \E m \in Msgs : RecvEOM(m)
  BY <1>2, EOMAgainInv, EOMOfNothingInv, EOMOfSomeInv, EOMWhileStartingInv DEF RecvEOM
<1>3. CASE \E m \in Msgs : RecvSOM(m)
  BY <1>3, SOMAgainInv, SOMRepeatedInv, SOMResumedInv, SOMNoFileInv, SOMNewInv DEF
     RecvSOM
<1>4. CASE \E m \in Msgs : NextMessage(m) \/ KillCreating(m) \/ ExitCreating(m)
  BY <1>4, NextMessageInv, KillCreatingInv, ExitCreatingInv
<1>5. CASE SendEOMA \/ EndMesgDone \/ RecvMQE \/ Checkpoint \/ Flush
  BY <1>5, SendEOMAInv, EndMesgDoneInv, RecvRMQEInv, CheckpointInv, FlushInv DEF RecvMQE
<1>6. CASE \/ Stop \/ ErrorExit \/ Echo \/ Kill \/ Restart \/ RouterTakes
          \/ ExitPassing \/ ExitNAKing
  BY <1>6, StopInv, ErrorExitInv, EchoInv, KillInv, RestartInv, RouterTakesInv,
     ExitPassingInv, ExitNAKingInv
<1>7. CASE UNCHANGED vars
  BY <1>7 DEF vars, readVars, fileVars, routVars, sendVars, histVars, IInv, TypeOK,
     Phase, GoodBelowGaps, Behind, Known, Resumable, Whole, WholeWhenPassed, IdleEmpty, Buffered,
     Assembling
<1>8. QED
  BY <1>1, <1>2, <1>3, <1>4, <1>5, <1>6, <1>7 DEF Next

(* The inductive invariant holds throughout, for every number of messages,  *)
(* size, set of faults and number of lives.                                 *)
THEOREM ReceiverInvariant == Spec => []IInv
<1>1. Init => IInv
  BY InitInv
<1>2. IInv /\ [Next]_vars => IInv'
  BY NextInv
<1>3. QED
  BY <1>1, <1>2, PTL DEF Spec

(* The variables have their types (TypeOK).                                *)
THEOREM ReceiverTypeOK == Spec => []TypeOK
<1>1. IInv => TypeOK
  BY DEF IInv
<1>2. QED
  BY <1>1, ReceiverInvariant, PTL

(* No packet finds a receiving channel without its file (NoFatal; the      *)
(* Fatal of receiver.c:222), whatever goes wrong.                          *)
THEOREM ReceiverNoFatal == Spec => []NoFatal
<1>1. IInv => NoFatal
  BY DEF IInv, Phase, NoFatal, Reading
<1>2. QED
  BY <1>1, ReceiverInvariant, PTL

(* Until a second interruption the receiver knows of everything its file   *)
(* lacks (Tracked; RecvData, QueueGap and FillGap).                        *)
THEOREM ReceiverTracked == Spec => []Tracked
<1>1. ASSUME IInv PROVE Tracked
  <2>1. msgaddr \in Nat /\ MsgSize \in Nat
    BY <1>1 DEF IInv, TypeOK
  <2>2. SUFFICES ASSUME open, resumed <= 1, chan.msgid \in files, NEW x \in Addr,
                        x \notin disk[chan.msgid], x \notin Buffered, x \notin gaps
                 PROVE  x \in msgaddr .. MsgSize - 1
    BY DEF Tracked
  <2>3. msgaddr <= x
    BY <1>1, <2>2 DEF IInv, Known
  <2>4. QED
    BY <2>1, <2>3 DEF Addr
<1>2. QED
  BY <1>1, ReceiverInvariant, PTL

(* The address an interrupted message is resumed from has no hole below it *)
(* (ResumePointSafe; Recv_SOM against what WriteData, FillGap and the      *)
(* writing of the status file left), the first time, whatever stopped the  *)
(* daemon.                                                                 *)
THEOREM ReceiverResumePointSafe == Spec => []ResumePointSafe
<1>1. IInv => ResumePointSafe
  BY DEF IInv, Phase, Resumable, SafePoint, Unfinished, ResumePointSafe
<1>2. QED
  BY <1>1, ReceiverInvariant, PTL

(* EndMesg passes on whole messages only (WholeWhenPassed) if the data     *)
(* rate does not collapse, for messages interrupted at most once.          *)
THEOREM ReceiverWholeWhenPassed ==
  ASSUME "slow" \notin Faults
  PROVE  Spec => []WholeWhenPassed
<1>1. IInv => WholeWhenPassed
  BY DEF IInv, Whole
<1>2. QED
  BY <1>1, ReceiverInvariant, PTL

-----------------------------------------------------------------------------
(* What becomes of the messages that are passed to the router.  RouteInv    *)
(* says which message the channel, the status file and the untaken command  *)
(* files speak of; EndInv, that nothing is taken for received that was not  *)
(* passed on; CalmInv, that without crashes each message is passed on once  *)
(* and its file stays until the router has it.                              *)

(* Message m was passed to the router.                                      *)
Given(m) == \E i \in DOMAIN passed : passed[i].id = m

(* The receiver knows of no message the transmitter has not got to.         *)
KnownIds ==
  /\ chan.msgid \in acked \cup {tmsg, NoMsg} /\ saved.msgid \in acked \cup {tmsg, NoMsg}
  /\ \A i \in DOMAIN passed : passed[i].id \in acked \cup {tmsg}

(* While a file is filled the status file is about the same message, and a  *)
(* dead daemon is what its status file says.                                *)
SavedSame ==
  /\ up /\ Assembling => saved.msgid = chan.msgid
  /\ ~up => chan = saved

(* The transmitter's message, once passed on, is known to the channel; if   *)
(* its file is gone before the router took it, it counts as received.       *)
PassedCurrent ==
  \A i \in DOMAIN passed : passed[i].id = tmsg =>
    /\ chan.msgid = tmsg /\ saved.msgid = tmsg
    /\ OnlyPass(i) /\ taken < i /\ tmsg \notin files =>
         chan.state = "ENDED" /\ saved.state = "ENDED"

(* An open file is missing only when the router took it.                    *)
OpenHas == open /\ chan.msgid \notin files => Given(chan.msgid)

(* What waits for the router is whole.                                      *)
WaitingWhole ==
  "slow" \notin Faults =>
    \A i \in taken + 1 .. Len(passed) :
      OnlyPass(i) /\ passed[i].resumed <= 1 /\ passed[i].id \in files =>
        disk[passed[i].id] = Addr

Whence == "slow" \notin Faults => RoutedWhole

RouteInv == /\ IInv
            /\ KnownIds
            /\ SavedSame
            /\ PassedCurrent
            /\ OpenHas
            /\ WaitingWhole
            /\ Whence

(* What counts as received was passed on, or its start ended the daemon, and*)
(* no EOM arrives at a channel that still waits for the start.              *)
EndInv ==
  /\ EOMAHonest
  /\ chan.state = "ENDED" => Given(chan.msgid) \/ chan.msgid \in halfway
  /\ saved.state = "ENDED" => Given(saved.msgid) \/ saved.msgid \in halfway
  /\ pc # "ready" => Given(chan.msgid)
  /\ somad => up /\ chan.state # "STARTING"

Waiting == {passed[i].id : i \in taken + 1 .. Len(passed)}

(* The spool directory, while nothing but circuits and the daemon's own     *)
(* errors ends a session: messages are handed over once, what is being      *)
(* received was not handed over yet, what was is routed or waits in its     *)
(* file, and there is no other file.                                        *)
SpoolInv ==
  /\ \A i, j \in DOMAIN passed : passed[i].id = passed[j].id => i = j
  /\ pc = "ready" /\ Unfinished(chan) => ~Given(chan.msgid)
  /\ \A i \in DOMAIN passed : Routed(i) \/ (taken < i /\ passed[i].id \in files)
  /\ \A m \in files : m \in Waiting \/ (pc = "ready" /\ Unfinished(chan) /\ m = chan.msgid)

(* No start has ended the daemon: nothing counts as received for that, and  *)
(* an idle channel has no message.                                          *)
NoHalf ==
  /\ halfway = {}
  /\ chan.state = "IDLE" => chan.msgid = NoMsg
  /\ saved.state = "IDLE" => saved.msgid = NoMsg

CalmInv == RouteInv /\ EndInv /\ SpoolInv /\ NoHalf

-----------------------------------------------------------------------------
(* Steps that pass nothing on, take nothing from the router's directory and *)
(* create no file: files may grow, or the one being received is dropped and *)
(* counts as received.                                                      *)
KeepStep ==
  /\ UNCHANGED <<passed, taken, routed, tmsg>>
  /\ \A m \in Msgs : disk[m] \subseteq disk'[m]
  /\ acked \subseteq acked'
  /\ chan'.msgid \in {chan.msgid, saved.msgid} /\ saved'.msgid \in {chan.msgid, saved.msgid}
  /\ chan.state = "ENDED" /\ saved.state = "ENDED" =>
       chan'.state = "ENDED" /\ saved'.state = "ENDED"
  /\ \/ files' = files
     \/ files' \subseteq files /\ ~open' /\ chan'.state = "ENDED" /\ saved'.state = "ENDED"
  /\ open' => chan'.msgid = chan.msgid /\ (open \/ chan.msgid \in files)
  /\ SavedSame'

(* They keep what is known of the messages passed on.                       *)
LEMMA KeepRoute ==
  ASSUME RouteInv, KeepStep, IInv'
  PROVE  RouteInv'
<1>1. KnownIds'
  BY DEF RouteInv, KeepStep, KnownIds
<1>2. PassedCurrent'
  <2>1. ASSUME NEW i \in DOMAIN passed, passed[i].id = tmsg
        PROVE  /\ chan'.msgid = tmsg /\ saved'.msgid = tmsg
               /\ OnlyPass(i)' /\ taken < i /\ tmsg \notin files' =>
                    chan'.state = "ENDED" /\ saved'.state = "ENDED"
    BY <2>1 DEF RouteInv, KeepStep, PassedCurrent, OnlyPass
  <2>2. QED
    BY <2>1 DEF KeepStep, PassedCurrent
<1>3. OpenHas'
  BY DEF RouteInv, KeepStep, OpenHas, Given
<1>4. WaitingWhole'
  <2>1. SUFFICES ASSUME "slow" \notin Faults, NEW i \in taken + 1 .. Len(passed),
                        OnlyPass(i), passed[i].resumed <= 1, passed[i].id \in files'
                 PROVE  disk'[passed[i].id] = Addr
    BY DEF KeepStep, WaitingWhole, OnlyPass
  <2>2. passed[i].id \in files /\ files \subseteq Msgs
    BY <2>1 DEF RouteInv, IInv, TypeOK, KeepStep
  <2>3. disk[passed[i].id] = Addr
    BY <2>1, <2>2 DEF RouteInv, WaitingWhole
  <2>4. disk'[passed[i].id] \subseteq Addr
    BY <2>2 DEF IInv, TypeOK
  <2>5. QED
    BY <2>2, <2>3, <2>4 DEF KeepStep
<1>5. Whence'
  BY DEF RouteInv, KeepStep, Whence, RoutedWhole, OnlyPass
<1>6. QED
  BY <1>1, <1>2, <1>3, <1>4, <1>5 DEF RouteInv, KeepStep

(* A write adds to the file of the channel's message, if it has one.        *)
LEMMA WrittenGrows ==
  ASSUME TypeOK, NEW S, Written(S)
  PROVE  /\ \A m \in Msgs : disk[m] \subseteq disk'[m]
         /\ \A m \in Msgs : m # chan.msgid => disk'[m] = disk[m]
  BY DEF TypeOK, Written

(* So does WriteData.                                                       *)
LEMMA WriteDataGrows ==
  ASSUME TypeOK, NEW a, NEW n, WriteData(a, n)
  PROVE  /\ \A m \in Msgs : disk[m] \subseteq disk'[m]
         /\ \A m \in Msgs : m # chan.msgid => disk'[m] = disk[m]
  BY WrittenGrows DEF WriteData, WriteBig, WriteBelow, WriteBuffered

(* Data packets that do not complete a message.                             *)
LEMMA DataKeeps ==
  ASSUME RouteInv, NEW a \in Addr, NEW n \in 1 .. MaxPkt, pc' = pc,
         \/ DuplicateData(a, n) \/ FillingData(a, n) \/ NextData(a, n) \/ AheadData(a, n)
         \/ DroppedData
  PROVE  KeepStep
<1>t. TypeOK /\ chan \in Chans /\ saved \in Chans
  BY DEF RouteInv, IInv, TypeOK
<1>s. up /\ Assembling /\ saved.msgid = chan.msgid /\ pc = "ready" /\ open
  BY DEF RouteInv, IInv, Phase, SavedSame, Reading, DuplicateData, FillingData, NextData, AheadData,
     DroppedData
<1>1. CASE DuplicateData(a, n)
  BY <1>1, <1>s, <1>t DEF KeepStep, SavedSame, Assembling, DuplicateData, Stay, sendVars, histVars
<1>2. CASE FillingData(a, n)
  <2>1. WriteData(a, n) /\ UNCHANGED <<open, pc, passed>>
    BY <1>2, <1>s DEF FillingData, PassMessage
  <2>2. chan' = [chan EXCEPT !.goodaddr = chan'.goodaddr]
    BY <1>2, <1>t DEF FillingData, Chans
  <2>3. QED
    BY <1>2, <1>s, <1>t, <2>1, <2>2, WriteDataGrows
       DEF KeepStep, SavedSame, Assembling, FillingData, Stay, sendVars, histVars, Chans
<1>3. CASE NextData(a, n)
  <2>2. chan'.msgid = chan.msgid /\ chan'.state = chan.state
    BY <1>3, <1>t DEF NextData, Chans
  <2>3. QED
    BY <1>3, <1>s, <1>t, <2>2, WriteDataGrows
       DEF KeepStep, SavedSame, Assembling, NextData, Stay, sendVars, histVars
<1>4. CASE AheadData(a, n)
  <2>2. chan'.msgid = chan.msgid /\ chan'.state = chan.state
    BY <1>4, <1>t DEF AheadData, Chans
  <2>3. QED
    BY <1>4, <1>s, <1>t, <2>2, WriteDataGrows
       DEF KeepStep, SavedSame, Assembling, AheadData, sendVars, histVars
<1>5. CASE DroppedData
  BY <1>5, <1>s, <1>t DEF KeepStep, SavedSame, Assembling, DroppedData, fileVars, routVars, sendVars, histVars
<1>6. QED
  BY <1>1, <1>2, <1>3, <1>4, <1>5

(* An abort drops the file of the open message, which counts as received.   *)
LEMMA AbortKeeps ==
  ASSUME RouteInv, Reading, NEW f \in SUBSET files, Abort(chan', f), files' = f, ~open',
         saved' = chan' \/ (chan' = chan /\ saved' = saved),
         up' = FALSE => saved' = chan',
         disk' = disk, UNCHANGED <<passed, taken, routed, tmsg, acked>>
  PROVE  KeepStep
<1>t. chan \in Chans /\ saved \in Chans /\ (open => Unfinished(chan))
  BY DEF RouteInv, IInv, TypeOK, Phase
<1>1. chan'.msgid = chan.msgid /\ chan'.state \in {"ENDED", "IDLE"}
      /\ (chan.state = "ENDED" => chan'.state = "ENDED")
      /\ (chan'.state = "IDLE" => chan.state = "IDLE")
  BY <1>t DEF Abort, Chans
<1>2. f = files \/ (chan'.state = "ENDED" /\ saved' = chan')
  <2>1. CASE ~open
    BY <2>1 DEF Abort
  <2>2. CASE open
    BY <2>2, <1>t DEF Abort, Unfinished, Chans
  <2>3. QED
    BY <2>1, <2>2
<1>3. SavedSame'
  BY <1>1 DEF RouteInv, SavedSame, Assembling
<1>4. chan.state = "ENDED" /\ saved.state = "ENDED" => chan'.state = "ENDED" /\ saved'.state = "ENDED"
  BY <1>1
<1>5. QED
  BY <1>1, <1>2, <1>3, <1>4 DEF KeepStep

(* The rest of EndMesg, and packets that only ask for an answer.            *)
LEMMA AnswersKeep ==
  ASSUME RouteInv, NEW m \in Msgs,
         \/ SendEOMA \/ EndMesgDone \/ EOMAgain(m) \/ SOMAgain(m)
         \/ EOMOfNothing(m) \/ SOMRepeated(m) \/ SOMResumed(m)
         \/ EOMOfSome(m) /\ pc' = pc
  PROVE  KeepStep
<1>t. /\ TypeOK /\ Phase /\ SavedSame /\ chan \in Chans /\ saved \in Chans
  BY DEF RouteInv, IInv, TypeOK
<1>1. CASE SendEOMA
  BY <1>1, <1>t DEF KeepStep, SavedSame, Phase, Assembling, SendEOMA, fileVars, routVars, sendVars
<1>2. CASE EndMesgDone
  <2>1. chan'.msgid = chan.msgid /\ chan'.state = "ENDED" /\ saved' = chan'
    BY <1>2, <1>t DEF EndMesgDone, Chans
  <2>2. QED
    BY <1>2, <1>t, <2>1 DEF KeepStep, SavedSame, Phase, Assembling, EndMesgDone, fileVars, routVars,
       sendVars, histVars
<1>3. CASE EOMAgain(m) \/ SOMAgain(m)
  BY <1>3, <1>t DEF KeepStep, SavedSame, Phase, Assembling, EOMAgain, SOMAgain, fileVars, routVars, sendVars
<1>4. CASE EOMOfNothing(m)
  <2>1. chan'.msgid = chan.msgid /\ chan'.state = chan.state /\ chan.state # "ENDED"
    BY <1>4, <1>t DEF EOMOfNothing, Chans, Assembling
  <2>2. QED
    BY <1>4, <1>t, <2>1 DEF KeepStep, SavedSame, Assembling, EOMOfNothing, Reading, fileVars, routVars,
       sendVars, histVars
<1>5. CASE EOMOfSome(m) /\ pc' = pc
  <2>1. chan'.msgid = chan.msgid /\ chan'.state = "ENDING" /\ chan.state # "ENDED"
    BY <1>5, <1>t DEF EOMOfSome, Chans, Assembling
  <2>2. saved'.msgid = saved.msgid /\ saved.msgid = chan.msgid
    BY <1>5, <1>t DEF EOMOfSome, Chans, SavedSame, Reading
  <2>3. UNCHANGED <<open, disk, passed>>
    BY <1>5 DEF EOMOfSome, PassMessage, Reading
  <2>4. open
    BY <1>5 DEF EOMOfSome
  <2>5. up' = up /\ up /\ UNCHANGED <<files, taken, routed, tmsg, acked>>
    BY <1>5 DEF EOMOfSome, Reading, sendVars, histVars
  <2> QED
    BY <2>1, <2>2, <2>3, <2>4, <2>5 DEF KeepStep, SavedSame
<1>6. CASE SOMRepeated(m)
  <2>1. /\ chan'.msgid = chan.msgid /\ (saved' = chan' \/ (saved' = saved /\ chan'.state = "STARTING"))
        /\ chan.state # "ENDED" /\ open /\ up
    BY <1>6, <1>t DEF SOMRepeated, Answer, Chans, Reading
  <2>2. QED
    BY <1>6, <1>t, <2>1 DEF KeepStep, SavedSame, Assembling, SOMRepeated, fileVars, routVars, histVars
<1>7. CASE SOMResumed(m)
  <2>1. /\ chan'.msgid = chan.msgid /\ (saved' = chan' \/ (saved' = saved /\ chan'.state = "STARTING"))
        /\ chan.state # "ENDED" /\ up /\ chan.msgid \in files
    BY <1>7, <1>t DEF SOMResumed, Answer, Chans, Reading, MessageOf
  <2>2. QED
    BY <1>7, <1>t, <2>1 DEF KeepStep, SavedSame, Assembling, SOMResumed, fileVars, routVars
<1>8. QED
  BY <1>1, <1>2, <1>3, <1>4, <1>5, <1>6, <1>7

(* Everything that ends the daemon, and its start.                          *)
LEMMA LivesKeep ==
  ASSUME RouteInv,
         \/ Checkpoint \/ Flush \/ Stop \/ ErrorExit \/ Echo \/ Kill \/ Restart \/ RecvMQE
         \/ ExitPassing \/ ExitNAKing
         \/ \E m \in Msgs : EOMWhileStarting(m)
  PROVE  KeepStep
<1>t. TypeOK /\ Phase /\ SavedSame /\ chan \in Chans /\ saved \in Chans
  BY DEF RouteInv, IInv, TypeOK
<1>1. CASE Checkpoint
  BY <1>1, <1>t DEF KeepStep, SavedSame, Assembling, Checkpoint, Reading, readVars, fileVars, routVars,
     sendVars, histVars
<1>2. CASE Flush
  <2>1. \A m \in Msgs : disk[m] \subseteq disk'[m]
    BY <1>2, <1>t, WrittenGrows DEF Flush, FlushWData
  <2>2. QED
    BY <1>2, <1>t, <2>1 DEF KeepStep, SavedSame, Assembling, Flush, routVars, sendVars, histVars
<1>3. CASE Stop
  <2>1. \A m \in Msgs : disk[m] \subseteq disk'[m]
    BY <1>3, <1>t, WrittenGrows DEF Stop
  <2>2. QED
    BY <1>3, <1>t, <2>1 DEF KeepStep, SavedSame, Stop, Down, routVars, histVars
<1>4. CASE ErrorExit
  BY <1>4, <1>t DEF KeepStep, SavedSame, ErrorExit, Down, fileVars, routVars, histVars
<1>5. CASE Kill
  BY <1>5, <1>t DEF KeepStep, SavedSame, Kill, Down, fileVars, routVars, histVars
<1>6. CASE Restart
  <2>1. chan'.msgid = saved.msgid /\ saved' = chan' /\ up' /\ ~open' /\ chan = saved
        /\ (saved.state = "ENDED" => chan'.state = "ENDED")
    BY <1>6, <1>t DEF Restart, Chans, Phase, SavedSame
  <2>2. QED
    BY <1>6, <2>1 DEF KeepStep, SavedSame, Restart, fileVars, routVars, sendVars
<1>7. CASE RecvMQE
  <2>1. PICK f \in SUBSET files : Abort(chan', f) /\ files' = f
    BY <1>7 DEF RecvMQE, RecvRMQE
  <2>2. /\ Reading /\ ~open' /\ up' = up /\ up /\ disk' = disk
        /\ saved' = chan' \/ (chan' = chan /\ saved' = saved)
        /\ UNCHANGED <<passed, taken, routed, tmsg, acked>>
    BY <1>7 DEF RecvMQE, RecvRMQE, Reading, routVars, sendVars, histVars
  <2>3. QED
    BY <2>1, <2>2, AbortKeeps
<1>8. CASE Echo
  <2>1. PICK f \in SUBSET files : Abort(chan', f) /\ files' = f
    BY <1>8 DEF Echo
  <2>2. /\ Reading /\ ~open' /\ disk' = disk /\ saved' = chan'
        /\ UNCHANGED <<passed, taken, routed, tmsg, acked>>
    BY <1>8 DEF Echo, Down, routVars, histVars
  <2>3. QED
    BY <2>1, <2>2, AbortKeeps
<1>9. CASE \E m \in Msgs : EOMWhileStarting(m)
  <2>1. PICK m \in Msgs : EOMWhileStarting(m)
    BY <1>9
  <2>2. PICK f \in SUBSET files : Abort(chan', f) /\ files' = f
    BY <2>1 DEF EOMWhileStarting
  <2>3. /\ Reading /\ ~open' /\ disk' = disk /\ saved' = chan'
        /\ UNCHANGED <<passed, taken, routed, tmsg, acked>>
    BY <2>1 DEF EOMWhileStarting, Down, routVars, histVars
  <2>4. QED
    BY <2>2, <2>3, AbortKeeps
<1>10. CASE ExitPassing
  BY <1>10, <1>t DEF KeepStep, SavedSame, Phase, ExitPassing, Down, fileVars, routVars, histVars
<1>11. CASE ExitNAKing
  <2>1. \A m \in Msgs : disk[m] \subseteq disk'[m]
    BY <1>11, <1>t, WrittenGrows DEF ExitNAKing
  <2>2. chan'.msgid = chan.msgid /\ saved' = chan' /\ chan.state # "ENDED"
    BY <1>11, <1>t DEF ExitNAKing, Chans, Assembling
  <2>3. UNCHANGED <<passed, taken, routed, tmsg, acked, files>> /\ ~up' /\ ~open'
    BY <1>11 DEF ExitNAKing, Down, routVars, histVars
  <2>4. QED
    BY <2>1, <2>2, <2>3 DEF KeepStep, SavedSame
<1>12. QED
  BY <1>1, <1>2, <1>3, <1>4, <1>5, <1>6, <1>7, <1>8, <1>9, <1>10, <1>11

(* Handing a message over: its file is complete, and the message is new to  *)
(* the router unless an earlier life handed it over as well.                *)
PassStep ==
  /\ open /\ Reading /\ Assembling /\ ~open' /\ pc' = "passed" /\ up'
  /\ passed' = Append(passed, [id |-> chan.msgid, dup |-> chan.rdup, resumed |-> resumed])
  /\ UNCHANGED <<taken, routed, files, tmsg, acked, halfway, resumed, somad>>
  /\ chan'.msgid = chan.msgid /\ chan'.state = "ENDING" /\ saved'.msgid = chan.msgid
  /\ \A m \in Msgs : m # chan.msgid => disk'[m] = disk[m]

(* The two places where EndMesg is called.                                  *)
LEMMA Passes ==
  ASSUME RouteInv, NEW a, NEW n, NEW m, pc' # pc, FillingData(a, n) \/ EOMOfSome(m)
  PROVE  PassStep
<1>t. /\ TypeOK /\ Phase /\ SavedSame /\ chan \in Chans /\ saved \in Chans
  BY DEF RouteInv, IInv, TypeOK
<1>1. CASE FillingData(a, n)
  <2>1. /\ chan.state = "ENDING" /\ PassMessage(chan) /\ open /\ Reading /\ Assembling
        /\ Written(Buffered \cup Pkt(a, n)) /\ Stay
    BY <1>1 DEF FillingData
  <2>2. chan'.msgid = chan.msgid /\ chan'.state = chan.state
    BY <1>1, <1>t DEF FillingData, Chans
  <2>3. saved' = saved /\ saved.msgid = chan.msgid
    BY <2>1, <1>t DEF Stay, SavedSame, Reading
  <2>4. QED
    BY <2>1, <2>2, <2>3, <1>t, WrittenGrows DEF PassStep, PassMessage, Stay, Reading, sendVars, histVars
<1>2. CASE EOMOfSome(m)
  <2> DEFINE good == IF msgaddr .. MsgSize - 1 = {} THEN chan.goodaddr ELSE QueueGapGood(MsgSize)
             c == [chan EXCEPT !.goodaddr = good, !.state = "ENDING"]
  <2>1. /\ PassMessage(c) /\ open /\ Reading /\ Assembling /\ FlushWData /\ chan' = c
        /\ UNCHANGED <<up, files, taken, routed, sendVars, histVars>>
        /\ saved' = IF good = chan.goodaddr THEN saved ELSE [chan EXCEPT !.goodaddr = good]
    BY <1>2 DEF EOMOfSome
  <2>2. c.msgid = chan.msgid /\ c.rdup = chan.rdup /\ c.state = "ENDING"
    BY <1>t DEF Chans
  <2>3. saved.msgid = chan.msgid /\ saved'.msgid = chan.msgid
    BY <2>1, <1>t DEF SavedSame, Reading, Chans
  <2>5. QED
    BY <2>1, <2>2, <2>3, <1>t, WrittenGrows DEF PassStep, PassMessage, FlushWData, Reading, sendVars, histVars
<1>3. QED
  BY <1>1, <1>2

(* The message handed over is whole (WholeWhenPassed), and if its file is   *)
(* gone it was handed over before.                                          *)
LEMMA PassRoute ==
  ASSUME RouteInv, IInv', PassStep
  PROVE  RouteInv'
<1> DEFINE new == [id |-> chan.msgid, dup |-> chan.rdup, resumed |-> resumed]
           k == Len(passed) + 1
<1>t. /\ passed \in Seq([id : Msgs, dup : BOOLEAN, resumed : Nat]) /\ taken \in 0 .. Len(passed)
      /\ chan \in Chans /\ chan.msgid \in Msgs /\ resumed \in Nat /\ saved.msgid = chan.msgid
  BY DEF RouteInv, IInv, TypeOK, Phase, Chans, PassStep, Unfinished, SavedSame, Reading
<1>a. /\ Len(passed') = k /\ passed'[k] = new /\ DOMAIN passed' = 1 .. k /\ DOMAIN passed = 1 .. Len(passed)
      /\ \A i \in DOMAIN passed : passed'[i] = passed[i]
      /\ Len(passed) \in Nat
  <2>1. new \in [id : Msgs, dup : BOOLEAN, resumed : Nat]
    BY <1>t DEF Chans
  <2>2. QED
    BY <1>t, <2>1 DEF PassStep
<1>b. ASSUME NEW i \in DOMAIN passed', OnlyPass(i)', i # k
      PROVE  i \in DOMAIN passed /\ passed[i].id # chan.msgid /\ OnlyPass(i)
  BY <1>a, <1>b DEF OnlyPass
<1>1. KnownIds'
  BY <1>a, <1>t DEF RouteInv, PassStep, KnownIds
<1>2. SavedSame'
  BY DEF PassStep, SavedSame
<1>3. PassedCurrent'
  <2>1. SUFFICES ASSUME NEW i \in DOMAIN passed', passed'[i].id = tmsg
                 PROVE  /\ chan.msgid = tmsg
                        /\ ~(OnlyPass(i)' /\ taken < i /\ tmsg \notin files)
    BY DEF PassedCurrent, PassStep
  <2>2. chan.msgid = tmsg
    BY <1>a, <2>1 DEF RouteInv, PassedCurrent
  <2>3. CASE i # k
    BY <1>b, <2>1, <2>2, <2>3, <1>a
  <2>4. CASE i = k
    <3>1. SUFFICES ASSUME OnlyPass(i)', chan.msgid \notin files PROVE FALSE
      BY <2>2, <2>4
    <3>2. PICK j \in DOMAIN passed : passed[j].id = chan.msgid
      BY <3>1 DEF RouteInv, OpenHas, Given, PassStep
    <3>3. j \in DOMAIN passed' /\ passed'[j].id = passed'[i].id /\ j # i
      BY <1>a, <3>2, <2>4
    <3>4. QED
      BY <3>1, <3>3 DEF OnlyPass
  <2>5. QED
    BY <2>2, <2>3, <2>4
<1>4. OpenHas'
  BY DEF OpenHas, PassStep
<1>5. WaitingWhole'
  <2>1. SUFFICES ASSUME "slow" \notin Faults, NEW i \in taken + 1 .. Len(passed'),
                        OnlyPass(i)', passed'[i].resumed <= 1, passed'[i].id \in files
                 PROVE  disk'[passed'[i].id] = Addr
    BY DEF WaitingWhole, PassStep
  <2>2. i \in DOMAIN passed'
    BY <1>a, <1>t
  <2>3. CASE i = k
    <3>1. resumed' <= 1 /\ chan'.msgid \in files' /\ pc' # "ready"
      BY <1>a, <2>1, <2>3 DEF PassStep
    <3>2. disk'[chan'.msgid] = Addr
      BY <2>1, <3>1 DEF IInv, Whole, WholeWhenPassed
    <3>3. QED
      BY <1>a, <2>3, <3>2 DEF PassStep
  <2>4. CASE i # k
    <3>1. i \in DOMAIN passed /\ passed[i].id # chan.msgid /\ OnlyPass(i) /\ passed'[i] = passed[i]
      BY <1>a, <1>b, <2>1, <2>2, <2>4
    <3>2. i \in taken + 1 .. Len(passed)
      BY <1>a, <1>t, <3>1, <2>1
    <3>3. disk[passed[i].id] = Addr
      BY <2>1, <3>1, <3>2 DEF RouteInv, WaitingWhole
    <3>4. passed[i].id \in Msgs
      BY <2>1, <3>1 DEF RouteInv, IInv, TypeOK
    <3>5. QED
      BY <3>1, <3>3, <3>4 DEF PassStep
  <2>5. QED
    BY <2>3, <2>4
<1>6. Whence'
  <2>1. SUFFICES ASSUME "slow" \notin Faults, NEW r \in routed, passed'[r.n].resumed <= 1, OnlyPass(r.n)'
                 PROVE  r.missing = {}
    BY DEF Whence, RoutedWhole, PassStep
  <2>2. r.n \in 1 .. taken
    BY DEF RouteInv, IInv, TypeOK
  <2>3. r.n \in DOMAIN passed /\ r.n \in DOMAIN passed' /\ r.n # k
    BY <1>a, <1>t, <2>2
  <2>4. OnlyPass(r.n) /\ passed'[r.n] = passed[r.n]
    BY <1>a, <1>b, <2>1, <2>3
  <2>5. QED
    BY <2>1, <2>4 DEF RouteInv, Whence, RoutedWhole
<1>7. QED
  BY <1>1, <1>2, <1>3, <1>4, <1>5, <1>6 DEF RouteInv

(* A new file, or one a dying daemon leaves: it belongs to the              *)
(* transmitter's message, which was not passed on unless its file was taken.*)
CreateStep(m) ==
  /\ m = tmsg /\ Reading
  /\ chan.msgid # m \/ (chan.state # "ENDED" /\ m \notin files)
  /\ UNCHANGED <<passed, taken, routed, tmsg, acked>>
  /\ files' \subseteq files \cup {m} /\ m \in files'
  /\ disk' = [disk EXCEPT ![m] = {}]
  /\ chan'.msgid \in {m, saved.msgid} /\ saved'.msgid \in {m, saved.msgid}
  /\ chan.msgid = m /\ saved.msgid = m => chan'.msgid = m /\ saved'.msgid = m
  /\ open' => chan'.msgid = m
  /\ SavedSame'

(* The file is new, so no message handed over loses one.                    *)
LEMMA CreateRoute ==
  ASSUME RouteInv, IInv', NEW m \in Msgs, CreateStep(m)
  PROVE  RouteInv'
<1>1. KnownIds'
  BY DEF RouteInv, CreateStep, KnownIds
<1>2. PassedCurrent'
  BY DEF RouteInv, CreateStep, PassedCurrent, OnlyPass
<1>3. OpenHas'
  BY DEF CreateStep, OpenHas
<1>4. WaitingWhole'
  <2>1. SUFFICES ASSUME "slow" \notin Faults, NEW i \in taken + 1 .. Len(passed),
                        OnlyPass(i), passed[i].resumed <= 1, passed[i].id \in files'
                 PROVE  disk'[passed[i].id] = Addr
    BY DEF WaitingWhole, CreateStep, OnlyPass
  <2>2. i \in DOMAIN passed /\ taken < i /\ passed[i].id \in Msgs
    <3>1. passed \in Seq([id : Msgs, dup : BOOLEAN, resumed : Nat]) /\ taken \in 0 .. Len(passed)
      BY DEF RouteInv, IInv, TypeOK
    <3>2. i \in 1 .. Len(passed) /\ taken < i
      BY <3>1, <2>1
    <3>3. passed[i] \in [id : Msgs, dup : BOOLEAN, resumed : Nat]
      BY <3>1, <3>2, ElementOfSeq
    <3>4. QED
      BY <3>1, <3>2, <3>3
  <2>3. CASE passed[i].id = m
    BY <2>1, <2>2, <2>3 DEF RouteInv, PassedCurrent, CreateStep
  <2>4. CASE passed[i].id # m
    <3>1. passed[i].id \in files /\ disk'[passed[i].id] = disk[passed[i].id]
      BY <2>1, <2>2, <2>4 DEF CreateStep, RouteInv, IInv, TypeOK
    <3>2. QED
      BY <2>1, <3>1 DEF RouteInv, WaitingWhole
  <2>5. QED
    BY <2>3, <2>4
<1>5. Whence'
  BY DEF RouteInv, CreateStep, Whence, RoutedWhole, OnlyPass
<1>6. QED
  BY <1>1, <1>2, <1>3, <1>4, <1>5 DEF RouteInv, CreateStep

(* The actions that create a file.                                          *)
LEMMA Creates ==
  ASSUME RouteInv, NEW m \in Msgs, m = tmsg,
         SOMNoFile(m) \/ SOMNew(m) \/ KillCreating(m) \/ ExitCreating(m)
  PROVE  CreateStep(m)
<1>t. /\ TypeOK /\ Phase /\ SavedSame /\ chan \in Chans /\ saved \in Chans
  BY DEF RouteInv, IInv, TypeOK
<1>1. ASSUME NEW f, NEW c \in Chans, NewFile(m, f, c)
      PROVE  /\ chan'.msgid = m /\ (saved' = chan' \/ (saved' = saved /\ chan'.state = "STARTING"))
             /\ files' = f \cup {m} /\ disk' = [disk EXCEPT ![m] = {}] /\ up' = up
             /\ UNCHANGED <<passed, taken, routed, tmsg, acked>>
  BY <1>1 DEF NewFile, Answer, Chans, routVars
<1>2. CASE SOMNoFile(m)
  <2>1. PICK c \in Chans : NewFile(m, files, c)
    BY <1>2, <1>t DEF SOMNoFile, Chans
  <2>2. Reading /\ chan.msgid = m /\ chan.state # "ENDED" /\ m \notin files
    BY <1>2 DEF SOMNoFile, MessageOf
  <2>3. QED
    BY <2>1, <2>2, <1>1 DEF CreateStep, SavedSame, Assembling, Reading
<1>3. CASE SOMNew(m)
  <2>1. PICK f \in SUBSET files : NewFile(m, f, chan)
    BY <1>3 DEF SOMNew
  <2>2. Reading /\ chan.msgid # m
    BY <1>3 DEF SOMNew, MessageOf
  <2>3. /\ chan'.msgid = m /\ (saved' = chan' \/ (saved' = saved /\ chan'.state = "STARTING"))
        /\ files' = f \cup {m} /\ disk' = [disk EXCEPT ![m] = {}] /\ up' = up
        /\ UNCHANGED <<passed, taken, routed, tmsg, acked>>
    BY <2>1, <1>1, <1>t
  <2>4. files' \subseteq files \cup {m} /\ m \in files'
    BY <2>1, <2>3
  <2>5. SavedSame'
    BY <2>2, <2>3 DEF SavedSame, Assembling, Reading
  <2>6. QED
    BY <2>2, <2>3, <2>4, <2>5 DEF CreateStep
<1>4. CASE KillCreating(m) \/ ExitCreating(m)
  <2>1. Creating(m) /\ saved' = chan' /\ chan'.msgid \in {m, saved.msgid}
        /\ (chan.msgid = m /\ saved.msgid = m => chan'.msgid = m)
    BY <1>4 DEF KillCreating, ExitCreating
  <2>2. /\ files' \subseteq files \cup {m} /\ m \in files' /\ disk' = [disk EXCEPT ![m] = {}]
        /\ UNCHANGED <<passed, taken, routed, tmsg, acked>>
        /\ ~up' /\ ~open' /\ Reading
        /\ chan.msgid # m \/ (chan.state # "ENDED" /\ m \notin files)
    BY <2>1 DEF Creating, Down, MessageOf, routVars
  <2>3. QED
    BY <2>1, <2>2 DEF CreateStep, SavedSame
<1>5. QED
  BY <1>2, <1>3, <1>4

(* The router deals with the oldest message handed over.                    *)
LEMMA RouterTakesRoute ==
  ASSUME RouteInv, IInv', RouterTakes
  PROVE  RouteInv'
<1> DEFINE k == taken + 1
           q == passed[taken + 1].id
<1>t. /\ passed \in Seq([id : Msgs, dup : BOOLEAN, resumed : Nat]) /\ taken \in 0 .. Len(passed)
      /\ taken < Len(passed) /\ k \in 1 .. Len(passed) /\ Len(passed) \in Nat
      /\ DOMAIN passed = 1 .. Len(passed)
  BY DEF RouteInv, IInv, TypeOK, RouterTakes
<1>a. /\ taken' = k /\ files' = files \ {q} /\ disk' = [disk EXCEPT ![q] = {}] /\ q \in Msgs
      /\ UNCHANGED <<passed, chan, saved, up, open, tmsg, acked>>
      /\ routed' = IF q \in files THEN routed \cup {[n |-> k, missing |-> Addr \ disk[q]]} ELSE routed
  <2>1. /\ taken' = k
        /\ files' = files \ {passed[taken'].id} /\ disk' = [disk EXCEPT ![passed[taken'].id] = {}]
        /\ routed' = IF passed[taken'].id \in files
                      THEN routed \cup {[n |-> taken', missing |-> Addr \ disk[passed[taken'].id]]}
                      ELSE routed
    BY DEF RouterTakes
  <2>2. UNCHANGED <<passed, chan, saved, up, open, tmsg, acked>>
    BY DEF RouterTakes, readVars, sendVars, histVars
  <2>3. passed[k] \in [id : Msgs, dup : BOOLEAN, resumed : Nat]
    BY <1>t, ElementOfSeq
  <2>4. QED
    BY <2>1, <2>2, <2>3
<1>1. KnownIds' /\ SavedSame'
  BY <1>a DEF RouteInv, KnownIds, SavedSame, Assembling
<1>2. PassedCurrent'
  <2>1. SUFFICES ASSUME NEW i \in DOMAIN passed, passed[i].id = tmsg
                 PROVE  /\ chan.msgid = tmsg /\ saved.msgid = tmsg
                        /\ OnlyPass(i) /\ k < i /\ tmsg \notin files' =>
                             chan.state = "ENDED" /\ saved.state = "ENDED"
    BY <1>a DEF PassedCurrent, OnlyPass
  <2>2. ASSUME OnlyPass(i), k < i, tmsg \notin files'
        PROVE  taken < i /\ tmsg \notin files
    <3>1. k \in DOMAIN passed /\ k # i /\ taken < i
      BY <1>t, <2>1, <2>2
    <3>2. q # tmsg
      BY <3>1, <2>1, <2>2 DEF OnlyPass
    <3>3. QED
      BY <1>a, <2>2, <3>1, <3>2
  <2>3. QED
    BY <2>1, <2>2 DEF RouteInv, PassedCurrent
<1>3. OpenHas'
  <2>1. q = chan.msgid => Given(chan.msgid)
    BY <1>t DEF Given
  <2>2. QED
    BY <1>a, <2>1 DEF RouteInv, OpenHas, Given
<1>4. WaitingWhole'
  <2>1. SUFFICES ASSUME "slow" \notin Faults, NEW i \in k + 1 .. Len(passed),
                        OnlyPass(i), passed[i].resumed <= 1, passed[i].id \in files'
                 PROVE  disk'[passed[i].id] = Addr
    BY <1>a DEF WaitingWhole, OnlyPass
  <2>2. i \in taken + 1 .. Len(passed)
    BY <1>t
  <2>3. disk[passed[i].id] = Addr /\ passed[i].id # q
    BY <1>a, <2>1, <2>2 DEF RouteInv, WaitingWhole
  <2>4. QED
    BY <1>a, <2>1, <2>3 DEF RouteInv, IInv, TypeOK
<1>5. Whence'
  <2>1. SUFFICES ASSUME "slow" \notin Faults, NEW r \in routed', passed[r.n].resumed <= 1, OnlyPass(r.n)
                 PROVE  r.missing = {}
    BY <1>a DEF Whence, RoutedWhole, OnlyPass
  <2>2. CASE r \in routed
    BY <2>1, <2>2 DEF RouteInv, Whence, RoutedWhole
  <2>3. CASE r \notin routed
    <3>1. q \in files /\ r = [n |-> k, missing |-> Addr \ disk[q]]
      BY <1>a, <2>3
    <3>2. k \in taken + 1 .. Len(passed)
      BY <1>t
    <3>3. disk[q] = Addr
      BY <2>1, <3>1, <3>2 DEF RouteInv, WaitingWhole
    <3>4. QED
      BY <3>1, <3>3
  <2>4. QED
    BY <2>2, <2>3
<1>6. QED
  BY <1>1, <1>2, <1>3, <1>4, <1>5 DEF RouteInv

(* A message the transmitter starts with was never passed on.               *)
LEMMA NextMessageRoute ==
  ASSUME RouteInv, IInv', NEW m \in Msgs, NextMessage(m)
  PROVE  RouteInv'
<1>a. /\ tmsg' = m /\ tmsg \in acked /\ m \notin acked
      /\ UNCHANGED <<up, open, chan, saved, files, disk, passed, taken, routed, acked>>
  BY DEF NextMessage, readVars, fileVars, routVars, histVars
<1>1. KnownIds' /\ SavedSame'
  BY <1>a DEF RouteInv, KnownIds, SavedSame, Assembling
<1>2. \A i \in DOMAIN passed : passed[i].id # m
  BY <1>a DEF RouteInv, KnownIds
<1>3. PassedCurrent'
  BY <1>a, <1>2 DEF PassedCurrent
<1>4. OpenHas' /\ WaitingWhole' /\ Whence'
  BY <1>a DEF RouteInv, OpenHas, Given, WaitingWhole, Whence, RoutedWhole, OnlyPass
<1>5. QED
  BY <1>1, <1>3, <1>4 DEF RouteInv

(* The invariant holds at the start ...                                     *)
LEMMA InitRoute ==
  ASSUME Init
  PROVE  RouteInv
<1>1. IInv
  BY InitInv
<1>2. KnownIds /\ SavedSame /\ PassedCurrent /\ OpenHas /\ WaitingWhole /\ Whence
  BY DEF Init, KnownIds, SavedSame, PassedCurrent, OpenHas, WaitingWhole, Whence, RoutedWhole, Assembling
<1>3. QED
  BY <1>1, <1>2 DEF RouteInv

(* ... and every step is of one of the kinds above.                         *)
LEMMA StepKinds ==
  ASSUME RouteInv, Next
  PROVE  \/ KeepStep \/ PassStep \/ RouterTakes
         \/ \E m \in Msgs : CreateStep(m) \/ NextMessage(m)
<1>p. pc \in {"ready", "passed", "acked"}
  BY DEF RouteInv, IInv, TypeOK
<1>1. CASE \E a \in Addr, n \in 1 .. MaxPkt : RecvData(a, n)
  <2>1. PICK a \in Addr, n \in 1 .. MaxPkt : RecvData(a, n)
    BY <1>1
  <2>2. CASE pc' = pc
    BY <2>1, <2>2, DataKeeps DEF RecvData
  <2>3. CASE pc' # pc
    <3>1. FillingData(a, n)
      BY <2>1, <2>3 DEF RecvData, DuplicateData, NextData, AheadData, DroppedData
    <3>2. QED
      BY <3>1, <2>3, Passes
  <2>4. QED
    BY <2>2, <2>3
<1>2. CASE \E m \in Msgs : RecvEOM(m)
  <2>1. PICK m \in Msgs : EOMAgain(m) \/ EOMOfNothing(m) \/ EOMOfSome(m) \/ EOMWhileStarting(m)
    BY <1>2 DEF RecvEOM
  <2>2. CASE EOMOfSome(m) /\ pc' # pc
    BY <2>2, Passes
  <2>3. CASE ~(EOMOfSome(m) /\ pc' # pc)
    BY <2>1, <2>3, AnswersKeep, LivesKeep
  <2>4. QED
    BY <2>2, <2>3
<1>3. CASE \E m \in Msgs : RecvSOM(m)
  <2>1. PICK m \in Msgs : RecvSOM(m)
    BY <1>3
  <2>2. CASE SOMAgain(m) \/ SOMRepeated(m) \/ SOMResumed(m)
    BY <2>2, AnswersKeep
  <2>3. CASE SOMNoFile(m) \/ SOMNew(m)
    <3>1. m = tmsg
      BY <2>1 DEF RecvSOM
    <3>2. QED
      BY <2>3, <3>1, Creates
  <2>4. QED
    BY <2>1, <2>2, <2>3 DEF RecvSOM
<1>4. CASE \E m \in Msgs : NextMessage(m)
  BY <1>4
<1>5. CASE \E m \in Msgs : KillCreating(m) \/ ExitCreating(m)
  <2>1. PICK m \in Msgs : KillCreating(m) \/ ExitCreating(m)
    BY <1>5
  <2>2. m = tmsg
    BY <2>1 DEF KillCreating, ExitCreating, Creating
  <2>3. QED
    BY <2>1, <2>2, Creates
<1>6. CASE SendEOMA \/ EndMesgDone
  <2>1. tmsg \in Msgs
    BY DEF RouteInv, IInv, TypeOK
  <2>2. QED
    BY <1>6, <2>1, AnswersKeep
<1>7. CASE \/ RecvMQE \/ Checkpoint \/ Flush \/ Stop \/ ErrorExit \/ Echo \/ Kill \/ Restart
          \/ ExitPassing \/ ExitNAKing
  BY <1>7, LivesKeep
<1>8. QED
  BY <1>1, <1>2, <1>3, <1>4, <1>5, <1>6, <1>7 DEF Next

(* Every step keeps the invariant.                                          *)
LEMMA NextRoute ==
  ASSUME RouteInv, [Next]_vars
  PROVE  RouteInv'
<1>1. IInv'
  BY NextInv DEF RouteInv
<1>2. CASE Next
  BY <1>1, <1>2, StepKinds, KeepRoute, PassRoute, CreateRoute, RouterTakesRoute, NextMessageRoute
<1>3. CASE UNCHANGED vars
  BY <1>1, <1>3 DEF RouteInv, KnownIds, SavedSame, PassedCurrent, OpenHas, WaitingWhole, Whence,
     RoutedWhole, Given, OnlyPass, Assembling, vars, readVars, fileVars, routVars, sendVars, histVars
<1>4. QED
  BY <1>2, <1>3

(* RouteInv holds throughout, whatever the faults.                          *)
THEOREM RoutingInvariant == Spec => []RouteInv
<1>1. Init => RouteInv
  BY InitRoute
<1>2. RouteInv /\ [Next]_vars => RouteInv'
  BY NextRoute
<1>3. QED
  BY <1>1, <1>2, PTL DEF Spec

(* What the router finds is whole (RoutedWhole; EndMesg and the clean-up in *)
(* Recv_SOM against the router's own pace), if the data rate does not       *)
(* collapse: later steps, of this life or another, do not spoil a file that *)
(* waits for the router.                                                    *)
THEOREM ReceiverRoutedWhole ==
  ASSUME "slow" \notin Faults
  PROVE  Spec => []RoutedWhole
<1>1. RouteInv => RoutedWhole
  BY DEF RouteInv, Whence
<1>2. QED
  BY <1>1, RoutingInvariant, PTL

-----------------------------------------------------------------------------
(* The statement about acknowledgements needs a circuit that does not echo  *)
(* and a file system that does not fill up: an echo and a refused start     *)
(* both make the receiver abort a message it then acknowledges.             *)
NoEndFaults == "space" \notin Faults /\ "echo" \notin Faults

(* Data that does not complete a message changes nothing EndInv speaks of.  *)
LEMMA DataEnd ==
  ASSUME RouteInv, EndInv, NoEndFaults, NEW a \in Addr, NEW n \in 1 .. MaxPkt, pc' = pc,
         RecvData(a, n)
  PROVE  /\ EndInv'
         /\ UNCHANGED <<passed, taken, routed, files>>
         /\ chan'.msgid = chan.msgid /\ chan'.state = chan.state
<1>t. chan \in Chans /\ saved \in Chans /\ pc = "ready"
  BY DEF RouteInv, IInv, TypeOK, Reading, RecvData, DuplicateData, FillingData, NextData, AheadData,
     DroppedData
<1>1. /\ UNCHANGED <<passed, taken, routed, files, acked, halfway, somad, up>>
      /\ chan'.msgid = chan.msgid /\ chan'.state = chan.state
      /\ saved' = saved \/ saved' = chan'
  <2>1. CASE DuplicateData(a, n)
    BY <2>1 DEF DuplicateData, Stay, sendVars, histVars
  <2>2. CASE FillingData(a, n)
    <3>1. UNCHANGED passed
      BY <2>2, <1>t DEF FillingData, PassMessage
    <3>2. chan'.msgid = chan.msgid /\ chan'.state = chan.state
      BY <2>2, <1>t DEF FillingData, Chans
    <3>3. QED
      BY <2>2, <3>1, <3>2 DEF FillingData, Stay, sendVars, histVars
  <2>3. CASE NextData(a, n)
    <3>1. chan'.msgid = chan.msgid /\ chan'.state = chan.state
      BY <2>3, <1>t DEF NextData, Chans
    <3>2. QED
      BY <2>3, <3>1 DEF NextData, Stay, sendVars, histVars
  <2>4. CASE AheadData(a, n)
    <3>1. chan'.msgid = chan.msgid /\ chan'.state = chan.state
      BY <2>4, <1>t DEF AheadData, Chans
    <3>2. QED
      BY <2>4, <3>1 DEF AheadData, sendVars, histVars
  <2>5. QED
    BY <2>1, <2>2, <2>3, <2>4 DEF RecvData, DroppedData, NoEndFaults
<1>2. QED
  BY <1>1 DEF EndInv, EOMAHonest, Given

(* A message handed over counts among those that may be acknowledged.       *)
LEMMA PassEnd ==
  ASSUME RouteInv, EndInv, PassStep
  PROVE  EndInv' /\ (\A m \in Msgs : Given(m)' <=> Given(m) \/ m = chan.msgid)
<1> DEFINE new == [id |-> chan.msgid, dup |-> chan.rdup, resumed |-> resumed]
           k == Len(passed) + 1
<1>t. /\ passed \in Seq([id : Msgs, dup : BOOLEAN, resumed : Nat]) /\ chan \in Chans /\ chan.msgid \in Msgs
      /\ resumed \in Nat /\ saved.msgid = chan.msgid /\ acked \subseteq Msgs
  BY DEF RouteInv, IInv, TypeOK, Phase, Chans, PassStep, Unfinished, SavedSame, Reading
<1>a. /\ passed'[k] = new /\ DOMAIN passed' = 1 .. k /\ DOMAIN passed = 1 .. Len(passed)
      /\ \A i \in DOMAIN passed : passed'[i] = passed[i]
      /\ Len(passed) \in Nat
  <2>1. new \in [id : Msgs, dup : BOOLEAN, resumed : Nat]
    BY <1>t DEF Chans
  <2>2. QED
    BY <1>t, <2>1 DEF PassStep
<1>b. /\ k \in DOMAIN passed' /\ DOMAIN passed \subseteq DOMAIN passed'
      /\ \A i \in DOMAIN passed' : i = k \/ i \in DOMAIN passed
  BY <1>a
<1>1. ASSUME NEW m \in Msgs PROVE Given(m)' <=> Given(m) \/ m = chan.msgid
  <2>1. Given(m) => Given(m)'
    BY <1>a, <1>b DEF Given
  <2>2. m = chan.msgid => Given(m)'
    BY <1>a, <1>b DEF Given
  <2>3. Given(m)' => Given(m) \/ m = chan.msgid
    BY <1>a, <1>b DEF Given
  <2>4. QED
    BY <2>1, <2>2, <2>3
<1>2. passed'[k].id = chan'.msgid /\ passed'[k].id = saved'.msgid
  BY <1>a DEF PassStep
<1>3. /\ \E i \in DOMAIN passed' : passed'[i].id = chan'.msgid
      /\ \E i \in DOMAIN passed' : passed'[i].id = saved'.msgid
  BY <1>2, <1>b
<1>4. EOMAHonest'
  <2>1. \A m \in acked : m \in halfway \/ Given(m)
    BY DEF EndInv, EOMAHonest, Given
  <2>2. \A m \in acked' : m \in halfway' \/ Given(m)'
    BY <1>1, <1>t, <2>1 DEF PassStep
  <2>3. QED
    BY <2>2 DEF EOMAHonest, Given
<1>5. somad' => up' /\ chan'.state # "STARTING"
  BY DEF EndInv, PassStep
<1>6. EndInv'
  BY <1>3, <1>4, <1>5 DEF EndInv, Given
<1>7. QED
  BY <1>1, <1>6

(* An acknowledgement goes out for a message EndMesg has handed over, or    *)
(* one that counts as received; an abort by the other end's MQE is of such a*)
(* message.                                                                 *)
LEMMA OtherEnd ==
  ASSUME RouteInv, EndInv, NoEndFaults, Next, ~PassStep,
         ~(\E a \in Addr, n \in 1 .. MaxPkt : RecvData(a, n))
  PROVE  EndInv'
<1>t. /\ TypeOK /\ Phase /\ chan \in Chans /\ saved \in Chans
      /\ (~up => chan = saved) /\ KnownIds
  BY DEF RouteInv, IInv, TypeOK, SavedSame
<1> DEFINE G(m) == \E i \in DOMAIN passed : passed[i].id = m
           H(m) == m \in halfway
<1>e. /\ \A m \in acked : H(m) \/ G(m)
      /\ chan.state = "ENDED" => G(chan.msgid) \/ H(chan.msgid)
      /\ saved.state = "ENDED" => G(saved.msgid) \/ H(saved.msgid)
      /\ pc # "ready" => G(chan.msgid)
      /\ somad => up /\ chan.state # "STARTING"
  BY DEF EndInv, EOMAHonest, Given
<1>g. ASSUME passed' = passed, halfway \subseteq halfway', \A m \in acked' : H(m) \/ G(m),
             chan'.state = "ENDED" => G(chan'.msgid) \/ chan'.msgid \in halfway',
             saved'.state = "ENDED" => G(saved'.msgid) \/ saved'.msgid \in halfway',
             pc' # "ready" => G(chan'.msgid),
             somad' => up' /\ chan'.state # "STARTING"
      PROVE  EndInv'
  BY <1>g DEF EndInv, EOMAHonest, Given
<1>h. halfway' = halfway => \A m : m \in halfway' <=> H(m)
  OBVIOUS
<1> HIDE DEF G, H
<1>1. CASE SendEOMA
  BY <1>1, <1>e, <1>g, <1>h DEF SendEOMA, fileVars, routVars, sendVars
<1>2. CASE EndMesgDone
  <2>1. chan'.msgid = chan.msgid /\ chan'.state = "ENDED"
    BY <1>2, <1>t DEF EndMesgDone, Chans
  <2>2. QED
    BY <1>2, <1>e, <1>g, <1>h, <2>1 DEF EndMesgDone, fileVars, routVars, sendVars, histVars
<1>3. CASE \E m \in Msgs : EOMAgain(m) \/ SOMAgain(m)
  BY <1>3, <1>e, <1>g, <1>h DEF EOMAgain, SOMAgain, MessageOf, Reading, fileVars, routVars, sendVars
<1>4. CASE \E m \in Msgs : EOMOfNothing(m)
  <2>1. chan'.msgid = chan.msgid /\ chan'.state = chan.state
    BY <1>4, <1>t DEF EOMOfNothing, Chans
  <2>2. QED
    BY <1>4, <1>e, <1>g, <1>h, <2>1 DEF EOMOfNothing, fileVars, routVars, sendVars, histVars
<1>5. CASE \E m \in Msgs : EOMOfSome(m)
  <2>1. PICK m \in Msgs : EOMOfSome(m)
    BY <1>5
  <2>2. pc' = pc /\ passed' = passed
    <3>1. pc' = pc
      BY <2>1, Passes
    <3>2. QED
      BY <2>1, <3>1 DEF EOMOfSome, PassMessage, Reading
  <2>3. chan'.msgid = chan.msgid /\ chan'.state = "ENDING" /\ chan.state # "ENDED"
    BY <2>1, <1>t DEF EOMOfSome, Chans, Assembling
  <2>4. saved' = saved \/ saved'.state # "ENDED"
    BY <2>1, <2>3, <1>t DEF EOMOfSome, Chans
  <2>5. QED
    BY <2>1, <2>2, <2>3, <2>4, <1>e, <1>g, <1>h DEF EOMOfSome, Reading, sendVars, histVars
<1>6. CASE \E m \in Msgs : m = tmsg /\ somad /\ EOMWhileStarting(m)
  BY <1>6, <1>e DEF EOMWhileStarting
<1>7. ASSUME NEW c \in Chans, NEW at, Answer(c, at)
      PROVE  chan'.state = "ACTIVE" /\ saved' = chan'
  BY <1>7 DEF Answer, Chans, NoEndFaults
<1>8. CASE \E m \in Msgs : SOMRepeated(m)
  <2>1. chan'.state = "ACTIVE" /\ saved' = chan'
    BY <1>7, <1>8, <1>t DEF SOMRepeated
  <2>2. QED
    BY <1>8, <1>e, <1>g, <1>h, <2>1 DEF SOMRepeated, Reading, fileVars, routVars, histVars
<1>9. CASE \E m \in Msgs : SOMResumed(m)
  <2>1. chan'.state = "ACTIVE" /\ saved' = chan'
    BY <1>7, <1>9, <1>t DEF SOMResumed
  <2>2. QED
    BY <1>9, <1>e, <1>g, <1>h, <2>1 DEF SOMResumed, Reading, fileVars, routVars
<1>10. CASE \E m \in Msgs : SOMNoFile(m) \/ SOMNew(m)
  <2>0. PICK m \in Msgs : SOMNoFile(m) \/ SOMNew(m)
    BY <1>10
  <2>1. \E f, c : c \in Chans /\ Reading /\ NewFile(m, f, c)
    <3>1. CASE SOMNoFile(m)
      <4>1. [chan EXCEPT !.rdup = TRUE] \in Chans
        BY <1>t DEF Chans
      <4>2. QED
        BY <3>1, <4>1 DEF SOMNoFile
    <3>2. CASE SOMNew(m)
      BY <3>2, <1>t DEF SOMNew
    <3>3. QED
      BY <2>0, <3>1, <3>2
  <2>2. PICK f, c : c \in Chans /\ Reading /\ NewFile(m, f, c)
    BY <2>1
  <2>3. [c EXCEPT !.msgid = m, !.goodaddr = MsgSize] \in Chans
    <3>1. MsgSize \in 0 .. MsgSize
      OBVIOUS
    <3>2. QED
      BY <2>2, <3>1 DEF Chans
  <2>4. chan'.state = "ACTIVE" /\ saved' = chan'
    BY <1>7, <2>2, <2>3 DEF NewFile
  <2>5. QED
    BY <2>2, <2>4, <1>e, <1>g, <1>h DEF NewFile, Reading, routVars
<1>11. CASE \E m \in Msgs : NextMessage(m)
  BY <1>11, <1>e, <1>g, <1>h DEF NextMessage, readVars, fileVars, routVars, histVars
<1>12. CASE \E m \in Msgs : KillCreating(m) \/ ExitCreating(m)
  <2>1. PICK m \in Msgs : KillCreating(m) \/ ExitCreating(m)
    BY <1>12
  <2>2. ~somad' /\ pc' = "ready" /\ UNCHANGED <<passed, acked>>
    BY <2>1 DEF KillCreating, ExitCreating, Creating, Down, routVars
  <2>3. CASE KillCreating(m)
    BY <2>2, <2>3, <1>e, <1>g, <1>h DEF KillCreating
  <2>4. CASE ExitCreating(m)
    <3>1. chan'.state = "ENDED" => chan'.msgid \in halfway'
      BY <2>4 DEF ExitCreating, Creating, MessageOf
    <3>2. halfway \subseteq halfway' /\ saved' = chan'
      BY <2>4 DEF ExitCreating
    <3>3. QED
      BY <2>2, <3>1, <3>2, <1>e, <1>g
  <2>5. QED
    BY <2>1, <2>3, <2>4
<1>13. CASE RecvMQE
  <2>1. PICK f \in SUBSET files : Abort(chan', f)
    BY <1>13 DEF RecvMQE, RecvRMQE
  <2>2. chan'.msgid = chan.msgid /\ (chan'.state = "STARTING" => chan = chan')
    BY <2>1, <1>t DEF Abort, Chans
  <2>3. chan'.state = "ENDED" => G(chan'.msgid) \/ H(chan'.msgid)
    <3>1. CASE chan.state = "ENDED"
      BY <2>2, <3>1, <1>e
    <3>2. CASE chan.state = "IDLE"
      BY <2>1, <3>2 DEF Abort
    <3>3. CASE chan.state \notin {"ENDED", "IDLE"}
      <4>1. chan.msgid \in acked
        BY <1>13, <3>3, <1>t DEF KnownIds, Phase, RecvMQE
      <4>2. QED
        BY <4>1, <2>2, <1>e
    <3>4. QED
      BY <3>1, <3>2, <3>3
  <2>4. QED
    BY <1>13, <1>e, <1>g, <1>h, <2>2, <2>3 DEF RecvMQE, RecvRMQE, routVars, sendVars, histVars
<1>14. CASE Checkpoint \/ Flush
  BY <1>14, <1>e, <1>g, <1>h DEF Checkpoint, Flush, readVars, fileVars, routVars, sendVars, histVars
<1>15. CASE Stop \/ ErrorExit \/ Kill
  BY <1>15, <1>e, <1>g, <1>h DEF Stop, ErrorExit, Kill, Down, fileVars, routVars, histVars
<1>16. CASE Restart
  <2>1. chan'.msgid = saved.msgid /\ saved' = chan' /\ ~somad /\ pc = "ready"
        /\ (chan'.state = "ENDED" => saved.state = "ENDED")
    BY <1>16, <1>t, <1>e DEF Restart, Chans, Phase
  <2>2. QED
    BY <1>16, <1>e, <1>g, <1>h, <2>1 DEF Restart, fileVars, routVars, sendVars
<1>17. CASE RouterTakes
  BY <1>17, <1>e, <1>g, <1>h DEF RouterTakes, readVars, sendVars, histVars
<1>18. CASE ExitPassing
  <2>1. chan.state = "ENDING"
    BY <1>18, <1>t DEF Phase, ExitPassing
  <2>2. QED
    BY <1>18, <2>1, <1>e, <1>g, <1>h DEF ExitPassing, Down, fileVars, routVars, histVars
<1>19. CASE ExitNAKing
  <2>1. chan'.state # "ENDED" /\ saved' = chan'
    BY <1>19, <1>t DEF ExitNAKing, Assembling, Chans
  <2>2. ~somad' /\ pc' = "ready" /\ UNCHANGED <<passed, acked, halfway>>
    BY <1>19 DEF ExitNAKing, Down, routVars, histVars
  <2>3. QED
    BY <2>1, <2>2, <1>e, <1>g, <1>h
<1>20. QED
  BY <1>1, <1>2, <1>3, <1>4, <1>5, <1>6, <1>8, <1>9, <1>10, <1>11, <1>12, <1>13, <1>14, <1>15, <1>16, <1>17,
     <1>18, <1>19
     DEF Next, RecvEOM, RecvSOM, Echo, NoEndFaults

(* EndInv is inductive, given RouteInv.                                     *)
LEMMA NextEnd ==
  ASSUME RouteInv, EndInv, NoEndFaults, [Next]_vars
  PROVE  EndInv'
<1>1. CASE PassStep
  BY <1>1, PassEnd
<1>2. CASE ~PassStep /\ \E a \in Addr, n \in 1 .. MaxPkt : RecvData(a, n)
  <2>1. PICK a \in Addr, n \in 1 .. MaxPkt : RecvData(a, n)
    BY <1>2
  <2>2. pc' = pc
    <3>1. SUFFICES ASSUME pc' # pc PROVE FALSE
      OBVIOUS
    <3>2. FillingData(a, n)
      BY <2>1, <3>1 DEF RecvData, DuplicateData, NextData, AheadData, DroppedData
    <3>3. QED
      BY <1>2, <3>1, <3>2, Passes
  <2>3. QED
    BY <2>1, <2>2, DataEnd
<1>3. CASE Next /\ ~PassStep /\ ~(\E a \in Addr, n \in 1 .. MaxPkt : RecvData(a, n))
  BY <1>3, OtherEnd
<1>4. CASE UNCHANGED vars
  BY <1>4 DEF EndInv, EOMAHonest, Given, vars, readVars, routVars, sendVars, histVars
<1>5. QED
  BY <1>1, <1>2, <1>3, <1>4

(* Nothing has been received at the start.                                  *)
LEMMA InitEnd ==
  ASSUME Init
  PROVE  EndInv
  BY DEF Init, EndInv, EOMAHonest

(* An EOMA, the transmitter's licence to delete its copy, is sent only for  *)
(* a message that was passed to the router, or one whose start ended the    *)
(* daemon half-way (EOMAHonest; EndMesg, Recv_SOM, Recv_EOM, AbortInMesgs), *)
(* across any crashes, as long as the circuit does not echo and the spool   *)
(* file system has room.                                                    *)
THEOREM ReceiverEOMAHonest ==
  ASSUME "space" \notin Faults, "echo" \notin Faults
  PROVE  Spec => []EOMAHonest
<1>1. Init => RouteInv /\ EndInv
  BY InitRoute, InitEnd
<1>2. RouteInv /\ EndInv /\ [Next]_vars => (RouteInv /\ EndInv)'
  BY NextRoute, NextEnd DEF NoEndFaults
<1>3. RouteInv /\ EndInv => EOMAHonest
  BY DEF EndInv
<1>4. QED
  BY <1>1, <1>2, <1>3, PTL DEF Spec

(* Only a SOMA that cannot be written leaves a message half-way.            *)
LEMMA HalfwayStays ==
  ASSUME "pipe" \notin Faults, [Next]_vars
  PROVE  halfway' = halfway
<1>1. CASE \E a \in Addr, n \in 1 .. MaxPkt : RecvData(a, n)
  BY <1>1 DEF RecvData, DuplicateData, FillingData, NextData, AheadData, DroppedData, Stay, histVars
<1>2. CASE \E m \in Msgs : RecvEOM(m)
  BY <1>2 DEF RecvEOM, EOMAgain, EOMOfNothing, EOMOfSome, EOMWhileStarting, histVars
<1>3. CASE \E m \in Msgs : RecvSOM(m)
  BY <1>3 DEF RecvSOM, SOMAgain, SOMRepeated, SOMResumed, SOMNoFile, SOMNew, NewFile, histVars
<1>4. CASE \E m \in Msgs : NextMessage(m) \/ KillCreating(m)
  BY <1>4 DEF NextMessage, KillCreating, histVars
<1>5. CASE SendEOMA \/ EndMesgDone \/ RecvMQE \/ Checkpoint \/ Flush
  BY <1>5 DEF SendEOMA, EndMesgDone, RecvMQE, RecvRMQE, Checkpoint, Flush, histVars
<1>6. CASE Stop \/ ErrorExit \/ Echo \/ Kill \/ Restart \/ RouterTakes
  BY <1>6 DEF Stop, ErrorExit, Echo, Kill, Restart, RouterTakes, histVars
<1>7. CASE UNCHANGED vars
  BY <1>7 DEF vars, histVars
<1>8. ~(\E m \in Msgs : ExitCreating(m)) /\ ~ExitPassing /\ ~ExitNAKing
  BY DEF ExitCreating, ExitPassing, ExitNAKing
<1>9. QED
  BY <1>1, <1>2, <1>3, <1>4, <1>5, <1>6, <1>7, <1>8 DEF Next

(* If moreover the writer takes what the handlers give it, an EOMA is sent  *)
(* only for a message that was passed to the router.                        *)
THEOREM ReceiverEOMAStrict ==
  ASSUME "space" \notin Faults, "echo" \notin Faults, "pipe" \notin Faults
  PROVE  Spec => [](EOMAHonest /\ \A m \in acked : Given(m))
<1>1. Init => RouteInv /\ EndInv /\ halfway = {}
  BY InitRoute, InitEnd DEF Init
<1>2. RouteInv /\ EndInv /\ halfway = {} /\ [Next]_vars => (RouteInv /\ EndInv /\ halfway = {})'
  BY NextRoute, NextEnd, HalfwayStays DEF NoEndFaults
<1>3. RouteInv /\ EndInv /\ halfway = {} => EOMAHonest /\ \A m \in acked : Given(m)
  BY DEF EndInv, EOMAHonest, Given
<1>4. QED
  BY <1>1, <1>2, <1>3, PTL DEF Spec

-----------------------------------------------------------------------------
(* When nothing but Error() ends a session.                                   *)
CalmFaults == Faults \subseteq {"error"}

(* Steps that change neither the files nor whether a message is being       *)
(* received.                                                                *)
SpoolSame ==
  /\ UNCHANGED <<passed, taken, routed, files>>
  /\ chan'.msgid = chan.msgid
  /\ pc' = "ready" /\ Unfinished(chan') <=> pc = "ready" /\ Unfinished(chan)

(* They keep SpoolInv.                                                      *)
LEMMA SameSpool ==
  ASSUME SpoolInv, SpoolSame
  PROVE  SpoolInv'
  BY DEF SpoolInv, SpoolSame, Given, Routed, Waiting

(* What is handed over was not before, and its file was being received.     *)
LEMMA PassSpool ==
  ASSUME CalmInv, PassStep
  PROVE  SpoolInv' /\ PassesNew
<1> DEFINE new == [id |-> chan.msgid, dup |-> chan.rdup, resumed |-> resumed]
           k == Len(passed) + 1
           c == chan.msgid
<1>t. /\ passed \in Seq([id : Msgs, dup : BOOLEAN, resumed : Nat]) /\ taken \in 0 .. Len(passed)
      /\ chan \in Chans /\ c \in Msgs /\ resumed \in Nat /\ Unfinished(chan) /\ pc = "ready" /\ open
  BY DEF CalmInv, RouteInv, IInv, TypeOK, Phase, Chans, PassStep, Unfinished, Reading
<1>a. /\ Len(passed') = k /\ passed'[k] = new /\ DOMAIN passed' = 1 .. k /\ DOMAIN passed = 1 .. Len(passed)
      /\ \A i \in DOMAIN passed : passed'[i] = passed[i]
      /\ Len(passed) \in Nat
  <2>1. new \in [id : Msgs, dup : BOOLEAN, resumed : Nat]
    BY <1>t DEF Chans
  <2>2. QED
    BY <1>t, <2>1 DEF PassStep
<1>b. /\ k \in DOMAIN passed' /\ DOMAIN passed \subseteq DOMAIN passed' /\ k \notin DOMAIN passed
      /\ \A i \in DOMAIN passed' : i = k \/ i \in DOMAIN passed
      /\ taken < k
  BY <1>a, <1>t
<1>s. /\ taken' = taken /\ routed' = routed /\ files' = files /\ pc' = "passed" /\ new.id = c
  BY DEF PassStep
<1>1. \A i \in DOMAIN passed : passed[i].id # c
  BY <1>t DEF CalmInv, SpoolInv, Given
<1>2. c \in files
  BY <1>1, <1>t DEF CalmInv, RouteInv, OpenHas, Given
<1>3. \A i, j \in DOMAIN passed' : passed'[i].id = passed'[j].id => i = j
  <2>1. \A i, j \in DOMAIN passed : passed[i].id = passed[j].id => i = j
    BY DEF CalmInv, SpoolInv
  <2>2. QED
    BY <1>1, <1>a, <1>b, <1>s, <2>1
<1>4. \A i \in DOMAIN passed' : Routed(i)' \/ (taken < i /\ passed'[i].id \in files)
  <2>1. \A i \in DOMAIN passed : Routed(i) \/ (taken < i /\ passed[i].id \in files)
    BY DEF CalmInv, SpoolInv
  <2>2. QED
    BY <1>2, <1>a, <1>b, <1>s, <2>1 DEF Routed
<1>5. \A m \in files : m \in Waiting'
  <2>1. ASSUME NEW m \in files PROVE \E i \in taken + 1 .. k : passed'[i].id = m
    <3>1. CASE m = c
      <4>1. k \in taken + 1 .. k
        BY <1>t, <1>a
      <4>2. QED
        BY <3>1, <1>a, <1>s, <4>1
    <3>2. CASE m # c
      <4>1. PICK i \in taken + 1 .. Len(passed) : passed[i].id = m
        BY <3>2 DEF CalmInv, SpoolInv, Waiting
      <4>2. i \in DOMAIN passed /\ i \in taken + 1 .. k
        BY <1>t, <1>a
      <4>3. QED
        BY <1>a, <4>1, <4>2
    <3>3. QED
      BY <3>1, <3>2
  <2>2. QED
    BY <2>1, <1>a, <1>s DEF Waiting
<1>6. SpoolInv'
  BY <1>3, <1>4, <1>5, <1>s DEF SpoolInv
<1>7. PassesNew
  BY <1>1, <1>a, <1>s DEF PassesNew
<1>8. QED
  BY <1>6, <1>7

(* The router takes the file of the oldest message, and of no other.        *)
LEMMA RouterTakesSpool ==
  ASSUME CalmInv, RouterTakes
  PROVE  SpoolInv'
<1> DEFINE k == taken + 1
           q == passed[taken + 1].id
<1>t. /\ passed \in Seq([id : Msgs, dup : BOOLEAN, resumed : Nat]) /\ taken \in 0 .. Len(passed)
      /\ taken < Len(passed) /\ k \in 1 .. Len(passed) /\ Len(passed) \in Nat
      /\ DOMAIN passed = 1 .. Len(passed)
      /\ \A r \in routed : r.n \in 1 .. taken
  BY DEF CalmInv, RouteInv, IInv, TypeOK, RouterTakes
<1>a. /\ taken' = k /\ files' = files \ {q}
      /\ UNCHANGED <<passed, chan, pc>>
      /\ routed' = IF q \in files THEN routed \cup {[n |-> k, missing |-> Addr \ disk[q]]} ELSE routed
  <2>1. /\ taken' = k /\ files' = files \ {passed[taken'].id}
        /\ routed' = IF passed[taken'].id \in files
                      THEN routed \cup {[n |-> taken', missing |-> Addr \ disk[passed[taken'].id]]}
                      ELSE routed
    BY DEF RouterTakes
  <2>2. UNCHANGED <<passed, chan, pc>>
    BY DEF RouterTakes, readVars, sendVars, histVars
  <2>4. QED
    BY <2>1, <2>2
<1>b. q \in files
  <2>1. ~Routed(k)
    BY <1>t DEF Routed
  <2>2. QED
    BY <1>t, <2>1 DEF CalmInv, SpoolInv
<1>1. \A i \in DOMAIN passed : i # k => passed[i].id # q
  BY <1>t DEF CalmInv, SpoolInv
<1>2. \A i \in DOMAIN passed : Routed(i)' \/ (k < i /\ passed[i].id \in files')
  <2>1. SUFFICES ASSUME NEW i \in DOMAIN passed PROVE Routed(i)' \/ (k < i /\ passed[i].id \in files')
    OBVIOUS
  <2>2. CASE i = k
    <3>1. [n |-> k, missing |-> Addr \ disk[q]] \in routed'
      BY <1>a, <1>b
    <3>2. QED
      BY <2>2, <3>1 DEF Routed
  <2>3. CASE i # k
    <3>1. Routed(i) \/ (taken < i /\ passed[i].id \in files)
      BY DEF CalmInv, SpoolInv
    <3>2. Routed(i) => Routed(i)'
      BY <1>a DEF Routed
    <3>3. taken < i => k < i
      BY <1>t, <2>3
    <3>4. QED
      BY <1>1, <1>a, <2>3, <3>1, <3>2, <3>3
  <2>4. QED
    BY <2>2, <2>3
<1>3. \A m \in files' : m \in Waiting' \/ (pc = "ready" /\ Unfinished(chan) /\ m = chan.msgid)
  <2>1. SUFFICES ASSUME NEW m \in files', m \in Waiting
                 PROVE  \E i \in k + 1 .. Len(passed) : passed[i].id = m
    BY <1>a DEF CalmInv, SpoolInv, Waiting
  <2>2. PICK i \in taken + 1 .. Len(passed) : passed[i].id = m
    BY <2>1 DEF Waiting
  <2>3. i # k
    BY <1>a, <2>1, <2>2
  <2>4. i \in k + 1 .. Len(passed)
    BY <1>t, <2>2, <2>3
  <2>5. QED
    BY <2>2, <2>4
<1>4. QED
  BY <1>2, <1>3, <1>a DEF CalmInv, SpoolInv, Given

(* A new file drops the one that was being received and no other.           *)
LEMMA CreateSpool ==
  ASSUME CalmInv, CalmFaults, NEW m \in Msgs, m = tmsg, SOMNoFile(m) \/ SOMNew(m)
  PROVE  SpoolInv'
<1>t. /\ TypeOK /\ Phase /\ chan \in Chans /\ pc = "ready" /\ m # NoMsg
  BY DEF CalmInv, RouteInv, IInv, TypeOK, SOMNoFile, SOMNew, Reading
<1>1. ~Given(m)
  <2>1. CASE SOMNoFile(m)
    BY <2>1, <1>t DEF SOMNoFile, MessageOf, CalmInv, SpoolInv, NoHalf, Unfinished, Chans
  <2>2. CASE SOMNew(m)
    BY <2>2 DEF SOMNew, MessageOf, CalmInv, RouteInv, PassedCurrent, Given
  <2>3. QED
    BY <2>1, <2>2
<1>2. PICK f \in SUBSET files : /\ \E c \in Chans : NewFile(m, f, c)
                                /\ \A k \in files \ f : Unfinished(chan) /\ k = chan.msgid
                                /\ \A k \in f : Unfinished(chan) => k # chan.msgid
  <2>1. CASE SOMNoFile(m)
    <3>1. [chan EXCEPT !.rdup = TRUE] \in Chans
      BY <1>t DEF Chans
    <3>2. NewFile(m, files, [chan EXCEPT !.rdup = TRUE]) /\ m \notin files /\ m = chan.msgid
      BY <2>1 DEF SOMNoFile, MessageOf
    <3>3. QED
      BY <3>1, <3>2
  <2>2. CASE SOMNew(m)
    <3>1. (open \/ chan.state \notin {"ENDED", "IDLE"}) <=> Unfinished(chan)
      BY <1>t DEF Unfinished, Phase, Chans
    <3>2. NewFile(m, IF Unfinished(chan) THEN files \ {chan.msgid} ELSE files, chan)
      BY <2>2, <3>1 DEF SOMNew
    <3>3. QED
      BY <3>2, <1>t
  <2>3. QED
    BY <2>1, <2>2
<1>3. PICK c \in Chans : NewFile(m, f, c)
  BY <1>2
<1>4. /\ files' = f \cup {m} /\ chan'.msgid = m /\ pc' = pc
      /\ UNCHANGED <<passed, taken, routed>> /\ Unfinished(chan')
  BY <1>3 DEF NewFile, Answer, routVars, Chans, Unfinished
<1>5. ~Given(chan.msgid)'
  BY <1>1, <1>4 DEF Given
<1>6. \A i \in DOMAIN passed : Routed(i) \/ (taken < i /\ passed[i].id \in files')
  <2>1. SUFFICES ASSUME NEW i \in DOMAIN passed, ~Routed(i) PROVE taken < i /\ passed[i].id \in files'
    OBVIOUS
  <2>2. taken < i /\ passed[i].id \in files
    BY <2>1 DEF CalmInv, SpoolInv
  <2>3. passed[i].id \in f
    BY <1>2, <1>t, <2>2 DEF CalmInv, SpoolInv, Given
  <2>4. QED
    BY <1>4, <2>2, <2>3
<1>7. \A k \in files' : k \in Waiting \/ k = m
  BY <1>2, <1>4 DEF CalmInv, SpoolInv
<1>8. QED
  <2>1. \A i, j \in DOMAIN passed : passed[i].id = passed[j].id => i = j
    BY DEF CalmInv, SpoolInv
  <2>2. Waiting' = Waiting /\ \A i \in DOMAIN passed : Routed(i)' <=> Routed(i)
    BY <1>4 DEF Waiting, Routed
  <2>3. QED
    BY <1>4, <1>5, <1>6, <1>7, <1>t, <2>1, <2>2 DEF SpoolInv

(* All other steps leave the directory alone: in particular, an MQE or a    *)
(* late EOM finds nothing to abort.                                         *)
LEMMA OtherSpool ==
  ASSUME CalmInv, CalmFaults, Next, ~PassStep, ~RouterTakes,
         ~(\E m \in Msgs : m = tmsg /\ (SOMNoFile(m) \/ SOMNew(m))),
         ~(\E a \in Addr, n \in 1 .. MaxPkt : RecvData(a, n))
  PROVE  SpoolSame
<1>t. /\ TypeOK /\ Phase /\ chan \in Chans /\ saved \in Chans
      /\ (~up => chan = saved) /\ KnownIds /\ RouteInv
  BY DEF CalmInv, RouteInv, IInv, TypeOK, SavedSame
<1>1. CASE SendEOMA \/ \E m \in Msgs : EOMAgain(m) \/ SOMAgain(m)
  BY <1>1 DEF SpoolSame, SendEOMA, EOMAgain, SOMAgain, fileVars, routVars
<1>2. CASE EndMesgDone
  <2>1. chan'.msgid = chan.msgid /\ ~Unfinished(chan')
    BY <1>2, <1>t DEF EndMesgDone, Chans, Unfinished
  <2>2. QED
    BY <1>2, <2>1 DEF SpoolSame, EndMesgDone, fileVars, routVars
<1>4. CASE \E m \in Msgs : EOMOfNothing(m)
  <2>1. chan'.msgid = chan.msgid /\ chan'.state = chan.state
    BY <1>4, <1>t DEF EOMOfNothing, Chans
  <2>2. QED
    BY <1>4, <2>1 DEF SpoolSame, Unfinished, EOMOfNothing, fileVars, routVars
<1>5. CASE \E m \in Msgs : EOMOfSome(m)
  <2>1. PICK m \in Msgs : EOMOfSome(m)
    BY <1>5
  <2>2. pc' = pc /\ passed' = passed
    <3>1. pc' = pc
      BY <2>1, <1>t, Passes
    <3>2. QED
      BY <2>1, <3>1 DEF EOMOfSome, PassMessage, Reading
  <2>3. chan'.msgid = chan.msgid /\ chan'.state = "ENDING" /\ Unfinished(chan)
    BY <2>1, <1>t DEF EOMOfSome, Chans, Assembling, Unfinished
  <2>5. QED
    BY <2>1, <2>2, <2>3 DEF SpoolSame, Unfinished, EOMOfSome
<1>6. CASE \E m \in Msgs : m = tmsg /\ somad /\ EOMWhileStarting(m)
  BY <1>6 DEF EOMWhileStarting, CalmInv, EndInv
<1>7. CASE \E m \in Msgs : SOMRepeated(m) \/ SOMResumed(m)
  <2>1. PICK m \in Msgs : SOMRepeated(m) \/ SOMResumed(m)
    BY <1>7
  <2>2. Unfinished(chan)
    BY <2>1, <1>t DEF SOMRepeated, SOMResumed, MessageOf, CalmInv, NoHalf, Unfinished, Chans
  <2>3. chan'.msgid = chan.msgid /\ Unfinished(chan')
    BY <2>1, <1>t DEF SOMRepeated, SOMResumed, Answer, Unfinished, Chans
  <2>4. UNCHANGED <<passed, taken, routed, files, pc>>
    BY <2>1 DEF SOMRepeated, SOMResumed, fileVars, routVars
  <2>5. QED
    BY <2>2, <2>3, <2>4 DEF SpoolSame
<1>11. CASE \E m \in Msgs : NextMessage(m)
  BY <1>11 DEF SpoolSame, NextMessage, readVars, fileVars, routVars, histVars
<1>13. CASE RecvMQE
  <2>1. PICK f \in SUBSET files : Abort(chan', f) /\ files' = f
    BY <1>13 DEF RecvMQE, RecvRMQE
  <2>2. ~Unfinished(chan)
    <3>1. SUFFICES ASSUME Unfinished(chan) PROVE FALSE
      OBVIOUS
    <3>2. chan.msgid \in acked /\ pc = "ready"
      BY <1>13, <3>1, <1>t DEF KnownIds, Phase, Unfinished, RecvMQE, RecvRMQE, Reading
    <3>3. QED
      BY <3>1, <3>2 DEF CalmInv, NoHalf, SpoolInv, EndInv, EOMAHonest, Given
  <2>3. chan' = chan /\ files' = files
    BY <2>1, <2>2, <1>t DEF Abort, Phase, Unfinished, Chans
  <2>4. QED
    BY <1>13, <2>3 DEF SpoolSame, RecvMQE, RecvRMQE, routVars
<1>14. CASE Checkpoint \/ Flush \/ Stop \/ ErrorExit
  BY <1>14 DEF SpoolSame, Checkpoint, Flush, Stop, ErrorExit, Reading, Down, readVars, fileVars, routVars
<1>16. CASE Restart
  <2>1. chan'.msgid = chan.msgid /\ (Unfinished(chan') <=> Unfinished(chan))
    BY <1>16, <1>t DEF Restart, Chans, Unfinished
  <2>2. QED
    BY <1>16, <2>1 DEF SpoolSame, Restart, fileVars, routVars
<1>17. /\ ~Kill /\ ~Echo /\ ~(\E m \in Msgs : KillCreating(m) \/ ExitCreating(m))
       /\ ~ExitPassing /\ ~ExitNAKing
  BY DEF CalmFaults, Kill, Echo, KillCreating, ExitCreating, ExitPassing, ExitNAKing
<1>18. QED
  BY <1>1, <1>2, <1>4, <1>5, <1>6, <1>7, <1>11, <1>13, <1>14, <1>16, <1>17
     DEF Next, RecvEOM, RecvSOM

(* A step of EndMesg, an aborted message, or a packet that is answered.     *)
LEMMA NextNoHalf ==
  ASSUME CalmInv, CalmFaults, [Next]_vars
  PROVE  NoHalf'
<1>t. /\ chan \in Chans /\ saved \in Chans /\ halfway = {}
      /\ chan.state = "IDLE" => chan.msgid = NoMsg
      /\ saved.state = "IDLE" => saved.msgid = NoMsg
  BY DEF CalmInv, RouteInv, IInv, TypeOK, NoHalf
<1>g. ASSUME halfway' = halfway,
             chan'.state = "IDLE" => chan'.msgid = NoMsg,
             saved'.state = "IDLE" => saved'.msgid = NoMsg
      PROVE  NoHalf'
  BY <1>g, <1>t DEF NoHalf
<1>1. CASE \E a \in Addr, n \in 1 .. MaxPkt : RecvData(a, n)
  <2>1. PICK a \in Addr, n \in 1 .. MaxPkt : RecvData(a, n)
    BY <1>1
  <2>2. chan'.msgid = chan.msgid /\ chan'.state = chan.state
    BY <2>1, <1>t DEF RecvData, DuplicateData, FillingData, NextData, AheadData, DroppedData, Chans
  <2>3. halfway' = halfway /\ saved' \in {saved, chan'}
    BY <2>1 DEF RecvData, DuplicateData, FillingData, NextData, AheadData, DroppedData, Stay, histVars
  <2>4. QED
    BY <2>2, <2>3, <1>t, <1>g
<1>2. CASE \E m \in Msgs : RecvEOM(m)
  <2>1. PICK m \in Msgs : EOMAgain(m) \/ EOMOfNothing(m) \/ EOMOfSome(m) \/ EOMWhileStarting(m)
    BY <1>2 DEF RecvEOM
  <2>2. CASE EOMAgain(m)
    BY <2>2, <1>t, <1>g DEF EOMAgain
  <2>3. CASE EOMOfNothing(m)
    <3>1. chan'.msgid = chan.msgid /\ chan'.state = chan.state
      BY <2>3, <1>t DEF EOMOfNothing, Chans
    <3>2. QED
      BY <2>3, <3>1, <1>t, <1>g DEF EOMOfNothing, histVars
  <2>4. CASE EOMOfSome(m)
    <3>1. chan'.state = "ENDING" /\ chan.state # "IDLE"
      BY <2>4, <1>t DEF EOMOfSome, Chans, Assembling
    <3>2. saved' = saved \/ saved'.state = chan.state
      BY <2>4, <1>t DEF EOMOfSome, Chans
    <3>3. QED
      BY <2>4, <3>1, <3>2, <1>t, <1>g DEF EOMOfSome, histVars
  <2>5. CASE EOMWhileStarting(m)
    BY <2>5, <1>t, <1>g DEF EOMWhileStarting, Abort, Chans, histVars
  <2>6. QED
    BY <2>1, <2>2, <2>3, <2>4, <2>5
<1>3. CASE \E m \in Msgs : RecvSOM(m)
  <2>1. PICK m \in Msgs : SOMAgain(m) \/ SOMRepeated(m) \/ SOMResumed(m) \/ SOMNoFile(m) \/ SOMNew(m)
    BY <1>3 DEF RecvSOM
  <2>2. CASE SOMAgain(m)
    BY <2>2, <1>t, <1>g DEF SOMAgain
  <2>3. ASSUME NEW c \in Chans, NEW at, Answer(c, at), halfway' = halfway PROVE NoHalf'
    <3>1. chan'.state # "IDLE" /\ saved' \in {saved, chan'}
      BY <2>3 DEF Answer, Chans
    <3>2. QED
      BY <2>3, <3>1, <1>t, <1>g
  <2>4. CASE SOMRepeated(m) \/ SOMResumed(m)
    BY <2>3, <2>4, <1>t DEF SOMRepeated, SOMResumed, histVars
  <2>5. ASSUME NEW c \in Chans, NEW f, NewFile(m, f, c) PROVE NoHalf'
    <3>1. [c EXCEPT !.msgid = m, !.goodaddr = MsgSize] \in Chans
      <4>1. MsgSize \in 0 .. MsgSize
        OBVIOUS
      <4>2. QED
        BY <4>1 DEF Chans
    <3>2. QED
      BY <2>3, <2>5, <3>1 DEF NewFile
  <2>6. CASE SOMNoFile(m)
    <3>1. [chan EXCEPT !.rdup = TRUE] \in Chans
      BY <1>t DEF Chans
    <3>2. QED
      BY <2>5, <2>6, <3>1 DEF SOMNoFile
  <2>7. CASE SOMNew(m)
    BY <2>5, <2>7, <1>t DEF SOMNew
  <2>8. QED
    BY <2>1, <2>2, <2>4, <2>6, <2>7
<1>4. CASE \E m \in Msgs : NextMessage(m)
  BY <1>4, <1>t, <1>g DEF NextMessage, readVars, histVars
<1>5. CASE SendEOMA
  BY <1>5, <1>t, <1>g DEF SendEOMA
<1>6. CASE EndMesgDone
  <2>1. chan'.state = "ENDED" /\ saved' = chan'
    BY <1>6, <1>t DEF EndMesgDone, Chans
  <2>2. QED
    BY <1>6, <2>1, <1>g DEF EndMesgDone, histVars
<1>7. CASE RecvMQE
  BY <1>7, <1>t, <1>g DEF RecvMQE, RecvRMQE, Abort, Chans, histVars
<1>8. CASE Checkpoint \/ Flush \/ Stop \/ ErrorExit \/ RouterTakes
  BY <1>8, <1>t, <1>g DEF Checkpoint, Flush, Stop, ErrorExit, RouterTakes, readVars, histVars
<1>9. CASE Restart
  <2>1. chan'.msgid = saved.msgid /\ (chan'.state = "IDLE" => saved.state = "IDLE") /\ saved' = chan'
    BY <1>9, <1>t DEF Restart, Chans
  <2>2. QED
    BY <1>9, <2>1, <1>t, <1>g DEF Restart
<1>10. CASE UNCHANGED vars
  BY <1>10, <1>t, <1>g DEF vars, readVars, histVars
<1>11. /\ ~Kill /\ ~Echo /\ ~(\E m \in Msgs : KillCreating(m) \/ ExitCreating(m))
       /\ ~ExitPassing /\ ~ExitNAKing
  BY DEF CalmFaults, Kill, Echo, KillCreating, ExitCreating, ExitPassing, ExitNAKing
<1>12. QED
  BY <1>1, <1>2, <1>3, <1>4, <1>5, <1>6, <1>7, <1>8, <1>9, <1>10, <1>11 DEF Next

(* Every calm step keeps CalmInv and hands over only new messages.          *)
LEMMA NextCalm ==
  ASSUME CalmInv, CalmFaults, [Next]_vars
  PROVE  CalmInv' /\ PassesNew
<1>e. NoEndFaults
  BY DEF CalmFaults, NoEndFaults
<1>r. RouteInv' /\ EndInv' /\ NoHalf'
  BY <1>e, NextRoute, NextEnd, NextNoHalf DEF CalmInv
<1>s. SpoolSame => SpoolInv' /\ PassesNew
  BY SameSpool DEF CalmInv, SpoolSame, PassesNew
<1>1. CASE PassStep
  BY <1>1, <1>r, PassSpool DEF CalmInv
<1>2. CASE RouterTakes
  <2>1. PassesNew
    BY <1>2 DEF RouterTakes, PassesNew
  <2>2. QED
    BY <1>2, <1>r, <2>1, RouterTakesSpool DEF CalmInv
<1>3. CASE \E m \in Msgs : m = tmsg /\ (SOMNoFile(m) \/ SOMNew(m))
  <2>1. PassesNew
    BY <1>3 DEF SOMNoFile, SOMNew, NewFile, routVars, PassesNew
  <2>2. QED
    BY <1>3, <1>r, <2>1, CreateSpool DEF CalmInv
<1>4. CASE ~PassStep /\ \E a \in Addr, n \in 1 .. MaxPkt : RecvData(a, n)
  <2>1. PICK a \in Addr, n \in 1 .. MaxPkt : RecvData(a, n)
    BY <1>4
  <2>2. pc' = pc
    <3>1. SUFFICES ASSUME pc' # pc PROVE FALSE
      OBVIOUS
    <3>2. FillingData(a, n)
      BY <2>1, <3>1 DEF RecvData, DuplicateData, NextData, AheadData, DroppedData
    <3>3. QED
      BY <1>4, <3>1, <3>2, Passes DEF CalmInv
  <2>3. SpoolSame
    BY <2>1, <2>2, <1>e, DataEnd DEF CalmInv, SpoolSame, Unfinished
  <2>4. QED
    BY <1>r, <1>s, <2>3 DEF CalmInv
<1>5. CASE UNCHANGED vars
  <2>1. SpoolSame
    BY <1>5 DEF SpoolSame, vars, readVars, fileVars, routVars
  <2>2. QED
    BY <1>r, <1>s, <2>1 DEF CalmInv
<1>6. CASE /\ Next /\ ~PassStep /\ ~RouterTakes
           /\ ~(\E m \in Msgs : m = tmsg /\ (SOMNoFile(m) \/ SOMNew(m)))
           /\ ~(\E a \in Addr, n \in 1 .. MaxPkt : RecvData(a, n))
  BY <1>6, <1>r, <1>s, OtherSpool DEF CalmInv
<1>7. QED
  BY <1>1, <1>2, <1>3, <1>4, <1>5, <1>6

(* It holds at the start.                                                   *)
LEMMA InitCalm ==
  ASSUME Init
  PROVE  CalmInv
<1>1. SpoolInv /\ NoHalf
  BY DEF Init, SpoolInv, NoHalf, Unfinished
<1>2. QED
  BY <1>1, InitRoute, InitEnd DEF CalmInv

(* What CalmInv says of the spool directory.                                *)
LEMMA CalmSpool ==
  ASSUME CalmInv
  PROVE  NeverLost /\ NoOrphan
<1>1. NeverLost
  BY DEF CalmInv, NoHalf, EndInv, EOMAHonest, SpoolInv, NeverLost
<1>2. NoOrphan
  BY DEF CalmInv, SpoolInv, Waiting, NoOrphan
<1>3. QED
  BY <1>1, <1>2

(* The file of an acknowledged message stays until it is routed, and none   *)
(* is left behind (NeverLost, NoOrphan; the unlinks of Recv_SOM and         *)
(* AbortInMesgs), when sessions end between two handlers only, with the     *)
(* status saved: not so when a SOMA or EOMA cannot be written.              *)
THEOREM ReceiverSpool ==
  ASSUME Faults \subseteq {"error"}
  PROVE  Spec => [](NeverLost /\ NoOrphan)
<1>1. CalmInv /\ [Next]_vars => CalmInv'
  BY NextCalm DEF CalmFaults
<1>2. QED
  BY <1>1, InitCalm, CalmSpool, PTL DEF Spec

(* Then no message is passed to the router a second time (PassesNew), either.*)
THEOREM ReceiverPassesOnce ==
  ASSUME Faults \subseteq {"error"}
  PROVE  Spec => [][PassesNew]_vars
<1>1. CalmInv /\ [Next]_vars => CalmInv'
  BY NextCalm DEF CalmFaults
<1>2. CalmInv /\ [Next]_vars => PassesNew
  BY NextCalm DEF CalmFaults
<1>3. QED
  BY <1>1, <1>2, InitCalm, PTL DEF Spec
=============================================================================
