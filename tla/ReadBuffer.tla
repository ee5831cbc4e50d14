----------------------------- MODULE ReadBuffer -----------------------------
(***************************************************************************)
(* How the writer process reads the message it sends: ReadData of          *)
(* VCdaemon/bufferio.c with its callers SendData (packet.c), RecvNAK,      *)
(* RecvSOMA and WriteChan (transmitter.c) and the set-up of a message      *)
(* (message.c, commands.c, status.c).                                      *)
(*                                                                         *)
(* A message is a sequence of parts, each a stretch of a file.  Small      *)
(* packets come from a buffer that is filled with one aligned block of one *)
(* file; large ones, and those sent again for a NAK, from the file itself, *)
(* without a change to the buffer.  So the address in the message, the     *)
(* buffer's addresses, the open file, where the code believes that file to *)
(* stand and where it really stands all move apart and must come together. *)
(***************************************************************************)
EXTENDS Integers, Sequences, FiniteSetsExt

CONSTANTS Cmds,           (* command files: sequences of [file, start, len] *)
          FILEBUFFERSIZE, (* size of the buffer and of a file block         *)
          MaxOut,         (* most data bytes in one packet (OutDataSize)    *)
          ULONG           (* Ulong counts modulo this                       *)

VARIABLES
  disk,       (* the files, each a sequence of bytes; not changed here     *)
  parts,      (* ch_partlist                                               *)
  current,    (* ch_current                                                *)
  msgfile,    (* CH_MSGFILE: the file of the current part is open          *)
  fileaddr,   (* fileaddr_part: where the code believes that file to stand *)
  seekpos,    (* ... and where it stands                                   *)
  msgaddr,    (* ch_msgaddr                                                *)
  obufstart, obufend, obuffer,   (* ch_bufstart, ch_bufend, ch_databuffer  *)
  outstate,   (* ch_state                                                  *)
  ahead,      (* ch_count > 0: data may be sent before the SOMA            *)
  eof,        (* CH_EOF                                                    *)
  packet,     (* what SendData has collected, or NoPacket                  *)
  nak         (* the NAK being answered (CH_IGNBUF), or NoNAK              *)

chanVars == <<outstate, ahead, parts>>
bufVars  == <<obufstart, obufend, obuffer>>
openVars == <<current, msgfile, fileaddr, seekpos>>
readVars == <<chanVars, bufVars, openVars, msgaddr, eof, packet, nak>>

NoPacket == [addr |-> 0, want |-> 0, data |-> <<>>]
NoNAK    == [end |-> 0, addr |-> 0, eof |-> FALSE]
NoByte   == <<>>
Least(a, b) == IF a < b THEN a ELSE b

(* getcommand: each part begins where the one before ends.                 *)
PartsOf(c) ==
  LET upto[i \in 0 .. Len(c)] == IF i = 0 THEN 0 ELSE upto[i - 1] + c[i].len
  IN  [i \in DOMAIN c |->
         [file |-> c[i].file, start |-> c[i].start, from |-> upto[i - 1], to |-> upto[i]]]

MesgLength == IF parts = <<>> THEN 0 ELSE parts[Len(parts)].to

ReadInit ==
  /\ parts = <<>> /\ current = 1 /\ msgfile = FALSE /\ fileaddr = 0 /\ seekpos = 0
  /\ msgaddr = 0 /\ obufstart = 0 /\ obufend = 0
  /\ obuffer = [i \in 0 .. FILEBUFFERSIZE - 1 |-> NoByte]
  /\ outstate = "IDLE" /\ ahead = FALSE /\ eof = FALSE
  /\ packet = NoPacket /\ nak = NoNAK

-----------------------------------------------------------------------------
(* The set-up of a message.                                                *)

(* StartMessage and SetupParts: nothing is open, nothing at its end.       *)
Begin(a) ==
  /\ outstate' = "STARTING" /\ ahead' = (a = 0) /\ eof' = FALSE
  /\ current' = 1 /\ msgfile' = FALSE /\ fileaddr' = 0 /\ seekpos' = 0
  /\ msgaddr' = a
  /\ packet' = NoPacket /\ nak' = NoNAK

(* Wrong: the buffer of the message before is kept.                        *)
SetActiveKeepsBuffer(c) ==
  /\ outstate = "IDLE"
  /\ parts' = PartsOf(c)
  /\ Begin(0)
  /\ UNCHANGED bufVars

(* FindMessage and setactive: another message, with an empty buffer.       *)
SetActive(c) ==
  /\ outstate = "IDLE"
  /\ parts' = PartsOf(c)
  /\ Begin(0)
  /\ obufstart' = 0 /\ obufend' = 0 /\ UNCHANGED obuffer

(* InitStatus: a new daemon goes on with the message at the address saved, *)
(* which may be any it ever had.                                           *)
Resume(a) ==
  /\ outstate # "IDLE"
  /\ a <= MesgLength
  /\ Begin(a)
  /\ obufstart' = 0 /\ obufend' = 0
  /\ obuffer' = [i \in 0 .. FILEBUFFERSIZE - 1 |-> NoByte]
  /\ UNCHANGED parts

(* FindMessage closes the file of a message that is done with.  What is     *)
(* left in the channel, but for the buffer, is set when the next begins.   *)
Done ==
  /\ outstate' = "IDLE" /\ ahead' = FALSE /\ eof' = FALSE
  /\ current' = 1 /\ msgfile' = FALSE /\ fileaddr' = 0 /\ seekpos' = 0
  /\ msgaddr' = 0 /\ packet' = NoPacket /\ nak' = NoNAK
  /\ UNCHANGED <<parts, bufVars>>

-----------------------------------------------------------------------------
(* ReadData.                                                               *)

Wanted == packet.want - Len(packet.data)

InBuffer == obufstart <= msgaddr /\ msgaddr < obufend

(* The part that holds msgaddr is looked for from the current one on,      *)
(* unless the address is below that.                                       *)
Sought ==
  {i \in (IF msgaddr < parts[current].from THEN 1 ELSE current) .. Len(parts) :
     msgaddr < parts[i].to}

(* read(2) of n bytes at place p.                                          *)
Read(f, p, n) == SubSeq(disk[f], p + 1, Least(p + n, Len(disk[f])))

(* The bytes of the buffer b from message address msgaddr up to e.         *)
Copied(b, s, e) ==
  LET o == (msgaddr - s) % ULONG
      n == Least(Wanted, (e - msgaddr) % ULONG)
  IN  [i \in 1 .. n |-> b[o + i - 1]]

Deliver(bytes) ==
  /\ packet' = [packet EXCEPT !.data = @ \o bytes]
  /\ msgaddr' = msgaddr + Len(bytes)
  /\ eof' = (eof \/ msgaddr' = MesgLength)

(* SendData asks again until the packet is full or the message at its end. *)
Reading == packet # NoPacket /\ Wanted > 0 /\ ~eof

FromBuffer ==
  /\ Reading /\ InBuffer
  /\ Deliver(Copied(obuffer, obufstart, obufend))
  /\ UNCHANGED <<chanVars, bufVars, openVars, nak>>

(* The part's file is opened, unless it is open: its first byte is next.   *)
Believed(i) == IF i = current /\ msgfile THEN fileaddr ELSE 0
Standing(i) == IF i = current /\ msgfile THEN seekpos ELSE 0

(* Where the file stands after a seek to p, which is left out if the code  *)
(* believes it there.                                                      *)
SeekTo(i, p) == IF p # Believed(i) THEN p ELSE Standing(i)

PlaceOf(i) == parts[i].start + (msgaddr - parts[i].from)

Direct == Wanted > FILEBUFFERSIZE \div 2 \/ nak # NoNAK

(* A large packet, or an answer to a NAK: no more than the part has.       *)
FromFile ==
  /\ Reading /\ ~InBuffer /\ Direct /\ Sought # {}
  /\ LET i   == Min(Sought)
         at  == SeekTo(i, PlaceOf(i))
         got == Read(parts[i].file, at, Least(Wanted, parts[i].to - msgaddr))
     IN /\ Deliver(got)
        /\ current' = i /\ msgfile' = TRUE
        /\ fileaddr' = PlaceOf(i) + Len(got) /\ seekpos' = at + Len(got)
  /\ UNCHANGED <<chanVars, bufVars, nak>>

(* A small one: the buffer is filled from the block that msgaddr lies in,  *)
(* as far as the part goes, and begins with the address of the block's     *)
(* first byte, modulo ULONG if that would lie before the message.          *)
Refill ==
  /\ Reading /\ ~InBuffer /\ ~Direct /\ Sought # {}
  /\ LET i      == Min(Sought)
         offset == PlaceOf(i) % FILEBUFFERSIZE
         block  == PlaceOf(i) - offset
         at     == SeekTo(i, block)
         got    == Read(parts[i].file, at,
                        Least(parts[i].to - msgaddr + offset, FILEBUFFERSIZE))
     IN /\ got # <<>>
        /\ current' = i /\ msgfile' = TRUE
        /\ fileaddr' = block + Len(got) /\ seekpos' = at + Len(got)
        /\ obufstart' = (msgaddr - offset) % ULONG
        /\ obufend' = (obufstart' + Len(got)) % ULONG
        /\ obuffer' = [o \in DOMAIN obuffer |->
                         IF o < Len(got) THEN got[o + 1] ELSE obuffer[o]]
        /\ Deliver(Copied(obuffer', obufstart', obufend'))
  /\ UNCHANGED <<chanVars, nak>>

(* The file cannot be opened or read (IOerrorJmp, BadMesg): the message is *)
(* given up, in the middle of what was being done.                         *)
IOError == Reading /\ ~InBuffer /\ Done

-----------------------------------------------------------------------------
(* Its callers.                                                            *)

Free == outstate # "IDLE" /\ packet = NoPacket /\ nak = NoNAK

SendData(n) == packet' = [addr |-> msgaddr', want |-> n, data |-> <<>>]

(* WriteChan sends the next packet; its size changes with the throughput.  *)
WriteChan(n) ==
  /\ Free /\ ~eof
  /\ outstate = "ACTIVE" \/ (outstate = "STARTING" /\ ahead)
  /\ UNCHANGED <<chanVars, bufVars, openVars, msgaddr, eof, nak>>
  /\ SendData(n)

(* Ahead of the SOMA no more than InitDataCount packets are sent.          *)
StopAhead ==
  /\ Free /\ outstate = "STARTING" /\ ahead
  /\ ahead' = FALSE
  /\ UNCHANGED <<outstate, parts, bufVars, openVars, msgaddr, eof, packet, nak>>

(* WriteChan at the end of the message.                                    *)
FirstEOM ==
  /\ Free /\ outstate = "ACTIVE" /\ eof
  /\ outstate' = "ENDING" /\ eof' = FALSE
  /\ UNCHANGED <<ahead, parts, bufVars, openVars, msgaddr, packet, nak>>

(* The message goes on at the address the receiver names (FlushRData),     *)
(* unless that is 0; the buffer stays as it is.                            *)
RecvSOMA(a) ==
  /\ Free /\ a <= MesgLength
  /\ msgaddr' = IF a # 0 THEN a ELSE msgaddr
  /\ IF msgaddr' < MesgLength
     THEN outstate' = "ACTIVE" /\ eof' = FALSE
     ELSE outstate' = "ENDING" /\ UNCHANGED eof
  /\ UNCHANGED <<ahead, parts, bufVars, openVars, packet, nak>>

(* A NAK for the whole message starts it again ...                         *)
RecvNAKAll ==
  /\ Free
  /\ msgaddr' = 0 /\ outstate' = "ACTIVE" /\ eof' = FALSE
  /\ UNCHANGED <<ahead, parts, bufVars, openVars, packet, nak>>

(* ... one for a stretch of it is answered at once.                        *)
RecvNAK(a, len, n) ==
  /\ Free
  /\ a <= msgaddr /\ a + len <= MesgLength /\ len < MesgLength
  /\ nak' = [end |-> a + len, addr |-> msgaddr, eof |-> eof]
  /\ msgaddr' = a /\ eof' = FALSE
  /\ SendData(Least(n, len))
  /\ UNCHANGED <<chanVars, bufVars, openVars>>

(* Wrong: the end of the message reached by the packet sent again counts.  *)
RestoredEof == eof \/ nak.eof

(* RecvNAK puts back the flag it saved.                                    *)
SavedEof == nak.eof

(* SendData writes the packet; RecvNAK sends another, of the same size,    *)
(* until the gap is filled, and then goes back to where it was.            *)
WritePacket ==
  /\ packet # NoPacket /\ ~Reading
  /\ IF nak # NoNAK /\ msgaddr < nak.end
     THEN UNCHANGED <<msgaddr, eof, nak>> /\ SendData(packet.want)
     ELSE /\ packet' = NoPacket /\ nak' = NoNAK
          /\ IF nak = NoNAK THEN UNCHANGED <<msgaddr, eof>>
                            ELSE msgaddr' = nak.addr /\ eof' = SavedEof
  /\ UNCHANGED <<chanVars, bufVars, openVars>>

(* The message has been acknowledged: FindMessage closes its file.         *)
RecvEOMA == Free /\ Done

ReadNext ==
  \/ \E c \in Cmds : SetActive(c)
  \/ \E a \in 0 .. MesgLength : Resume(a) \/ RecvSOMA(a)
  \/ \E n \in 1 .. MaxOut : WriteChan(n)
  \/ FromBuffer \/ FromFile \/ Refill \/ IOError \/ WritePacket
  \/ StopAhead \/ FirstEOM \/ RecvNAKAll \/ RecvEOMA
  \/ \E a \in 0 .. MesgLength - 1 : \E len \in 1 .. MesgLength - a :
       \E n \in 1 .. MaxOut : RecvNAK(a, len, n)

-----------------------------------------------------------------------------
(* SendData is never asked for more than the message has: ``SendData       *)
(* called at EOF'' and ``message truncated?'' are for files that changed.  *)
(* The end is flagged exactly when there is no more to send, through every *)
(* order of acknowledgements, repeats and interruptions.                   *)
NeverRunsDry ==
  /\ Reading => Sought # {}
  /\ packet.want > 0 /\ packet.data = <<>> => Reading
  /\ nak = NoNAK /\ (eof \/ outstate = "ENDING") => msgaddr = MesgLength
=============================================================================
