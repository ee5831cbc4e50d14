------------------------------- MODULE Relay -------------------------------
(***************************************************************************)
(* A message on its way through a node: its packets arrive in any order,   *)
(* are stored by the receiver (WriteBuffer), the router hands the file on  *)
(* with a new header, and the transmitter sends both (ReadBuffer), in      *)
(* packets of other sizes.                                                 *)
(***************************************************************************)
EXTENDS WriteBuffer, Sequences

CONSTANTS HdrSize,   (* bytes of the new header                            *)
          Starts,    (* where the data that is handed on may begin         *)
          MaxOut, ULONG

ASSUME RelayAssumption ==
  /\ HdrSize \in Nat \ {0} /\ MaxOut \in Nat \ {0}
  /\ Starts \subseteq Addr
  /\ ULONG \in Nat /\ ULONG > MsgSize + HdrSize + FILEBUFFERSIZE

VARIABLES phase,     (* "in" while the message arrives, then "out"         *)
          parts, current, msgfile, fileaddr, seekpos, msgaddr,
          obufstart, obufend, obuffer, outstate, ahead, eof, packet, nak

(* What the router makes of a message: a link to its data, of which a      *)
(* returned one may lose its beginning, and a header of its own.           *)
Outgoing == { << [file |-> "data", start |-> k, len |-> MsgSize - k],
                 [file |-> "header", start |-> 0, len |-> HdrSize] >> : k \in Starts }

disk == [data   |-> [i \in 1 .. MsgSize |-> <<"data", file[i - 1]>>],
         header |-> [i \in 1 .. HdrSize |-> <<"header", i - 1>>]]

R == INSTANCE ReadBuffer WITH Cmds <- Outgoing

outVars == <<parts, current, msgfile, fileaddr, seekpos, msgaddr, obufstart, obufend,
             obuffer, outstate, ahead, eof, packet, nak>>

relayVars == <<vars, phase, outVars>>

RelayInit == Init /\ R!ReadInit /\ phase = "in"

Receive == phase = "in" /\ Next /\ UNCHANGED <<phase, outVars>>

(* The receiver has had every byte: EndMesg flushes the buffer and closes  *)
(* the file, and its channel is empty again.                               *)
HandOn ==
  /\ phase = "in" /\ phase' = "out"
  /\ pc = "idle" /\ written = Addr
  /\ file' = Flushed(file, pos, databuffer, bufend - bufstart)
  /\ pos' = 0 /\ bufstart' = 0 /\ bufend' = 0
  /\ databuffer' = [i \in Slot |-> Hole]
  /\ UNCHANGED <<callVars, written, outVars>>

Transmit == phase = "out" /\ R!ReadNext /\ UNCHANGED <<phase, vars>>

RelayNext == Receive \/ HandOn \/ Transmit

RelaySpec == RelayInit /\ [][RelayNext]_relayVars

-----------------------------------------------------------------------------
(* The byte that belongs at address a of the message handed on.            *)
Proper(a) ==
  LET i == CHOOSE j \in DOMAIN parts : parts[j].from <= a /\ a < parts[j].to
  IN  <<parts[i].file, parts[i].start + (a - parts[i].from)>>

(* Every packet sent carries, at every address, the byte that arrived for  *)
(* that place or that the router put there: whatever the order in which    *)
(* packets came, the crashes while they were stored, the sizes they are    *)
(* sent in, the repeats asked for, and the messages sent before.           *)
RelayedRight ==
  \A i \in DOMAIN packet.data : packet.data[i] = Proper(packet.addr + i - 1)

(* The same transmitter never runs out of data, and never ends a message   *)
(* early (see ReadBuffer).                                                 *)
NeverRunsDry == R!NeverRunsDry
=============================================================================
