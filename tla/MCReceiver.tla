----------------------------- MODULE MCReceiver -----------------------------
(***************************************************************************)
(* Instances of VCReceiver for TLC.  The message ids are interchangeable:  *)
(* the receiver only compares them.                                        *)
(*                                                                         *)
(* Some properties hold only while a session ends between two handlers, by *)
(* the circuit or by an error of the daemon's own: a behaviour is calm, or *)
(* every fault of the constant Faults may strike it; which it is does not  *)
(* change.  A daemon that ends inside a handler ("pipe", "create"), or     *)
(* without saving its status, breaks them (README, VCReceiver).            *)
(***************************************************************************)
EXTENDS VCReceiver, TLC

VARIABLE calm

Calm == INSTANCE VCReceiver WITH Faults <- Faults \cap {"error"}

MCInit == Init /\ calm \in BOOLEAN

MCNext ==
  /\ \/ calm /\ Calm!Next
     \/ ~calm /\ Next
  /\ UNCHANGED calm

MCSpec == MCInit /\ [][MCNext]_<<vars, calm>>

Symmetry == Permutations(Msgs)

(* While calm, the spool directory has what it should: the file of an      *)
(* acknowledged message stays until it is routed (Recv_SOM unlinks the file*)
(* of a message it believes unfinished, receiver.c:846), and none is left  *)
(* behind.                                                                 *)
SpoolWhenCalm == calm => NeverLost /\ NoOrphan

(* While calm, no message is passed to the router a second time, whatever  *)
(* is repeated, lost or interrupted.                                       *)
NoneTwiceWhenCalm == [][calm => PassesNew]_<<vars, calm>>
=============================================================================
