------------------------------ MODULE MCRouter ------------------------------
(***************************************************************************)
(* Instances of Router for TLC: messages 1 and 2 are copies of one         *)
(* broadcast that came by two links, and go on by a third.                 *)
(***************************************************************************)
EXTENDS Router, TLC

MCId == <<"b", "b">>
MCBound == [i \in {"b"} |-> {"l1"}]

(* Routers are alike. *)
MCSymmetry == Permutations(Routers)

(* A router is told to finish, or dies: once in all.  A message that is     *)
(* spoilt is followed no further: NothingLost and RepeatsMarked except it.  *)
OneEnd == terms + deaths <= 1 /\ spoilt = {}
=============================================================================
