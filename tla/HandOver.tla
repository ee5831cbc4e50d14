------------------------------ MODULE HandOver ------------------------------
(***************************************************************************)
(* What a link promises for one channel (netdaemon.8, ``exchange messages  *)
(* reliably''): the messages queued at one host arrive at the other, each  *)
(* once and in order, and a host lets go of a message only when the other  *)
(* has it.                                                                 *)
(***************************************************************************)
EXTENDS Naturals, Sequences, FiniteSets

CONSTANT Msgs

VARIABLES queued,    (* messages the sending host still has, in order      *)
          received   (* messages the other host has been given             *)

Has(s, m) == \E i \in DOMAIN s : s[i] = m

Init ==
  /\ queued \in [1 .. Cardinality(Msgs) -> Msgs]
  /\ \A m \in Msgs : Has(queued, m)
  /\ received = <<>>

Receive ==
  /\ queued # <<>> /\ ~Has(received, Head(queued))
  /\ received' = Append(received, Head(queued))
  /\ UNCHANGED queued

Forget ==
  /\ queued # <<>> /\ Has(received, Head(queued))
  /\ queued' = Tail(queued)
  /\ UNCHANGED received

Next == Receive \/ Forget

Spec == Init /\ [][Next]_<<queued, received>>
FairSpec == Spec /\ WF_<<queued, received>>(Next)
=============================================================================
