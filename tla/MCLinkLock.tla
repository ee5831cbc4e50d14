----------------------------- MODULE MCLinkLock -----------------------------
(***************************************************************************)
(* Instances of LinkLock for TLC.                                          *)
(***************************************************************************)
EXTENDS LinkLock, TLC

(* Callers are alike. *)
MCSymmetry == Permutations(Callers)

(* What follows a race is of no interest to properties that except it. *)
NoRace == races = {}
=============================================================================
