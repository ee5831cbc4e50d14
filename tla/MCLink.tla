------------------------------- MODULE MCLink -------------------------------
(***************************************************************************)
(* Instances of VCLink for TLC.  The messages are interchangeable; runs    *)
(* that check liveness do not use that.                                    *)
(***************************************************************************)
EXTENDS VCLink, TLC

Symmetry == Permutations(Msgs)
=============================================================================
