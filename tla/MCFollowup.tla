----------------------------- MODULE MCFollowup -----------------------------
(* Followup, and with it Handoff, for TLC. *)
EXTENDS Followup, TLC

Symmetry == Permutations(Proc)
=============================================================================
