------------------------------ MODULE MCRounds ------------------------------
(* Rounds for TLC: processes, invocations and seats are interchangeable. *)
EXTENDS Rounds, TLC

Symmetry == Permutations(Proc) \cup Permutations(Inv) \cup Permutations(Participant)
=============================================================================
