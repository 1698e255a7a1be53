------------------------------ MODULE MCLedger ------------------------------
(* Ledger for TLC: processes, files and texts are interchangeable. *)
EXTENDS Ledger, TLC

Symmetry == Permutations(Proc) \cup Permutations(File) \cup Permutations(Text)
=============================================================================
