---------------------------- MODULE MCCollection ----------------------------
(* Collection for TLC; the symmetry is for the run without liveness. *)
EXTENDS Collection, TLC

Symmetry == Permutations(Collector) \cup Permutations(Inv) \cup Permutations(Digest)
=============================================================================
