--------------------------- MODULE MCSeatProcess ----------------------------
(* SeatProcess for TLC. *)
EXTENDS SeatProcess, TLC

Symmetry == Permutations(Thread)
=============================================================================
