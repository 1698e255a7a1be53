----------------------------- MODULE MCDelivery -----------------------------
(* Delivery for TLC. *)
EXTENDS Delivery, TLC

Symmetry == Permutations(Dispatch) \cup Permutations(Thread)
=============================================================================
