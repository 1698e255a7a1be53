----------------------------- MODULE MCJournal -----------------------------
(* Journal for TLC: processes, invocations, seats and actions are interchangeable. *)
EXTENDS Journal, TLC

Symmetry == Permutations(Proc) \cup Permutations(Inv) \cup Permutations(Participant)
              \cup Permutations(Act)
=============================================================================
