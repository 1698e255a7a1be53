------------------------------ MODULE OneShot ------------------------------
(***************************************************************************)
(* What a delivery receipt promises: it is claimed before anything leaves, *)
(* and a claim lets at most one message out, whatever becomes of it.       *)
(***************************************************************************)
EXTENDS Integers

VARIABLES stage, sent

Init == stage = "none" /\ sent = 0

Prepare == stage = "none" /\ stage' = "prepared" /\ UNCHANGED sent

Claim == stage = "prepared" /\ stage' = "claimed" /\ UNCHANGED sent

Send == stage = "claimed" /\ sent = 0 /\ sent' = 1 /\ UNCHANGED stage

Settle == stage = "claimed" /\ stage' = "settled" /\ UNCHANGED sent

Next == Prepare \/ Claim \/ Send \/ Settle

Spec == Init /\ [][Next]_<<stage, sent>>
=============================================================================
