---------------------------- MODULE JournalMerge ----------------------------
(***************************************************************************)
(* The pure part of roundtable/journal.py: the invocation state machine    *)
(* and the rule that overlays one copy of an invocation record on another. *)
(*                                                                         *)
(* A record is any record with the fields "state" and "epoch"              *)
(* (recovery_epoch); the other fields are payload the rule never looks at, *)
(* and each module that uses this one chooses the payload it needs.        *)
(***************************************************************************)
EXTENDS Integers

CONSTANT NoRec      \* the value of a journal entry that does not exist

State == {"prepared", "delivered", "delivery-unknown", "waiting", "cancelled",
          "output-received", "validated", "merged", "failed"}

Terminal == {"merged", "failed", "cancelled"}

(* _FORWARD_INDEX: the places of the states on the normal path. *)
ForwardIndex ==
  [s \in {"prepared", "delivered", "output-received", "validated", "merged"} |->
     CASE s = "prepared" -> 0 [] s = "delivered" -> 1 [] s = "output-received" -> 2
       [] s = "validated" -> 3 [] s = "merged" -> 4]

(* _transition_allowed(current, new), one disjunct per return statement. *)
TransitionAllowed(current, new) ==
  \/ new = current
  \/ /\ current \notin Terminal
     /\ \/ new = "cancelled"
        \/ new = "waiting" /\ current \in {"prepared", "delivered", "delivery-unknown"}
        \/ /\ current \in {"waiting", "delivery-unknown"}
           /\ new \in {"output-received", "validated", "merged", "failed"}
        \/ new = "delivery-unknown" /\ current \in {"prepared", "delivered"}
        \/ new = "failed"
        \/ /\ {current, new} \subseteq DOMAIN ForwardIndex
           /\ ForwardIndex[new] >= ForwardIndex[current]

(***************************************************************************)
(* NotNewer(a, b): the copy a carries nothing the rule would keep over b.  *)
(* The recovery epoch decides first, then the state machine.               *)
(***************************************************************************)
NotNewer(a, b) ==
  \/ a = NoRec
  \/ /\ a # NoRec /\ b # NoRec
     /\ \/ a.epoch < b.epoch
        \/ a.epoch = b.epoch /\ TransitionAllowed(a.state, b.state)

(* Neither copy can reach the other: the case journal.py logs as a conflict. *)
Clash(d, l) == ~NotNewer(d, l) /\ ~NotNewer(l, d)

(***************************************************************************)
(* One entry of _merge_invocations: the local copy wins whenever the disk  *)
(* copy is not newer -- also when the two states are equal and only the    *)
(* payload differs, in which case the whole local record replaces the      *)
(* disk's -- and a clash keeps the disk copy.                              *)
(***************************************************************************)
MergeRecLocalWins(d, l) == IF l # NoRec THEN l ELSE d    \* mutant: no order

MergeRec(d, l) == IF NotNewer(d, l) /\ l # NoRec THEN l ELSE d
=============================================================================
