------------------------------ MODULE Witness -------------------------------
(***************************************************************************)
(* What ledger.py promises of a state file, and what the modules           *)
(* Collection, Handoff and Rounds take for granted when they write a file  *)
(* and commit it in one step: a file is on disk what it is at HEAD, or it  *)
(* is dirty and stays so until somebody accepts or restores it; no         *)
(* roundtable process ever builds on a dirty file.                         *)
(***************************************************************************)
CONSTANTS File, Content,
          Alien      \* what somebody else writes into a state file

VARIABLES work, head

Clean(f) == work[f] = head[f]

Init == work \in [File -> Content] /\ head = work

(* A write_state that returns: written and committed. *)
Saves(f, t) ==
  /\ Clean(f)
  /\ work' = [work EXCEPT ![f] = t]
  /\ head' = [head EXCEPT ![f] = t]

(* A write_state that fails or dies after its write: the file is dirty. *)
Tears(f, t) ==
  /\ Clean(f)
  /\ work' = [work EXCEPT ![f] = t]
  /\ UNCHANGED head

(* What is on disk is committed: by the human, or by a git that outlived its caller. *)
Accepted(f) ==
  /\ ~Clean(f)
  /\ head' = [head EXCEPT ![f] = work[f]]
  /\ UNCHANGED work

(* What is on disk goes: checked out by the human, or written over by a      *)
(* process that had looked at the file before it was changed.                *)
Restored(f) ==
  /\ ~Clean(f)
  /\ work' = [work EXCEPT ![f] = head[f]]
  /\ UNCHANGED head

(* Somebody else edits the file. *)
Edited(f) ==
  /\ work' = [work EXCEPT ![f] = Alien]
  /\ UNCHANGED head

Next ==
  \E f \in File :
    \/ \E t \in Content : Saves(f, t) \/ Tears(f, t)
    \/ Accepted(f) \/ Restored(f) \/ Edited(f)

Spec == Init /\ [][Next]_<<work, head>>
=============================================================================
