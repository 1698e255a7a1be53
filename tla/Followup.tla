------------------------------ MODULE Followup ------------------------------
(***************************************************************************)
(* followup.py on top of Handoff: the coordinator's task is told that an   *)
(* answer was merged.  The command line only keeps the outbox; whoever     *)
(* claimed the message hands it to the native tool, outside the lock, and  *)
(* records the tool's receipt, or does not live to do so.                  *)
(***************************************************************************)
EXTENDS Handoff

VARIABLES
  note,    \* followups/<inv>.json: its state, in the work tree and at HEAD
  agent,   \* agent[p]: where the coordinator that runs p is
  told     \* messages handed to the native tool (history)

outbox == <<note, agent, told>>

NoteState == {"prepared", "sending", "submitted"}

ASSUME FollowupAssumption == None \notin NoteState

InitFollowup ==
  /\ Init
  /\ note = Committed(None)
  /\ agent = [p \in Proc |-> "idle"]
  /\ told = 0

(* Mutant: the evidence is not looked at. *)
ReadyUnmerged(p) == pc[p] = "idle" /\ lock = None /\ ~Dirty(note)

(* _load, _evidence: a clean record of a merged invocation, under its lock. *)
Ready(p) == pc[p] = "idle" /\ lock = None /\ ~Dirty(note) /\ journal = "merged"

PreparesNote(p) ==
  /\ Ready(p) /\ agent[p] = "idle"
  /\ note.work = None
  /\ note' = Committed("prepared")
  /\ UNCHANGED <<agent, told, vars>>

(* Mutant: a claim whose message may be gone is given out again. *)
ClaimsNoteAgain(p) ==
  /\ Ready(p) /\ agent[p] = "idle"
  /\ note.work \in {"prepared", "sending"}
  /\ note' = Committed("sending")
  /\ agent' = [agent EXCEPT ![p] = "claimed"]
  /\ UNCHANGED <<told, vars>>

(* claim returns the message once, after "sending" is saved. *)
ClaimsNote(p) ==
  /\ Ready(p) /\ agent[p] = "idle"
  /\ note.work = "prepared"
  /\ note' = Committed("sending")
  /\ agent' = [agent EXCEPT ![p] = "claimed"]
  /\ UNCHANGED <<told, vars>>

(* send_message_to_thread, outside roundtable. *)
Tells(p) ==
  /\ agent[p] = "claimed"
  /\ told' = told + 1
  /\ agent' = [agent EXCEPT ![p] = "told"]
  /\ UNCHANGED <<note, vars>>

(* record: a claimed note, and the accepted receipt of the tool. *)
RecordsReceipt(p) ==
  /\ Ready(p) /\ agent[p] = "told"
  /\ note.work = "sending"
  /\ note' = Committed("submitted")
  /\ agent' = [agent EXCEPT ![p] = "idle"]
  /\ UNCHANGED <<told, vars>>

AgentDies(p) ==
  /\ Fault
  /\ agent[p] # "idle"
  /\ agent' = [agent EXCEPT ![p] = "idle"]
  /\ UNCHANGED <<note, told>>
  /\ UNCHANGED <<receipt, journal, scratch, lock, pc, job, transcript, handed, placed, raced>>

(* A command dies between the write of the record and its commit. *)
DiesNoting(p) ==
  /\ Fault
  /\ Ready(p)
  /\ \/ agent[p] = "idle" /\ note.work = None /\ note' = [note EXCEPT !.work = "prepared"]
     \/ agent[p] = "idle" /\ note.work = "prepared" /\ note' = [note EXCEPT !.work = "sending"]
     \/ agent[p] = "told" /\ note.work = "sending" /\ note' = [note EXCEPT !.work = "submitted"]
  /\ agent' = [agent EXCEPT ![p] = "idle"]
  /\ UNCHANGED <<told, receipt, journal, scratch, lock, pc, job, transcript, handed, placed, raced>>

RepairsNote ==
  /\ Dirty(note)
  /\ note' \in {Committed(note.work), Committed(note.head)}
  /\ UNCHANGED <<agent, told, vars>>

NextFollowup ==
  \/ Next /\ UNCHANGED outbox
  \/ \E p \in Proc : PreparesNote(p) \/ ClaimsNote(p) \/ Tells(p) \/ RecordsReceipt(p)
                       \/ AgentDies(p) \/ DiesNoting(p)
  \/ RepairsNote

SpecFollowup == InitFollowup /\ [][NextFollowup]_<<vars, outbox>>

-----------------------------------------------------------------------------
TypeOKFollowup ==
  /\ TypeOK
  /\ note \in [work : NoteState \cup {None}, head : NoteState \cup {None}]
  /\ agent \in [Proc -> {"idle", "claimed", "told"}]
  /\ told \in Nat

(***************************************************************************)
(* The followup is a one-shot too: the coordinator's task is told at most  *)
(* once, and never unless the claim is committed (claim: resend-forbidden).*)
(***************************************************************************)
NoteStage(n) ==
  CASE n = None -> "none" [] n = "prepared" -> "prepared" [] n = "sending" -> "claimed"
    [] OTHER -> "settled"

NotePromise == INSTANCE OneShot WITH stage <- NoteStage(note.head), sent <- told

ToldOnce == NotePromise!Spec

(***************************************************************************)
(* Whoever is told is told of an answer that stays merged, and a submitted *)
(* note is one that was told.                                              *)
(***************************************************************************)
ToldOfMerged ==
  /\ told > 0 => journal = "merged"
  /\ note.work = "submitted" => told = 1
=============================================================================
