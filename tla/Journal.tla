------------------------------ MODULE Journal ------------------------------
(***************************************************************************)
(* roundtable/journal.py: journal.json, shared by every roundtable process *)
(* of a topic through private snapshots.                                   *)
(*                                                                         *)
(* A process loads the journal into memory, works on its copy for as long  *)
(* as a seat takes to answer, and writes it back with a read-modify-write  *)
(* that overlays the copy on whatever the disk holds by then.  The journal *)
(* file lock makes each load, refresh, reopen and save one step, and       *)
(* nothing more: between two steps of one process any other process may    *)
(* run, exit or die.  Clients are not assumed to hold an invocation lock,  *)
(* so what is shown here rests on journal.py alone.                        *)
(*                                                                         *)
(* Times, ids and wording are left out.  A detail is kept only as far as   *)
(* reopen_wait_failure reads it: "wait" stands for timeout and stalled-tmp *)
(* reasons, "other" for the rest.  "route" is delivery_route, the field    *)
(* dispatch adds to a record without changing its state.                   *)
(***************************************************************************)
EXTENDS JournalMerge

CONSTANTS Proc,          \* roundtable processes
          Inv,           \* invocation ids
          Seat,          \* whoever is dispatched to: the code takes any name
          Participant,   \* the seats named in minutes.md, who make a round complete
          Act,           \* ids of human actions
          NewStates,     \* the states clients pass to set_state
          NewDetails,    \* the details clients pass to set_state
          Routes,        \* the delivery routes dispatch records
          MaxRound,      \* bound: rounds are not advanced beyond it
          MaxEpoch       \* bound: records are not reopened beyond it

Detail == {"wait", "other"}
Route  == {"unset", "relay", "stdout-only"}

ASSUME JournalAssumption ==
  /\ Participant \subseteq Seat
  /\ NewStates \subseteq State
  /\ NewDetails \subseteq Detail
  /\ Routes \subseteq Route \ {"unset"}
  /\ MaxRound \in Nat \ {0}
  /\ MaxEpoch \in Nat

Rec == [participant : Seat, round : Nat \ {0}, state : State,
        detail : Detail, epoch : Nat, route : Route]

ASSUME NoRecAssumption == NoRec \notin Rec

Conflict == [inv : Inv, kept : Rec, dropped : Rec]

JournalData == [round : Nat \ {0}, inv : [Inv -> Rec \cup {NoRec}],
                acts : SUBSET Act, conf : SUBSET Conflict]

(* What Journal.load returns for a topic that has no journal.json yet. *)
EmptyJournal == [round |-> 1, inv |-> [i \in Inv |-> NoRec], acts |-> {}, conf |-> {}]

VARIABLES
  disk,   \* the content of journal.json
  mem,    \* mem[p]: the data of p's Journal object
  pc      \* pc[p]: "out" (no Journal), "ready", or "saving" (about to take the lock)

vars == <<disk, mem, pc>>

Larger(m, n) == IF m >= n THEN m ELSE n

(* Mutant: a clash is resolved without a line under conflicts. *)
MergeDataSilent(d, l) ==
  [round |-> Larger(d.round, l.round),
   inv   |-> [i \in Inv |-> MergeRec(d.inv[i], l.inv[i])],
   acts  |-> d.acts \cup l.acts,
   conf  |-> d.conf \cup l.conf]

(* Mutant: the snapshot's round is written back. *)
MergeDataLocalRound(d, l) ==
  [round |-> l.round,
   inv   |-> [i \in Inv |-> MergeRec(d.inv[i], l.inv[i])],
   acts  |-> d.acts \cup l.acts,
   conf  |-> d.conf \cup l.conf]

(* _merge_data: round forward only, records overlaid, ids united, clashes logged. *)
MergeData(d, l) ==
  [round |-> Larger(d.round, l.round),
   inv   |-> [i \in Inv |-> MergeRec(d.inv[i], l.inv[i])],
   acts  |-> d.acts \cup l.acts,
   conf  |-> d.conf \cup l.conf \cup
             {[inv |-> i, kept |-> d.inv[i], dropped |-> l.inv[i]] :
                i \in {j \in Inv : Clash(d.inv[j], l.inv[j])}}]

Refreshed(p) == MergeData(disk, mem[p])

(* data["invocations"][i] = r *)
Put(d, i, r) == [d EXCEPT !.inv[i] = r]

(* The order in which copies of the journal may grow. *)
Below(a, b) ==
  /\ a.round <= b.round
  /\ \A i \in Inv : NotNewer(a.inv[i], b.inv[i])
  /\ a.acts \subseteq b.acts
  /\ a.conf \subseteq b.conf

MergedBy(d, x, r) ==
  \E i \in Inv : /\ d.inv[i] # NoRec
                 /\ d.inv[i].participant = x
                 /\ d.inv[i].round = r
                 /\ d.inv[i].state = "merged"

Complete(d, r) == \A x \in Participant : MergedBy(d, x, r)

-----------------------------------------------------------------------------
Init ==
  /\ disk = EmptyJournal
  /\ mem = [p \in Proc |-> EmptyJournal]
  /\ pc = [p \in Proc |-> "out"]

Load(p) ==
  /\ pc[p] = "out"
  /\ mem' = [mem EXCEPT ![p] = disk]
  /\ pc' = [pc EXCEPT ![p] = "ready"]
  /\ UNCHANGED disk

(* p puts d in memory and goes on to save(). *)
Stage(p, d) ==
  /\ pc[p] = "ready"
  /\ mem' = [mem EXCEPT ![p] = d]
  /\ pc' = [pc EXCEPT ![p] = "saving"]
  /\ UNCHANGED disk

(* A refresh that ends without a save. *)
Settle(p) ==
  /\ pc[p] = "ready"
  /\ mem' = [mem EXCEPT ![p] = Refreshed(p)]
  /\ UNCHANGED <<disk, pc>>

(* uuid4: nobody has the id, on disk or in memory. *)
FreshInv(i) == disk.inv[i] = NoRec /\ \A q \in Proc : mem[q].inv[i] = NoRec
FreshAct(a) == a \notin disk.acts /\ \A q \in Proc : a \notin mem[q].acts

(* new_invocation(participant, journal.round_no): the round is the snapshot's. *)
NewInvocation(p, i, x) ==
  /\ FreshInv(i)
  /\ Stage(p, Put(mem[p], i, [participant |-> x, round |-> mem[p].round,
                              state |-> "prepared", detail |-> "other",
                              epoch |-> 0, route |-> "unset"]))

(* dispatch writes delivery_route into its snapshot and saves, without a refresh. *)
SetRoute(p, i, r) ==
  /\ mem[p].inv[i] # NoRec
  /\ mem[p].inv[i].route = "unset"
  /\ Stage(p, Put(mem[p], i, [mem[p].inv[i] EXCEPT !.route = r]))

RecordHumanAction(p, a) ==
  /\ FreshAct(a)
  /\ Stage(p, [mem[p] EXCEPT !.acts = @ \cup {a}])

(* set_state up to its save: refresh, check the transition, change the copy. *)
SetState(p, i, s, det) ==
  /\ Refreshed(p).inv[i] # NoRec
  /\ TransitionAllowed(Refreshed(p).inv[i].state, s)
  /\ Stage(p, Put(Refreshed(p), i,
                  [Refreshed(p).inv[i] EXCEPT !.state = s, !.detail = det]))

(* set_state that raises ValueError: the refresh stays. *)
SetStateRefused(p, i, s) ==
  /\ Refreshed(p).inv[i] # NoRec
  /\ ~TransitionAllowed(Refreshed(p).inv[i].state, s)
  /\ Settle(p)

(* Mutant: an invocation of the round counts, whatever became of it. *)
AdvanceRoundAsked(p) ==
  /\ \A x \in Participant : \E i \in Inv :
       LET v == Refreshed(p).inv[i]
       IN v # NoRec /\ v.participant = x /\ v.round = Refreshed(p).round
  /\ Refreshed(p).round < MaxRound
  /\ Stage(p, [Refreshed(p) EXCEPT !.round = @ + 1])

(* advance_round_if_complete, with the participants line as the order. *)
AdvanceRound(p) ==
  /\ Complete(Refreshed(p), Refreshed(p).round)
  /\ Refreshed(p).round < MaxRound
  /\ Stage(p, [Refreshed(p) EXCEPT !.round = @ + 1])

AdvanceNothing(p) ==
  /\ ~Complete(Refreshed(p), Refreshed(p).round)
  /\ Settle(p)

ReopenedRecDown(r) == [r EXCEPT !.state = "waiting", !.epoch = @ - 1]    \* mutant

(* The record of a reopened wait failure: waiting, in a new recovery epoch. *)
ReopenedRec(r) == [r EXCEPT !.state = "waiting", !.detail = "other", !.epoch = @ + 1]

(* reopen_wait_failure: read, check and write under one lock. *)
Reopen(p, i) ==
  /\ pc[p] = "ready"
  /\ disk.inv[i] # NoRec
  /\ disk.inv[i].state = "failed"
  /\ disk.inv[i].detail = "wait"
  /\ disk.inv[i].epoch < MaxEpoch
  /\ disk' = Put(disk, i, ReopenedRec(disk.inv[i]))
  /\ mem' = [mem EXCEPT ![p] = disk']
  /\ UNCHANGED pc

(* Mutant: the snapshot is written over the disk as it is. *)
SaveBlind(p) ==
  /\ pc[p] = "saving"
  /\ disk' = mem[p]
  /\ pc' = [pc EXCEPT ![p] = "ready"]
  /\ UNCHANGED mem

(* save: overlay the snapshot on the disk and write it, under one lock. *)
Save(p) ==
  /\ pc[p] = "saving"
  /\ disk' = Refreshed(p)
  /\ mem' = [mem EXCEPT ![p] = disk']
  /\ pc' = [pc EXCEPT ![p] = "ready"]

(* The process ends, or dies before its save takes effect. *)
Exit(p) ==
  /\ pc[p] # "out"
  /\ mem' = [mem EXCEPT ![p] = EmptyJournal]
  /\ pc' = [pc EXCEPT ![p] = "out"]
  /\ UNCHANGED disk

ClientCall(p) ==
  \/ \E i \in Inv : \E x \in Seat : NewInvocation(p, i, x)
  \/ \E i \in Inv : \E r \in Routes : SetRoute(p, i, r)
  \/ \E a \in Act : RecordHumanAction(p, a)
  \/ \E i \in Inv : \E s \in NewStates : \E det \in NewDetails : SetState(p, i, s, det)
  \/ \E i \in Inv : \E s \in NewStates : SetStateRefused(p, i, s)
  \/ AdvanceRound(p)
  \/ AdvanceNothing(p)
  \/ \E i \in Inv : Reopen(p, i)

Next == \E p \in Proc : Load(p) \/ ClientCall(p) \/ Save(p) \/ Exit(p)

Spec == Init /\ [][Next]_vars

-----------------------------------------------------------------------------
TypeOK ==
  /\ disk \in JournalData
  /\ mem \in [Proc -> JournalData]
  /\ pc \in [Proc -> {"out", "ready", "saving"}]

(***************************************************************************)
(* No interleaving of stale snapshots takes journal.json back: the round,  *)
(* every record (recovery epoch first, then the state machine), the human  *)
(* actions and the conflicts only grow (save's read-modify-write).         *)
(***************************************************************************)
DiskMonotone == [][Below(disk, disk')]_vars

(***************************************************************************)
(* Between two calls a snapshot holds nothing the disk does not have: a    *)
(* call that returned is durable, and a refresh never raises a conflict.   *)
(***************************************************************************)
SettledBelowDisk == \A p \in Proc : pc[p] # "saving" => Below(mem[p], disk)

(***************************************************************************)
(* A save that returns either put each record of the snapshot on disk, or  *)
(* found the disk ahead, or logged the pair under conflicts: a record is   *)
(* never dropped silently (_merge_invocations).                            *)
(***************************************************************************)
NothingDroppedSilently ==
  [][\A p \in Proc : pc[p] = "saving" /\ pc'[p] = "ready" =>
       /\ mem[p].acts \subseteq disk'.acts
       /\ \A i \in Inv :
            \/ NotNewer(mem[p].inv[i], disk'.inv[i])
            \/ [inv |-> i, kept |-> disk.inv[i], dropped |-> mem[p].inv[i]] \in disk'.conf]_vars

(***************************************************************************)
(* The round on disk is past r only if every participant has a merged      *)
(* answer of round r (advance_round_if_complete against stale snapshots).  *)
(***************************************************************************)
RoundsBacked(n) == \A r \in 1..(n - 1) : Complete(disk, r)

RoundSound == RoundsBacked(disk.round)

(***************************************************************************)
(* What makes RoundSound inductive: every copy of an invocation has the    *)
(* participant and round it was created with, no copy is of a later        *)
(* recovery epoch than the disk's (only reopen_wait_failure starts an      *)
(* epoch, and it writes the disk at once), and the rounds already counted  *)
(* in a snapshot, a pending advance included, are backed by the disk.      *)
(***************************************************************************)
SameOrigin(a, b) == a.participant = b.participant /\ a.round = b.round

GoodCopy(i, r) ==
  r # NoRec =>
    /\ disk.inv[i] # NoRec => SameOrigin(r, disk.inv[i]) /\ r.epoch <= disk.inv[i].epoch
    /\ disk.inv[i] = NoRec => r.epoch = 0
    /\ \A q \in Proc : mem[q].inv[i] # NoRec => SameOrigin(r, mem[q].inv[i])

CopiesAgree == \A p \in Proc : \A i \in Inv : GoodCopy(i, mem[p].inv[i])

SnapshotsBacked == \A p \in Proc : RoundsBacked(mem[p].round)

IInv == TypeOK /\ SettledBelowDisk /\ CopiesAgree /\ SnapshotsBacked /\ RoundSound
=============================================================================
