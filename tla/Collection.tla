----------------------------- MODULE Collection -----------------------------
(***************************************************************************)
(* watcher.py with the parts of minutes.py, journal.py, ledger.py and      *)
(* cli.py it drives: dispatching, collecting and cancelling invocations.   *)
(*                                                                         *)
(* Each command holds the invocation's AdvisoryFileLock for a whole pass   *)
(* (the operating system frees it when the process dies) and, inside,      *)
(* takes the minutes and journal locks for one read or one                 *)
(* read-modify-write at a time: those are the steps below.  Processes may  *)
(* die between any two steps, or between the write of a state file and its *)
(* git commit, which leaves the file dirty until a human repairs it.       *)
(* Bystanders are roundtable processes that hold an old snapshot of the    *)
(* journal and save it without the invocation lock, as the end of a        *)
(* collect and any dispatch of another seat do.                            *)
(*                                                                         *)
(* An answer is named by its hash (response_sha256); Bad stands for what   *)
(* does not parse, names another invocation or breaks the schema.          *)
(***************************************************************************)
EXTENDS JournalMerge, Sequences

CONSTANTS Collector,   \* processes that run dispatch, collect and cancel
          Bystander,   \* processes that only save snapshots
          Inv,         \* invocation ids
          Digest,      \* hashes of well-formed answers
          Bad,         \* the content of an unacceptable file
          None,        \* no file, no hash
          Nobody,      \* the holder of a free lock
          MaxFault     \* bound on deaths, foreign edits and scratch tampering

Proc    == Collector \cup Bystander
Content == Digest \cup {Bad, None}
Command == {"dispatch", "collect", "cancel"}
Detail  == {"", "wait", "bad", "changed", "conflict", "tampered", "relay",
            "from-tmp", "committed"}

Rec == [state : State, epoch : Nat, digest : Digest \cup {None}, detail : Detail]

ASSUME CollectionAssumption ==
  /\ Collector \cap Bystander = {}
  /\ Bad \notin Digest /\ None \notin Digest /\ Bad # None
  /\ Nobody \notin Proc
  /\ MaxFault \in Nat

ASSUME NoRecAssumption == NoRec \notin Rec

VARIABLES
  journal,     \* journal.json: the records, in the work tree and at HEAD
  minutes,     \* minutes.md: the answers in each invocation's sections, likewise
  scratch,     \* scratch[i]: the seat's <inv>.json and <inv>.json.tmp
  lock,        \* lock[i]: who holds the invocation lock
  mem,         \* mem[p]: the records of p's Journal object
  pc,          \* pc[p]: where p is in its command
  job,         \* job[p]: invocation, command, what was read, whether from the tmp, next pc
  dispatched,  \* the invocations whose dispatch has reached its lock
  faults       \* faults so far

vars == <<journal, minutes, scratch, lock, mem, pc, job, dispatched, faults>>

-----------------------------------------------------------------------------
(* ledger.py: a state file is clean when the work tree is what was committed. *)
Committed(w)  == [work |-> w, head |-> w, foreign |-> FALSE]
Written(f, w) == [f EXCEPT !.work = w]
Dirty(f)      == f.work # f.head \/ f.foreign

NoRecords == [i \in Inv |-> NoRec]
NoJob     == [inv |-> None, cmd |-> "collect", data |-> None, tmp |-> FALSE, next |-> "idle"]

Fresh  == [state |-> "prepared", epoch |-> 0, digest |-> None, detail |-> ""]
Legacy == [state |-> "failed", epoch |-> 0, digest |-> None, detail |-> "wait"]

Overlay(d, l) == [i \in Inv |-> MergeRec(d[i], l[i])]
Refreshed(p)  == Overlay(journal.work, mem[p])

TargetOf(p) == job[p].inv
RecOf(p)    == mem[p][TargetOf(p)]

(* has_response: the receipt of exactly this answer, in clean minutes. *)
HasResponse(i, d) == d # None /\ \E n \in 1..Len(minutes.work[i]) : minutes.work[i][n] = d

Reopenable(r) == r.state = "failed" /\ r.detail = "wait"

(* States in which a missing answer does not make the collector wait again. *)
PastWaiting == {"validated", "output-received"}

-----------------------------------------------------------------------------
Init ==
  /\ \E r \in [Inv -> {Fresh, Legacy}] : journal = Committed(r)
  /\ minutes = Committed([i \in Inv |-> <<>>])
  /\ scratch = [i \in Inv |-> [json |-> None, tmp |-> None]]
  /\ lock = [i \in Inv |-> Nobody]
  /\ mem = [p \in Proc |-> NoRecords]
  /\ pc = [p \in Proc |-> "idle"]
  /\ job = [p \in Proc |-> NoJob]
  /\ dispatched = {}
  /\ faults = 0

(* p is at l, working on its invocation; it moves to m. *)
Goto(p, m) == pc' = [pc EXCEPT ![p] = m]

(* Mutant: the lock of a process that left, or died, stays taken. *)
LeaveLocked(p, m) ==
  /\ Goto(p, m)
  /\ mem' = [mem EXCEPT ![p] = NoRecords]
  /\ job' = [job EXCEPT ![p] = IF m = "idle" THEN NoJob ELSE @]
  /\ UNCHANGED lock

(* Leaving the with block: the lock goes, and so does the Journal object. *)
Leave(p, m) ==
  /\ Goto(p, m)
  /\ lock' = [i \in Inv |-> IF lock[i] = p THEN Nobody ELSE lock[i]]
  /\ mem' = [mem EXCEPT ![p] = NoRecords]
  /\ job' = [job EXCEPT ![p] = IF m = "idle" THEN NoJob ELSE @]

(* The record that set_state leaves in the copy. *)
Changed(r, s, change) ==
  [r EXCEPT !.state = s, !.detail = change.detail,
            !.digest = IF change.digest = None THEN r.digest ELSE change.digest]

(* set_state up to its save: refresh, check, change the copy; then go on to m. *)
Stage(p, s, change, m) ==
  /\ ~Dirty(journal)
  /\ TransitionAllowed(Refreshed(p)[TargetOf(p)].state, s)
  /\ mem' = [mem EXCEPT ![p] =
               [Refreshed(p) EXCEPT ![TargetOf(p)] = Changed(Refreshed(p)[TargetOf(p)], s, change)]]
  /\ Goto(p, "save")
  /\ job' = [job EXCEPT ![p].next = m,
                        ![p].data = IF change.digest = None THEN job[p].data ELSE change.digest]
  /\ UNCHANGED <<journal, minutes, scratch, lock, dispatched, faults>>

Because(det)     == [detail |-> det, digest |-> None]
Provenance(p)    == IF job[p].tmp THEN "from-tmp" ELSE ""
Fail(p, det)     == Stage(p, "failed", Because(det), "idle")

-----------------------------------------------------------------------------
(* Mutant: a command does not wait for the invocation lock. *)
BeginUnlocked(p, i, c) ==
  /\ pc[p] = "idle"
  /\ ~Dirty(journal)
  /\ c = "dispatch" => i \notin dispatched
  /\ dispatched' = IF c = "dispatch" THEN dispatched \cup {i} ELSE dispatched
  /\ lock' = [lock EXCEPT ![i] = p]
  /\ mem' = [mem EXCEPT ![p] = journal.work]
  /\ job' = [job EXCEPT ![p] = [NoJob EXCEPT !.inv = i, !.cmd = c]]
  /\ Goto(p, "loaded")
  /\ UNCHANGED <<journal, minutes, scratch, faults>>

(* Taking the invocation lock and loading the journal under it. *)
Begin(p, i, c) ==
  /\ pc[p] = "idle"
  /\ lock[i] = Nobody
  /\ ~Dirty(journal)
  /\ c = "dispatch" => i \notin dispatched
  /\ dispatched' = IF c = "dispatch" THEN dispatched \cup {i} ELSE dispatched
  /\ lock' = [lock EXCEPT ![i] = p]
  /\ mem' = [mem EXCEPT ![p] = journal.work]
  /\ job' = [job EXCEPT ![p] = [NoJob EXCEPT !.inv = i, !.cmd = c]]
  /\ Goto(p, "loaded")
  /\ UNCHANGED <<journal, minutes, scratch, faults>>

Loaded(p, c) == pc[p] = "loaded" /\ job[p].cmd = c

(* dispatch: an invocation that is no longer "prepared" is not sent. *)
DispatchReturns(p) ==
  /\ Loaded(p, "dispatch")
  /\ RecOf(p).state # "prepared"
  /\ Leave(p, "idle")
  /\ UNCHANGED <<journal, minutes, scratch, dispatched, faults>>

(* Mutant: the state is not looked at again under the lock. *)
DispatchSendsAnyway(p) ==
  /\ Loaded(p, "dispatch")
  /\ Goto(p, "sending")
  /\ UNCHANGED <<journal, minutes, scratch, lock, mem, job, dispatched, faults>>

DispatchSends(p) ==
  /\ Loaded(p, "dispatch")
  /\ RecOf(p).state = "prepared"
  /\ Goto(p, "sending")
  /\ UNCHANGED <<journal, minutes, scratch, lock, mem, job, dispatched, faults>>

(* relay.send returned, raised DeliveryUnknownError, or raised anything else. *)
SendReturns(p) ==
  /\ pc[p] = "sending"
  /\ \/ Stage(p, "delivered", Because(""), "idle")
     \/ Stage(p, "delivery-unknown", Because(""), "idle")
     \/ Fail(p, "relay")

-----------------------------------------------------------------------------
CancelReturns(p) ==
  /\ Loaded(p, "cancel")
  /\ RecOf(p).state \in Terminal
  /\ Leave(p, "idle")
  /\ UNCHANGED <<journal, minutes, scratch, dispatched, faults>>

(* Mutant: the committed answer is not looked for. *)
CancelsBlindly(p) ==
  /\ Loaded(p, "cancel")
  /\ RecOf(p).state \notin Terminal
  /\ Stage(p, "cancelled", Because(""), "idle")

(* cancel of an answer that is already in the minutes completes it instead. *)
Cancels(p) ==
  /\ Loaded(p, "cancel")
  /\ RecOf(p).state \notin Terminal
  /\ RecOf(p).digest # None => ~Dirty(minutes)
  /\ IF HasResponse(TargetOf(p), RecOf(p).digest)
       THEN Stage(p, "merged", Because("committed"), "idle")
       ELSE Stage(p, "cancelled", Because(""), "idle")

-----------------------------------------------------------------------------
CollectReturns(p) ==
  /\ Loaded(p, "collect")
  /\ \/ RecOf(p).state = "merged" /\ Leave(p, "ok")
     \/ RecOf(p).state = "cancelled" /\ Leave(p, "idle")
     \/ /\ RecOf(p).state = "failed"
        /\ ~Dirty(journal) /\ ~Reopenable(journal.work[TargetOf(p)])
        /\ Leave(p, "idle")
  /\ UNCHANGED <<journal, minutes, scratch, dispatched, faults>>

Reopened(r) == [r EXCEPT !.state = "waiting", !.detail = "", !.epoch = r.epoch + 1]

(* reopen_wait_failure: one journal read-modify-write; then collect goes on. *)
CollectReopens(p) ==
  /\ Loaded(p, "collect")
  /\ ~Dirty(journal)
  /\ RecOf(p).state = "failed" /\ Reopenable(journal.work[TargetOf(p)])
  /\ journal' = Committed([journal.work EXCEPT ![TargetOf(p)] = Reopened(@)])
  /\ mem' = [mem EXCEPT ![p] = journal'.work]
  /\ UNCHANGED <<minutes, scratch, lock, pc, job, dispatched, faults>>

(* Mutant: a validated record is taken for a committed answer. *)
CollectRecoversUnchecked(p) ==
  /\ Loaded(p, "collect")
  /\ RecOf(p).state = "validated"
  /\ Stage(p, "merged", Because("committed"), "ok")

(* The answer was committed before a process died: mark it merged. *)
CollectRecovers(p) ==
  /\ Loaded(p, "collect")
  /\ RecOf(p).state = "validated"
  /\ ~Dirty(minutes)
  /\ HasResponse(TargetOf(p), RecOf(p).digest)
  /\ Stage(p, "merged", Because("committed"), "ok")

(* collect goes on to the scratch files. *)
Searching(p) ==
  /\ Loaded(p, "collect")
  /\ RecOf(p).state \notin Terminal
  /\ RecOf(p).state = "validated" =>
       ~Dirty(minutes) /\ ~HasResponse(TargetOf(p), RecOf(p).digest)

Json(p) == scratch[TargetOf(p)].json
Tmp(p)  == scratch[TargetOf(p)].tmp

(* Before the deadline the lock is released and taken again; at the deadline *)
(* missing-response and delivery-unknown return without a trace.             *)
GivesUp(p) ==
  /\ Searching(p)
  /\ Json(p) = None
  /\ Leave(p, "idle")
  /\ UNCHANGED <<journal, minutes, scratch, dispatched, faults>>

TimesOut(p) ==
  /\ Searching(p)
  /\ Json(p) = None /\ Tmp(p) = None
  /\ RecOf(p).state \notin PastWaiting
  /\ Stage(p, "waiting", Because("wait"), "idle")

(* An answer is at hand: note its receipt unless it was validated before. *)
Handle(p, d, fromTmp) ==
  /\ job' = [job EXCEPT ![p].data = d, ![p].tmp = fromTmp]
  /\ Goto(p, IF RecOf(p).state = "validated" THEN "read" ELSE "found")
  /\ UNCHANGED <<journal, minutes, scratch, lock, mem, dispatched, faults>>

FindsJson(p) == Searching(p) /\ Json(p) # None /\ Handle(p, None, FALSE)

(* _read_stable: the tmp is read twice, with a pause between. *)
ReadsTmp(p) ==
  /\ Searching(p)
  /\ Json(p) = None /\ Tmp(p) # None
  /\ job' = [job EXCEPT ![p].data = Tmp(p)]
  /\ Goto(p, "tmp")
  /\ UNCHANGED <<journal, minutes, scratch, lock, mem, dispatched, faults>>

RereadsTmp(p) ==
  /\ pc[p] = "tmp"
  /\ \/ Json(p) # None /\ Handle(p, None, FALSE)
     \/ /\ Json(p) = None /\ Tmp(p) = job[p].data /\ Tmp(p) \in Digest
        /\ Handle(p, Tmp(p), TRUE)
     \/ /\ Json(p) = None /\ ~(Tmp(p) = job[p].data /\ Tmp(p) \in Digest)
        /\ IF RecOf(p).state \in PastWaiting
             THEN /\ Leave(p, "idle")
                  /\ UNCHANGED <<journal, minutes, scratch, dispatched, faults>>
             ELSE Stage(p, "waiting", Because("wait"), "idle")

NotesOutput(p) ==
  /\ pc[p] = "found"
  /\ Stage(p, "output-received", Because(Provenance(p)), "read")

(* The json is read only now, after the receipt was noted. *)
AnswerOf(p) == IF job[p].tmp THEN job[p].data ELSE Json(p)

(* Mutant: the content of the file is not checked. *)
ValidatesUnchecked(p) ==
  /\ pc[p] = "read"
  /\ Stage(p, "validated", [detail |-> Provenance(p), digest |-> AnswerOf(p)], "merge")

(* Content, identity and schema checks, then the hash against an earlier one. *)
Validates(p) ==
  /\ pc[p] = "read"
  /\ CASE AnswerOf(p) \notin Digest -> Fail(p, "bad")
       [] AnswerOf(p) \in Digest /\ RecOf(p).digest \notin {None, AnswerOf(p)} ->
            Fail(p, "changed")
       [] OTHER -> Stage(p, "validated",
                         [detail |-> Provenance(p), digest |-> AnswerOf(p)], "merge")

Section(i, d) == [minutes.work EXCEPT ![i] = Append(@, d)]

(* merge_opinion: dirty minutes, or a section of i with another receipt. *)
MergeRefused(p) ==
  \/ Dirty(minutes)
  \/ minutes.work[TargetOf(p)] # <<>> /\ minutes.work[TargetOf(p)][1] # job[p].data

MergeRefuses(p) ==
  /\ pc[p] = "merge"
  /\ MergeRefused(p)
  /\ Fail(p, IF Dirty(minutes) THEN "tampered" ELSE "conflict")

(* merge_opinion appends the section, unless its own receipt is there, and commits. *)
Merges(p) ==
  /\ pc[p] = "merge"
  /\ ~MergeRefused(p)
  /\ minutes' = IF minutes.work[TargetOf(p)] = <<>>
                  THEN Committed(Section(TargetOf(p), job[p].data)) ELSE minutes
  /\ Goto(p, "merged")
  /\ UNCHANGED <<journal, scratch, lock, mem, job, dispatched, faults>>

MarksMerged(p) ==
  /\ pc[p] = "merged"
  /\ Stage(p, "merged", Because(Provenance(p)), "ok")

(* save: overlay, write and commit; the command ends when nothing follows. *)
Saves(p) ==
  /\ pc[p] = "save"
  /\ ~Dirty(journal)
  /\ journal' = Committed(Refreshed(p))
  /\ IF job[p].next \in {"idle", "ok"}
       THEN Leave(p, job[p].next)
       ELSE /\ mem' = [mem EXCEPT ![p] = Refreshed(p)]
            /\ Goto(p, job[p].next)
            /\ UNCHANGED <<lock, job>>
  /\ UNCHANGED <<minutes, scratch, dispatched, faults>>

(* A read of a dirty file raises (LedgerDirtyError, MinutesTamperedError) and *)
(* ends the command, the lock released, nothing written.                      *)
NeedsJournal(p) ==
  \/ pc[p] \in {"sending", "tmp", "found", "read", "merged", "save"}
  \/ pc[p] = "merge" /\ MergeRefused(p)
  \/ Loaded(p, "cancel") /\ RecOf(p).state \notin Terminal
  \/ Loaded(p, "collect") /\ RecOf(p).state \notin {"merged", "cancelled"}

NeedsMinutes(p) ==
  \/ Loaded(p, "cancel") /\ RecOf(p).state \notin Terminal /\ RecOf(p).digest # None
  \/ Loaded(p, "collect") /\ RecOf(p).state = "validated"

Aborts(p) ==
  /\ \/ NeedsJournal(p) /\ Dirty(journal)
     \/ NeedsMinutes(p) /\ Dirty(minutes)
  /\ Leave(p, "idle")
  /\ UNCHANGED <<journal, minutes, scratch, dispatched, faults>>

Finishes(p) ==
  /\ pc[p] = "ok"
  /\ Leave(p, "idle")
  /\ UNCHANGED <<journal, minutes, scratch, dispatched, faults>>

Continue(p) ==
  \/ DispatchReturns(p) \/ DispatchSends(p) \/ SendReturns(p)
  \/ CancelReturns(p) \/ Cancels(p)
  \/ CollectReturns(p) \/ CollectReopens(p) \/ CollectRecovers(p)
  \/ GivesUp(p) \/ TimesOut(p) \/ FindsJson(p) \/ ReadsTmp(p) \/ RereadsTmp(p)
  \/ NotesOutput(p) \/ Validates(p)
  \/ MergeRefuses(p) \/ Merges(p) \/ MarksMerged(p)
  \/ Saves(p) \/ Aborts(p) \/ Finishes(p)

-----------------------------------------------------------------------------
(* A bystander loads the journal and, much later, saves its snapshot. *)
SnapshotLoads(p) ==
  /\ pc[p] = "idle"
  /\ ~Dirty(journal)
  /\ mem' = [mem EXCEPT ![p] = journal.work]
  /\ Goto(p, "snapshot")
  /\ UNCHANGED <<journal, minutes, scratch, lock, job, dispatched, faults>>

SnapshotSaves(p) ==
  /\ pc[p] = "snapshot"
  /\ ~Dirty(journal)
  /\ journal' = Committed(Refreshed(p))
  /\ Leave(p, "idle")
  /\ UNCHANGED <<minutes, scratch, dispatched, faults>>

-----------------------------------------------------------------------------
Fault == faults < MaxFault /\ faults' = faults + 1

Dies(p) ==
  /\ Fault
  /\ pc[p] # "idle"
  /\ Leave(p, "idle")
  /\ UNCHANGED <<journal, minutes, scratch, dispatched>>

(* write_state: the file is written, the process dies before the commit. *)
DiesSaving(p) ==
  /\ Fault
  /\ pc[p] \in {"save", "snapshot"} /\ ~Dirty(journal)
  /\ journal' = [Written(journal, Refreshed(p)) EXCEPT !.foreign = (p \in Bystander)]
  /\ Leave(p, "idle")
  /\ UNCHANGED <<minutes, scratch, dispatched>>

(* The same in reopen_wait_failure, and in merge_opinion. *)
DiesReopening(p) ==
  /\ Fault
  /\ Loaded(p, "collect") /\ ~Dirty(journal)
  /\ RecOf(p).state = "failed" /\ Reopenable(journal.work[TargetOf(p)])
  /\ journal' = Written(journal, [journal.work EXCEPT ![TargetOf(p)] = Reopened(@)])
  /\ Leave(p, "idle")
  /\ UNCHANGED <<minutes, scratch, dispatched>>

DiesMerging(p) ==
  /\ Fault
  /\ pc[p] = "merge" /\ ~MergeRefused(p) /\ minutes.work[TargetOf(p)] = <<>>
  /\ minutes' = Written(minutes, Section(TargetOf(p), job[p].data))
  /\ Leave(p, "idle")
  /\ UNCHANGED <<journal, scratch, dispatched>>

(* Somebody else writes in minutes.md. *)
ForeignEdit ==
  /\ Fault
  /\ minutes' = [minutes EXCEPT !.foreign = TRUE]
  /\ UNCHANGED <<journal, scratch, lock, mem, pc, job, dispatched>>

(* What the error message asks of the human: commit the change, or check out HEAD. *)
RepairMinutes ==
  /\ Dirty(minutes)
  /\ minutes' \in {Committed(minutes.work), Committed(minutes.head)}
  /\ UNCHANGED <<journal, scratch, lock, mem, pc, job, dispatched, faults>>

RepairJournal ==
  /\ Dirty(journal)
  /\ journal' \in {Committed(journal.work), Committed(journal.head)}
  /\ UNCHANGED <<minutes, scratch, lock, mem, pc, job, dispatched, faults>>

(* A seat writes its tmp piecemeal, renames it, or does both at a stroke; *)
(* files that appear are replaced or removed only by a fault.             *)
Scratch(i, j, t) ==
  /\ scratch' = [scratch EXCEPT ![i] = [json |-> j, tmp |-> t]]
  /\ UNCHANGED <<journal, minutes, lock, mem, pc, job, dispatched>>

SeatWrites(i) ==
  /\ \E c \in Content \ {None} : Scratch(i, scratch[i].json, c)
  /\ UNCHANGED faults

SeatRenames(i) ==
  /\ scratch[i].json = None /\ scratch[i].tmp # None
  /\ Scratch(i, scratch[i].tmp, None)
  /\ UNCHANGED faults

SeatAnswers(i) ==
  /\ scratch[i].json = None
  /\ \E d \in Digest : Scratch(i, d, None)
  /\ UNCHANGED faults

ScratchFault(i) ==
  /\ Fault
  /\ \E c \in Content : Scratch(i, c, scratch[i].tmp)

Next ==
  \/ \E p \in Collector :
       \/ \E i \in Inv : \E c \in Command : Begin(p, i, c)
       \/ Continue(p) \/ DiesReopening(p) \/ DiesMerging(p)
  \/ \E p \in Bystander : SnapshotLoads(p) \/ SnapshotSaves(p)
  \/ \E p \in Proc : Dies(p) \/ DiesSaving(p)
  \/ ForeignEdit \/ RepairMinutes \/ RepairJournal
  \/ \E i \in Inv : SeatWrites(i) \/ SeatRenames(i) \/ SeatAnswers(i) \/ ScratchFault(i)

Spec == Init /\ [][Next]_vars

(***************************************************************************)
(* Fairness: a command that began goes on; a human repairs a dirty file    *)
(* and the seat ends up putting an answer in place, both as the operating  *)
(* documents ask; and each invocation is collected again and again, as     *)
(* collect-pending and the coordinator's reruns do.                        *)
(***************************************************************************)
Fairness ==
  /\ \A p \in Collector : WF_vars(Continue(p))
  /\ WF_vars(RepairMinutes) /\ WF_vars(RepairJournal)
  /\ \A i \in Inv : WF_vars(SeatAnswers(i))
  /\ \A i \in Inv : SF_vars(\E p \in Collector : Begin(p, i, "collect"))

FairSpec == Spec /\ Fairness

-----------------------------------------------------------------------------
File(S) == [work : S, head : S, foreign : BOOLEAN]

Pc == {"idle", "loaded", "sending", "tmp", "found", "read", "merge", "merged",
       "save", "ok", "snapshot"}

TypeOK ==
  /\ journal \in File([Inv -> Rec])
  /\ minutes \in File([Inv -> Seq(Digest)])
  /\ scratch \in [Inv -> [json : Content, tmp : Content]]
  /\ lock \in [Inv -> Collector \cup {Nobody}]
  /\ mem \in [Proc -> [Inv -> Rec \cup {NoRec}]]
  /\ pc \in [Proc -> Pc]
  /\ job \in [Proc -> [inv : Inv \cup {None}, cmd : Command, data : Content,
                       tmp : BOOLEAN, next : Pc]]
  /\ dispatched \subseteq Inv
  /\ faults \in 0..MaxFault

(***************************************************************************)
(* An answer in the minutes is one section, and the journal knows it: the  *)
(* record is validated or merged, with the hash in the receipt.  So no     *)
(* later reading of the scratch, cancellation, tampering or death turns an *)
(* adopted answer into a failure (collect consults the minutes first).     *)
(***************************************************************************)
AdoptedStays ==
  \A i \in Inv : minutes.work[i] # <<>> =>
    /\ Len(minutes.work[i]) = 1
    /\ journal.work[i].state \in {"validated", "merged"}
    /\ journal.work[i].digest = minutes.work[i][1]

(***************************************************************************)
(* A record is merged only over a committed answer, and a command that     *)
(* reported success is one whose merged record is committed.               *)
(***************************************************************************)
MergedIsBacked ==
  /\ \A i \in Inv : journal.work[i].state = "merged" =>
       minutes.head[i] = <<journal.work[i].digest>>
  /\ \A p \in Collector : pc[p] = "ok" => journal.head[TargetOf(p)].state = "merged"

(***************************************************************************)
(* Under the invocation lock the snapshot of that invocation is current,   *)
(* although bystanders save the journal meanwhile: no set_state of a       *)
(* command is refused, and no overlay meets two copies it cannot order.    *)
(***************************************************************************)
HolderIsCurrent ==
  /\ \A p \in Collector : \A i \in Inv :
       lock[i] = p /\ pc[p] # "save" /\ ~Dirty(journal) =>
         /\ mem[p][i].state = journal.work[i].state
         /\ mem[p][i].epoch = journal.work[i].epoch
         /\ mem[p][i].digest = journal.work[i].digest
  /\ \A p \in Proc : \A i \in Inv :
       ~Dirty(journal) => ~Clash(journal.work[i], mem[p][i])

(***************************************************************************)
(* A packet is handed to a relay only while its invocation is on record as *)
(* prepared: never after a cancellation, a collection or another dispatch. *)
(***************************************************************************)
SendsOnlyPrepared ==
  \A p \in Collector : pc[p] = "sending" /\ ~Dirty(journal) =>
    journal.work[TargetOf(p)].state = "prepared"

(***************************************************************************)
(* The promise of Adoption, about what is committed.                       *)
(***************************************************************************)
Closed(r) == r.state = "cancelled" \/ (r.state = "failed" /\ ~Reopenable(r))

PhaseOf(i) ==
  IF minutes.head[i] # <<>>
    THEN IF journal.head[i].state = "merged" THEN "acknowledged" ELSE "adopted"
    ELSE IF Closed(journal.head[i]) THEN "closed" ELSE "open"

AnswerIn(i) == IF minutes.head[i] # <<>> THEN minutes.head[i][1] ELSE None

Promise == INSTANCE Adoption WITH
  Answer <- Digest, NoAnswer <- None,
  phase  <- [i \in Inv |-> PhaseOf(i)],
  answer <- [i \in Inv |-> AnswerIn(i)]

ImplementsAdoption == Promise!Spec

(***************************************************************************)
(* Faults being finite, every invocation is settled: acknowledged, or      *)
(* closed.  A wait failure, a lost turn or a dead collector is not an end. *)
(***************************************************************************)
EverythingSettles ==
  \A i \in Inv : <>[](PhaseOf(i) \in {"acknowledged", "closed"})

=============================================================================
