------------------------------- MODULE Rounds -------------------------------
(***************************************************************************)
(* The end of a collect, cli._collect_one, over the journal: the answer    *)
(* enters minutes.md under the heading of its round (minutes.py), the      *)
(* invocation is marked merged, the round is advanced when everybody's     *)
(* answer is in, and the "round:" line of minutes.md is brought up to date.*)
(* These are four critical sections of two files; only the first two lie   *)
(* under the lock of the invocation, and a collector may end, die or find  *)
(* minutes.md dirty between any two of them.  Two commands end with the    *)
(* second: socket-collect, which calls watcher.collect itself, and cancel, *)
(* when it finds the answer committed.                                     *)
(*                                                                         *)
(* Validation and recovery of the answer itself are module Collection's.   *)
(***************************************************************************)
EXTENDS Journal, Sequences

CONSTANT Nothing     \* no invocation in hand

(* A topic names its seats (new-topic). *)
ASSUME RoundsAssumption == Nothing \notin Inv /\ Participant # {}

VARIABLES
  work, head,  \* minutes.md in the work tree and at HEAD: its round line and sections
  stage,       \* stage[p]: how far p's collect is
  cur,         \* cur[p]: the invocation whose lock p holds
  lost         \* history: the last round in which a command that had merged an
               \* answer, or was to advance the round, ended without the advance

roundVars == <<disk, mem, pc, work, head, stage, cur, lost>>

Clean == work = head       \* require_clean(minutes.md)

InMinutes(m, i) == \E k \in DOMAIN m.body : i \in m.body[k].answers

(* The body b with i among the answers of round r. *)
Joined(b, i, r) ==
  [k \in DOMAIN b |-> IF b[k].round = r THEN [b[k] EXCEPT !.answers = @ \cup {i}] ELSE b[k]]

(* merge_opinion: into the section of round r, which is made at the end if missing. *)
Added(m, i, r) ==
  IF InMinutes(m, i) THEN m
  ELSE IF \E k \in DOMAIN m.body : m.body[k].round = r
    THEN [m EXCEPT !.body = Joined(@, i, r)]
    ELSE [m EXCEPT !.body = Append(@, [round |-> r, answers |-> {i}])]

(* The lock of invocation i. *)
Unheld(i) == \A q \in Proc : cur[q] # i

At(p, s, i) == stage' = [stage EXCEPT ![p] = s] /\ cur' = [cur EXCEPT ![p] = i]

-----------------------------------------------------------------------------
(* new-topic: minutes.create, with the template's round 1. *)
InitRounds ==
  /\ Init
  /\ work = [round |-> 1, body |-> <<>>] /\ head = work
  /\ stage = [p \in Proc |-> "free"]
  /\ cur = [p \in Proc |-> Nothing]
  /\ lost = 0

Loads(p) == Load(p) /\ UNCHANGED <<work, head, stage, cur, lost>>

(* dispatch: make_snapshot reads clean minutes first; the round is the snapshot's. *)
Dispatches(p, i, x) ==
  /\ stage[p] = "free" /\ Clean
  /\ NewInvocation(p, i, x)
  /\ UNCHANGED <<work, head, stage, cur, lost>>

(* A collect or a cancel of an answer that is not adopted: set_state under the lock. *)
Closes(p, i, s) ==
  /\ stage[p] = "free" /\ Unheld(i)
  /\ s # "merged" /\ ~InMinutes(work, i)
  /\ SetState(p, i, s, "other")
  /\ At(p, "closing", i)
  /\ UNCHANGED <<work, head, lost>>

Collectable(p, i) ==
  /\ stage[p] = "free" /\ pc[p] = "ready" /\ Unheld(i)
  /\ Refreshed(p).inv[i] # NoRec
  /\ Refreshed(p).inv[i].state \notin Terminal

(* Mutant: the heading is that of the round the journal is in by now. *)
AdoptsUnderCurrent(p, i) ==
  /\ Collectable(p, i) /\ Clean
  /\ work' = Added(work, i, Refreshed(p).round) /\ head' = work'
  /\ At(p, "adopted", i)
  /\ Settle(p)
  /\ UNCHANGED lost

(* merge_opinion(tp, opinion, rec["round"]), written and committed. *)
Adopts(p, i) ==
  /\ Collectable(p, i) /\ Clean
  /\ work' = Added(work, i, Refreshed(p).inv[i].round) /\ head' = work'
  /\ At(p, "adopted", i)
  /\ Settle(p)
  /\ UNCHANGED lost

MarksMerged(p) ==
  /\ stage[p] = "adopted"
  /\ SetState(p, cur[p], "merged", "other")
  /\ At(p, "marking", cur[p])
  /\ UNCHANGED <<work, head, lost>>

(* cancel finds the answer committed: recovered-committed-response. *)
Acknowledges(p, i) ==
  /\ Collectable(p, i) /\ Clean /\ InMinutes(head, i)
  /\ SetState(p, i, "merged", "other")
  /\ At(p, "acknowledging", i)
  /\ UNCHANGED <<work, head, lost>>

(* collect of an invocation that is merged already: at once the same end. *)
CollectsAgain(p, i) ==
  /\ stage[p] = "free" /\ Unheld(i)
  /\ Refreshed(p).inv[i] # NoRec /\ Refreshed(p).inv[i].state = "merged"
  /\ Settle(p)
  /\ At(p, "merged", Nothing)
  /\ UNCHANGED <<work, head, lost>>

(* advance_round_if_complete(parse_participants(tp)). *)
Advances(p) ==
  /\ stage[p] = "merged" /\ Clean
  /\ \/ AdvanceRound(p) /\ At(p, "advancing", Nothing)
     \/ AdvanceNothing(p) /\ At(p, "syncing", Nothing)
  /\ UNCHANGED <<work, head, lost>>

(* The save of whatever p has in hand; the lock is left with the merge. *)
SavesIt(p) ==
  /\ stage[p] # "acknowledging"
  /\ Save(p)
  /\ CASE stage[p] = "marking" -> At(p, "merged", Nothing)
       [] stage[p] = "advancing" -> At(p, "syncing", Nothing)
       [] stage[p] = "closing" -> At(p, "free", Nothing)
       [] OTHER -> UNCHANGED <<stage, cur>>
  /\ UNCHANGED <<work, head, lost>>

(* cancel and socket-collect return with merged saved, and leave the round alone. *)
SavesAndReturns(p) ==
  /\ stage[p] \in {"marking", "acknowledging"}
  /\ Save(p)
  /\ At(p, "free", Nothing)
  /\ lost' = disk'.round
  /\ UNCHANGED <<work, head>>

(* The command of p ends; what it had in hand is dropped, its lock is freed. *)
Ends(p) ==
  /\ Exit(p)
  /\ At(p, "free", Nothing)
  /\ lost' = IF stage[p] \in {"merged", "advancing"} THEN disk.round ELSE lost

(* Mutant: the line shows the round to come. *)
SyncsAhead(p) ==
  /\ stage[p] = "syncing" /\ Clean
  /\ work' = [work EXCEPT !.round = mem[p].round + 1] /\ head' = work'
  /\ Ends(p)

(* sync_round(tp, journal.round_no), written and committed; the command returns. *)
Syncs(p) ==
  /\ stage[p] = "syncing" /\ Clean
  /\ work' = [work EXCEPT !.round = mem[p].round] /\ head' = work'
  /\ Ends(p)

(* The end of a finished command, a death, or a stop at dirty minutes. *)
EndsOrDies(p) == Ends(p) /\ UNCHANGED <<work, head>>

(* A death between the write of minutes.md and its commit. *)
DiesAdopting(p, i) ==
  /\ Collectable(p, i) /\ Clean
  /\ work' = Added(work, i, Refreshed(p).inv[i].round)
  /\ Ends(p) /\ UNCHANGED head

DiesSyncing(p) ==
  /\ stage[p] = "syncing" /\ Clean
  /\ work' = [work EXCEPT !.round = mem[p].round]
  /\ Ends(p) /\ UNCHANGED head

(* The human commits what was found, or checks the file out. *)
Repairs ==
  /\ ~Clean
  /\ \/ head' = work /\ UNCHANGED work
     \/ work' = head /\ UNCHANGED head
  /\ UNCHANGED <<disk, mem, pc, stage, cur, lost>>

CollectorStep(p) ==
  \/ Loads(p)
  \/ \E i \in Inv : \E x \in Seat : Dispatches(p, i, x)
  \/ \E i \in Inv : \E s \in NewStates : Closes(p, i, s)
  \/ \E i \in Inv : Adopts(p, i) \/ Acknowledges(p, i) \/ CollectsAgain(p, i) \/ DiesAdopting(p, i)
  \/ MarksMerged(p) \/ Advances(p) \/ SavesIt(p) \/ SavesAndReturns(p) \/ Syncs(p)
  \/ EndsOrDies(p) \/ DiesSyncing(p)

NextRounds == (\E p \in Proc : CollectorStep(p)) \/ Repairs

SpecRounds == InitRounds /\ [][NextRounds]_roundVars

-----------------------------------------------------------------------------
(***************************************************************************)
(* The round is not left complete and unadvanced because two collectors of *)
(* the last two answers each missed the other's (advance_round_if_complete *)
(* reads the journal again): somebody is still going to advance it, as     *)
(* long as every command that merged an answer in this very round was a    *)
(* collect that lived to advance it.  Where a cancel or a socket-collect   *)
(* merged, or a collector ended before the advance, the round stands until *)
(* somebody collects again (CollectsAgain).                                *)
(***************************************************************************)
WillAdvance(p) ==
  stage[p] = "merged" \/ (stage[p] = "advancing" /\ mem[p].round > disk.round)

NoAdvanceIsLost ==
  Complete(disk, disk.round) /\ disk.round < MaxRound /\ lost # disk.round
    => \E p \in Proc : WillAdvance(p)

(***************************************************************************)
(* minutes.md reads in the order of the discussion: rounds ascend, and     *)
(* every answer stands under the round it was asked in, late answers of a  *)
(* passed round and dispatches from a stale snapshot included              *)
(* (merge_opinion, new_invocation).                                        *)
(***************************************************************************)
AnswersStandInOrder ==
  /\ \A k, l \in DOMAIN head.body : k < l => head.body[k].round < head.body[l].round
  /\ \A k \in DOMAIN head.body : \A i \in head.body[k].answers :
       disk.inv[i] # NoRec /\ disk.inv[i].round = head.body[k].round

(***************************************************************************)
(* The round a reader of minutes.md sees has been reached: the line is     *)
(* never ahead of the journal, whatever was written by whom and whichever  *)
(* way a half-done write was repaired (sync_round).                        *)
(***************************************************************************)
DisplayNotAhead == work.round <= disk.round /\ head.round <= disk.round
=============================================================================
