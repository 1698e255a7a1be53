# A TLA+ model of AI Round Table

AI Round Table (`src/roundtable`) lets a human coordinator put one question to
several AI seats (Claude, Codex, Grok, ...), collect each seat's opinion and keep
the minutes. It is a command line without a daemon: every command is a short
lived process, and whatever two commands must agree on lives in files of the
topic's directory, most of them under git. Nothing coordinates the commands but
those files and a few locks, so what can go wrong is what two processes do to
each other's files, what a death leaves behind, and what an external party
(a relay's provider, a Claude session, a seat that writes a file) did without
saying so. That is what these modules model.

## 1. The system

| part | source | state | operations |
|---|---|---|---|
| journal | `journal.py` | `journal.json`: round, invocations, human actions, conflicts; a private snapshot per process | load, refresh, new_invocation, set_state, reopen_wait_failure, advance_round_if_complete, record_human_action, save |
| file locks | `filelock.py` | lock files (`FileLock`, reclaimed by age), `flock` locks (`AdvisoryFileLock`) | acquire, release, reclaim |
| ledger | `ledger.py`, `atomicio.py` | the git repository of a topic: work tree, index and HEAD of each state file, `index.lock` | read_state (refuses a dirty file), write_state (write, then commit: one git command, or add, look and commit again) |
| minutes | `minutes.py` | `minutes.md`, with answers as marked sections | merge_opinion, has_response, write_verdict, sync_round |
| watcher | `watcher.py` | `scratch/<inv>.json`, `.json.tmp`; the invocation lock | collect, cancel |
| dispatch | `cli.py` | none of its own | dispatch, collect, cancel, collect-pending, advance of the round |
| relays | `relay*.py` | `seats.json`; the provider's threads | send, thread start / resume, session load / new / prompt, fallback to the clipboard |
| seat processes | `relay_codex.py`, `relay_grok.py`, `relay_process.py` | the agent process, its children, pipe, reader thread, one queue of answers, request ids, the set of loaded threads | ensure (spawn, initialize), rpc, replies to the agent's requests, close |
| handoff | `handoff.py`, `claude_socket.py` | `deliveries/<inv>.json`: the delivery receipt | prepare, deliver, collect_socket |
| followup | `followup.py` | `followups/<inv>.json` | prepare, claim, record |
| review gate | `review_workflow.py` | none (a validation) | gates of a manifest |
| packet, paths, schema, doctor | | none | rendering, naming, checks |

How they interact. `dispatch` creates an invocation in the journal, prints its
packet and, in the relay route, sends it; the seat answers by writing a scratch
file; `collect` validates that file, merges it into the minutes and marks the
invocation merged; when everybody's answer of a round is merged the round
advances. A packet that was only printed may instead be handed to a running
Claude session (`handoff`), whose answer is read from its transcript
(`socket-collect`) and put where `collect` looks; afterwards the coordinator's
own task may be told (`followup`). The invocation lock is held for a pass of
`collect`, `cancel`, `handoff`, `followup`; the locks of `journal.json`,
`minutes.md` and `seats.json` only for one read or one read-modify-write. Between
two of those every other process may run.

What is hard, by part, with the properties that answer it (`PROJECT.json` lists
every hazard with its line):

* journal: snapshots that are minutes old are saved over newer records; two
  processes move one invocation to incompatible states; an old failure returns
  after an explicit reopen; the round is advanced from a stale view.
* locks: a residue is reclaimed by age, while others judge the same residue, or a
  holder is slow; opens, stats and unlinks fail.
* collect: a death between the minutes and the journal, or between a write and
  its commit; cancel against a half-done collect; the seat renaming its file
  while it is read; a scratch file that changes after validation.
* relays: a request accepted whose reply is lost; a failure after a thread was
  opened; snapshots of `seats.json` that outlive the send of another seat.
* ledger: files with locks of their own share one index, one HEAD and git's
  `index.lock`; a git outlives the process that started it; a killed git leaves
  its lock; somebody edits between the look and the read.
* rounds: two collectors of the last two answers; a cancel or a socket-collect that
  merges the last one and does not advance; a late answer of an old round;
  the line of `minutes.md` written from an older view.
* seat processes: late answers, answers of a process that is gone, requests of the
  agent with colliding ids, a respawn that forgets the threads, children that
  outlive the agent.
* handoff and followup: a send whose outcome is unknown must never be repeated;
  the transcript grows while it is read.

## 2. The modules

| module | stands for | lines |
|---|---|---|
| `JournalMerge` | `_transition_allowed`, `_merge_invocations`: the overlay of one record | operators |
| `Journal` | `journal.py` as a whole, with the clients' stale snapshots | one action per operation |
| `Adoption` | what collecting promises: one answer, adopted for good, or none | abstract |
| `Collection` | dispatch / collect / cancel of `cli.py` and `watcher.py` with the minutes, the ledger and scratch files | EXTENDS JournalMerge; implements Adoption |
| `Rounds` | the end of a collect: `merge_opinion`, merged, `advance_round_if_complete`, `sync_round` | EXTENDS Journal |
| `Witness` | what the ledger promises of a state file: clean, or dirty until repaired | abstract |
| `Ledger` | `ledger.py`, `atomicio.py` and the git commands they run | implements Witness |
| `FileLock` | `filelock.FileLock` with its reclaim by age | timed |
| `Delivery` | `_cmd_dispatch`'s send, `relay.py`, `relay_codex.py`, `relay_grok.py`, `seats.json` | |
| `OneShot` | what a receipt promises: claimed before anything leaves, at most one message per claim | abstract |
| `SeatProcess` | the process behind a Tier 1 relay: transport, timeouts, `close`, and when `dispatch` closes it | |
| `Handoff` | `handoff.py`, `claude_socket.py` | implements OneShot |
| `Followup` | `followup.py` beside Handoff, sharing journal and lock | EXTENDS Handoff; implements OneShot |
| `MC*` | symmetry sets for TLC | |
| `*_proofs` | theorems with proofs: section 4 | |

State and actions. In `Journal`, `disk` is the file, `mem[p]` the data of p's
`Journal` object; `Stage` is the call that is about to take the file lock, `Save`
the locked read-modify-write and `Settle` a refresh, so whatever a process does
between its steps is visible to nobody. In `Collection`, `journal` and `minutes`
carry their work tree and their HEAD; a file whose two differ, or that somebody
else edited, is dirty and stops every command that reads it until the human
commits or reverts it. `pc` and `job` are the program counter and the locals of a
command, with one step per critical section. In `Delivery`, `local[p]` is the
snapshot of `seats.json` a dispatch loaded before its send and saves after it;
`turn` and `clip` record what left. In `Rounds`, `work` and `head` are `minutes.md`
(its round line and its sections), `stage[p]` says which of the four critical
sections of a collect comes next; after the second a `socket-collect`, and a `cancel`
that finds the answer committed, return. In `Ledger`, `pc[p]` is the line of `read_state`,
`write_state` or `commit` that p is at and `git[p]` the git command it has started,
which goes on when p dies: a commit reads HEAD ("base"), takes `index.lock`, moves
HEAD and then the index, and is refused when HEAD has moved since it read it
("stale"). `Collection`, `Handoff` and `Rounds` write and commit a file in one step,
with a death in between as a fault; that this is all a caller can see of the steps
of `Ledger` is what `ImplementsWitness` says. In `SeatProcess`, `pc` is the method
of the rpc in progress or where the caller is, `inbox` the requests the agent has
not dealt with, `queue` the answers it has sent, of whichever process; `kids` the
processes whose commands are running; Codex's own requests are messages in `queue`
under ids of `AgentId`. In `FileLock`, `file` is the lock file with its owner and age,
and every turn of the loop of `acquire` is a step, its failing stat and unlink another.
In `Handoff`, `receipt` is the receipt with
its work tree and HEAD, `transcript` what the session wrote since the target was
resolved: each line is one of the kinds `claude_socket.reply` tells apart, and
`Scan` is its loop body; `handed` counts what left; `socket-collect`'s look at the
scratch file and its rename ("placing") are two steps, and the seat writes when it
likes.

Four modules have a history variable, which no action reads: `upset` (FileLock: a
section was slow, a lock file was left behind), `lost` (Rounds: the last round in which
a command merged and ended without the advance), `raced` (Handoff: a scratch file came
between look and write), `mistaken` (SeatProcess: threads whose resume was answered by a
request of Codex). They name exactly the cases in which the code does not give the
property that mentions them.

In `Journal`, `Participant` are the seats a topic names and whose answers complete a
round; `Seat` are all those an invocation may be addressed to, since `new_invocation`
takes any name: an answer of a guest enters the minutes but no round waits for it.

Data is abstracted to what the properties tell apart: an answer is named by its
hash, `Bad` stands for everything the validation refuses, a detail is one of the
few texts the code later compares, a transcript line's place stands for its uuid.
Deliberately abstracted: `collect` inside `Handoff` is one step (`Collection`
has its steps); the invocation lock is free as soon as its holder is dead.

Definitions marked "mutant" are plausible bugs of the definition that follows them.
No specification uses them; each shows that a property notices such a bug.

Bounds, all in guards or in configurations: `MaxRound`, `MaxEpoch` (Journal),
`MaxFault` (Collection, Handoff, Ledger: deaths, killed gits, foreign edits and
foreign files), `MaxDeaths` (FileLock), `MaxLines` (Handoff), `MaxProc` and
`MaxSend` (SeatProcess), and the finite set `Thread` (Delivery, SeatProcess).
`MaxTries` (Ledger) is the code's 20, made 2 where that is enough. Clocks of `FileLock` are capped at `Timeout`, beyond which nothing
distinguishes them.

## 3. What is checked

| run | instance | question |
|---|---|---|
| `JournalStates` | 2 processes, 1 invocation, all states, 1 reopen | `DiskMonotone`: no save takes the file back; `NothingDroppedSilently`: a dropped record leaves a conflict; `SettledBelowDisk`: what a returned call changed is on disk |
| `Rounds` | 2 collectors, 3 invocations of 2 named seats and a guest, 2 rounds | `RoundSound`: a round is passed only over merged answers of everybody; `NoAdvanceIsLost`: no complete round stays without somebody to advance it, as long as those who merged were collects that lived to do so; `AnswersStandInOrder`; `DisplayNotAhead`: the line of the minutes shows no round that was not reached |
| `CollectionSafe` | 2 collectors, 1 bystander, 2 answers, 2 faults | `AdoptedStays`, `MergedIsBacked`: one answer per invocation, merged only with it in the minutes; `HolderIsCurrent`: the holder of the invocation lock is not overtaken; `SendsOnlyPrepared`; `ImplementsAdoption` |
| `CollectionLive` | 2 collectors, 1 bystander, 1 answer, 2 faults, fairness | `EverythingSettles`: every invocation is acknowledged or closed in the end |
| `FileLock` | 3 processes, 1 death, Stale 2, Timeout 3 | `ExclusiveUnlessUpset`: two are inside only after a slow section or a file left behind; `TimeoutMeansTurnover`: a waiter gives up only because others kept getting the lock, or reclaiming failed; `ResidueIsReclaimed` |
| `Delivery` | 2 dispatches, a Codex and a Grok seat, 2 threads | `CodexHandsOverOnce`; `JournalTellsTruth`: delivered, unknown and failed mean what they say; `SeatIsRemembered`: an accepted turn leaves its seat a thread, failed dispatches apart; `ThreadIsKept` |
| `Handoff` | 2 commands, 1 answer, 4 transcript lines, 2 faults | `RetryIsSafe`, `ImplementsOneShot`: a resend is allowed only when nothing left; `CollectsTheReply`; `NothingSentWhenOver`; `ScratchIsKept`: a scratch file is replaced only if it came between look and write; `ToldOnce`, `ToldOfMerged` |
| `Ledger` | 2 processes, 2 files, `index.lock` tried twice, 2 faults, fairness | `ReturnedIsCommitted`: a write that returned is at HEAD, by either path of `commit`; `BuildsOnCommitted`: what is read was at HEAD, edits in that moment apart; `ImplementsWitness`: also that a commit takes along no other file and that a file is torn only until it is repaired; `EveryCallEnds` |
| `SeatProcess` | Codex and Grok on 3 kinds of platform, 2 sends, 2 processes, 2 threads, Codex asking under id 5 | `OwnAnswer`: an rpc returns the answer to its own request from the running process, or, to Codex's relay, a request of the agent under its id; `TurnFindsItsThread`; `FallsBackAlone`: no accepted Codex turn is left running or to come when the caller falls back; `LeavesNothingInJob` |
| `FileLockExclusion`, `LedgerContention`, `SeatProcessOrphans` | small | statements of the repository the code does not keep: section 5 |

Why these bounds are enough for what they claim. Every hazard above is a meeting
of two processes (three for the lock file: one that died and two that wait), of
one invocation or of two where a round is concerned; two faults allow a death in
the recovery from a death. Two answers are needed for one to replace another.
Four transcript lines hold a request, an answer, a rejection or more talk, and a
second answer, which is the shortest story in which a rejected answer could be
taken. In `Ledger`, two files are one to commit and one whose commit interferes;
two faults allow a dead predecessor's git and an edit, or a left `index.lock` and
a death; nothing but the number of waits depends on how often `index.lock` is
tried. In `SeatProcess`, a second process and a second send are what late answers
and forgotten threads need; 5 is the id of the resume by which a second process loads
the thread of the first, among others. In `FileLock`, Stale 2 lets a file age without
being old, Timeout 3 lets a waiter that begins beside a residue see it grow old before
it gives up. The state spaces are exhausted; the theorems of section 4 remove the
bounds where they exist.

Stopping. Deadlock is checked in Collection and FileLock. In Journal, Rounds,
Delivery, Handoff, Followup, Ledger and SeatProcess commands end, rounds reach their bound and receipts are
spent, so a state without a successor is a finished topic.

Fairness (`FairSpec`). In `Collection`: a command that has begun goes on unless
it dies; the human repairs a dirty file (the repository's README, "改ざん検知は git", has the
human commit or check out; `require_clean` stops until then); the seat writes an answer; somebody runs `collect`
again and again, which is strong fairness because the invocation lock may be
taken in between (`docs/operations/collection-recovery.md`: `collect-pending`).
In `FileLock`: processes that wait or hold go on, time passes, and the topic stays
in use, since a residue is only ever reclaimed by somebody who wants the lock; and stat and
unlink, tried again and again, succeed at last (strong fairness of `Judges` and
`Reclaims`): of a file that cannot be removed at all nothing is claimed. A turn of a
waiter's loop takes less than a tick of the model (it sleeps a fraction of a second).
In `Ledger`: a process goes on with its call, and a git command with what it does,
unless they die or are killed; nothing is assumed of the human, so `EveryCallEnds`
holds although an `index.lock` may stay for ever.
No fairness is assumed of the provider, of a session or of the coordinator: for
them only safety is claimed.

## 4. What is proved

The proofs (tlapm, Z3, Zenon, LS4) hold for every value of the constants that the
named assumptions allow: any number of processes, invocations, seats, answers,
lines, faults. All invariants and all action properties that the passing runs
check are theorems. Each proof names an inductive invariant, one lemma per action
that disturbs it, and the parts below, each there because without it a step would
break another part.

* `Journal_proofs`, from `JournalAssumption` and `NoRecAssumption`: `TypeCorrect`,
  `DiskNeverGoesBack` (`DiskMonotone`), `NothingIsDropped`
  (`NothingDroppedSilently`), `ReturnedCallsAreOnDisk` (`SettledBelowDisk`) and
  `RoundIsBacked` (`RoundSound`). The invariant `IInv` adds to types and to the two
  safety properties that all copies of one record agree on its participant and round
  and none has a later epoch than the disk (`CopiesAgree`), and that every round a
  snapshot has passed is complete on disk (`SnapshotsBacked`): without the first a
  stale copy could overtake the disk's, without the second a save could carry over
  a round nobody has answered. The order `NotNewer` of records is shown to be
  respected by `MergeRec` first. The step lemmas are about `AnyNext`, the calls of
  `journal.py` with any state and detail, so that they serve whoever calls it:
  `Rounds_proofs` uses them as they stand.
* `Rounds_proofs`, from the same and `RoundsAssumption` (a topic names its seats): `AdvanceNotLost` (`NoAdvanceIsLost`),
  `MinutesInOrder` (`AnswersStandInOrder`), `LineNotAhead` (`DisplayNotAhead`),
  `PassedRoundsAnswered` (`RoundSound`). `RInv` has `IInv`, where a collector is
  (`Places`), the order of both copies of the minutes (`Ordered`), since a repair may
  take either, and `Standing`: what anybody takes for merged stands in the minutes,
  and only the command that marks it is ahead of the disk, be it a collect or a cancel
  that found the answer committed. From that follows that a collector whose save
  completes a round is still going to advance it, and that any other save that does is
  recorded in `lost`, which is what `NoAdvanceIsLost` needs when two save at once.
* `FileLock_proofs`, from `FileLockAssumption` (a residue looks stale before a waiter
  gives up; nothing is assumed of how long a section lasts): `LockTypeCorrect`,
  `ExclusionUnlessUpset` (`ExclusiveUnlessUpset`) and `NobodyGivesUpOnResidue`
  (`TimeoutMeansTurnover`). `LockInv` says that until a section is slow or a file left
  behind, the file belongs to the process inside, as old as its stay, and no waiter has
  judged it stale. `AgeInv`, whatever happened: a file that is too old has been so since
  the tick began, so whoever has polled in it has removed it or failed to.
  The modules in which one process at a time reads and writes `journal.json`,
  `minutes.md` or `seats.json` (Journal, Collection, Rounds, Delivery, Handoff, Ledger)
  rest on this exclusion: they hold as long as no such section lasts `STALE_AFTER_S`
  (30 s) and no two waiters reclaim one residue. The code gives neither for certain: the
  sections run git without a timeout, up to 20 times (`ledger.py:57-66`).
* `Collection_proofs`, from `CollectionAssumption` and `NoRecAssumption`: `TypeOK`,
  `AdoptedStays`, `MergedIsBacked`, `HolderIsCurrent`, `SendsOnlyPrepared` and the
  refinement of Adoption (`AdoptionKept`). `CInv`: who holds which lock (`Locks`);
  that what a death left between write and commit is one record nobody works on, moved
  on or reopened, or one new section (`HalfDone`); that a record, committed or not, goes with its
  minutes (`Books`); what the holder of the lock knows at each place of its command
  (`Knows`), and that no other snapshot is ahead of HEAD, nor equal to it with
  another answer (`Behind`). The last is what lets a bystander's save of a stale
  journal be harmless to a record in the hands of another.
* `Ledger_proofs`, from `LedgerAssumption`: `TypeOK`, `ReturnedIsCommitted`,
  `BuildsOnCommitted` and the refinement of Witness (`WitnessKept`), with git commands
  that go on when their process is dead. `LInv`: who holds which file (`Locks`), whose
  git has `index.lock` (`GitOf`) and what a process knows of its file at each line
  (`Told`). The hard part is that the git of a dead predecessor may commit the same
  file at any time: `Told` says that it then commits what is there, and that nobody
  is past `git add` while it has `index.lock`.
* `Delivery_proofs`, from `DeliveryAssumption`: `CodexHandsOverOnce`,
  `JournalTellsTruth`, `SeatIsRemembered` and `ThreadIsKept`. `DInv` says where a
  packet can be at each place of a dispatch (`Story`), that what is about to be
  recorded is what happened (`Outcome`), and that from the save on the seat has a
  thread (`Remembered`), which no later save of an older snapshot takes away.
* `Handoff_proofs`, from `HandoffAssumption` and `FollowupAssumption` (values do not
  collide): `RetryIsSafe`, `NothingSentWhenOver`, `ScratchIsKept` and the refinement of
  OneShot (`ImplementsOneShot`), first for Handoff alone, then with the followup beside
  it as in the run (`HandoffWithFollowup`); `ToldOfMerged` and `ToldOnce` of the
  followup; `CollectsTheReply` and the types. `HInv` says that only the holder of the
  invocation lock is in the middle of a command (`Locked`), what it knows of receipt and
  journal at each place (`HolderKnows`: that the receipt is clean, in which state, and
  that nothing left while it says "sending" and the send is still to come), and that a
  receipt a death left dirty is at most one stage ahead of HEAD (`Ahead`), so that
  either repair is a step of the promise or none. `Overtaken` says that a scratch file
  that is there when a command is about to place its reply came after the look
  (`raced`). `NInv` is the same for the note:
  it is with one agent (`OneAgent`). `ReadingsFound` is about the transcript: the loop
  of `reply` has one run over its lines, the state it ends in says what is true of
  them (`Follows`), and whatever was read is still an answer that was final when it was
  read, however the transcript has grown (`FoundIn`). That a recursive function
  over the lines is one, and what it computes, would be an induction over data, which the
  provers cannot do; here it is made with the steps of the system, since the session
  only ever appends a line (`ScanGrows`, `ScanFollows`).
* `SeatProcess_proofs`, for any numbers of sends, processes and threads and with no
  assumption on them: `AnswersAreOwn` (`OwnAnswer`), `TurnsFindTheirThread`
  (`TurnFindsItsThread`), `FallbacksAreAlone` (`FallsBackAlone`) and
  `JobsLeaveNothing` (`LeavesNothingInJob`). Three invariants carry them.
  `TransportInv`: ids on their way were given and are not given again (`Ids`), so a
  request or an answer with the id of the rpc in progress is this rpc's, requests of
  Codex apart, whose ids are arbitrary (`OwnRequest`, `OwnAnswers`), and what the relay
  takes for loaded is, or was taken so on such a request (`LoadedIsKnown`); without the last, a turn for a thread the relay wrongly holds for loaded
  could not be ruled out. `FallbackInv`: a request is dealt with once (`Fresh`), a refusal is of
  something not accepted (`RefusedIsLeft`), and between the failure and the close
  no turn of this send waits at the process (`NotAccepted`). `JobInv`: over one
  send only the process in the tree has commands.

The inductive invariants of Rounds, Delivery, Ledger and Collection hold on their
runs' instances, too (TLC). `ReadingsFound` speaks of all runs of a loop, which TLC
cannot enumerate. `RoundsAssumption` makes explicit what the runs had only in their
constants: a topic has a seat.

Only model-checked: the liveness properties `EverythingSettles`, `ResidueIsReclaimed`
and `EveryCallEnds`, whose proofs need ENABLED. They are shown for the bounds
of their runs only. That Collection, Handoff and Rounds, which write and commit in one
step, may rely on Witness in place of the steps of Ledger is an argument between the
modules, not a theorem.

## 5. Where the code and its own words disagree

Three have a run whose counterexample is the smallest behaviour that shows it.

* `Exclusive`: two waiters judge one residue stale; the second unlink removes the
  file the first has just made (`filelock.py:72-89`), and two are inside. The residue
  is left by a death in the section or by a release whose unlink failed. The run leaves
  out slow sections, of which `filelock.py:46-49` supposes there are none; where one
  lasts 30 s a waiter removes a live holder's file, too. There is no other way: that is
  the theorem.
* `LoserTriesAgain`: `ledger.py:57-59` has the loser of two concurrent commits wait
  and try again, but `_git_locked` does so only if git's message names `index.lock`
  (line 64). A commit that read HEAD before the other moved it is refused with
  "cannot lock ref 'HEAD'"; when that happens on both paths of `commit`, `LedgerError`
  is raised and the file is left dirty, which later commands take for tampering.
  Five concurrent writers of five files of one repository, calling the real
  `ledger.commit`, met it about once in a thousand writes.
* `LeavesNothing`: on POSIX the agent's commands outlive a dispatch whenever the
  agent obeys terminate, or was gone already: `kill_tree` runs only when it does not
  (`relay_codex.py:515-523`, `relay_grok.py:487-494`) and `ProcessTree.close` does
  nothing without a job object; `relay_process.py:24-26`, `relay_codex.py:517-518`
  and `cli.py:72` say the tree is reclaimed. Seen with the real `close` as well.
  In a job object it cannot happen (`LeavesNothingInJob`).

Others were met while modelling; the models do what the code does.

* When two copies are in the same state the overlay takes the local record whole
  (`journal.py:117-118`), so an older snapshot erases the `delivery_route` that
  dispatch saved without a change of state; `journal.py:345` says the overlay is
  what prevents lost updates.
* A merge interrupted after the minutes is completed with the detail
  `recovered-committed-response`, also when the answer came from a `.tmp`
  (`watcher.py:263`); `watcher.py:32-33` promises its token in every such detail.
* A Grok prompt that timed out may have been accepted, and falls back to the
  clipboard (`relay_grok.py:288`); `relay.py:7-8` allows the fallback only for a
  failure known to precede the send. Codex keeps it (`CodexHandsOverOnce`).
* `merge_seats` overlays all entries of the snapshot (`relay.py:79`), so another
  seat's newer tier and fallback reason go back to what they were when this dispatch
  loaded; `relay.py:96-97` names that very loss as the one the read-modify-write is
  for. Only the thread is protected (`ThreadIsKept`).
* Two collectors advance the round and write the line of `minutes.md` in two
  critical sections (`cli.py:272-274`), so the line may go back to an older round and
  stay there until the next collect; `minutes.py:268` says it is kept in step.
* `read_state` looks with git and then reads (`ledger.py:231-232`): an edit between
  the two is read, and one between the write and the commit is committed under the
  dispatcher's name; `minutes.py:212-213` speaks of the very bytes that were checked.
* Codex's app-server sends requests of its own, under ids it counts itself
  (`references/codex-app-server-README.orig.md:1575-1637`). `relay_codex.py:301-311`
  queues them with the answers, and line 343 looks at the id alone: one with the id of
  the rpc is taken for an empty answer, so a resume counts as done that was not, a
  turn's outcome as unknown; and nobody replies to it. `relay_grok.py:233-237` names this
  very collision and sorts such requests out. What the relay makes of them is modelled
  (`CodexAsks`); that the agent waits for a reply is not.
* `socket-collect` looks whether the seat's file exists
  (`handoff.py:396-398`) and then renames its own there (`handoff.py:400`); the seat
  takes no lock, and a file it puts there in between is replaced, although
  `handoff.py:397` and `tests/test_socket_handoff.py:147` say an existing response is not
  overwritten. It can happen in that window only (`ScratchIsKept`).
* `dispatch --async` leaves the agent running (`cli.py:237`), but on Windows the job
  object is closed with Python and the agent killed (`cli.py:78`).

## 6. What is not modelled

`create`, `set_background`, `write_verdict` and `close`, each a single
read-modify-write under one lock; finding and creating the git root; the search
for binaries and the check of their versions; which option a permission request is
answered with, and the permission log; the text of packets and messages; the
implementation manifest of a handoff, request capture and the lifetime of request
receipts. The review gate (`review_workflow.py`) is a function from a manifest and
git's answers to a verdict, without a state or a second actor, and is left to its
tests. `doctor`, `status` and the exports only read. Hashes are taken
to identify what they are computed from. `_merge_lists` appears in `Journal` as the
union by id it computes; records from before the ids are left out.

A hook's rejection that reaches the transcript after the answer was seen twice comes
too late for the code, and `CollectsTheReply` speaks only of what had been read. Two
dispatches of a seat that has no thread may both open one; nothing in the code or its
documents excludes it, and no property does. A thread that `thread/start` opened is
dropped when what follows fails and the fallback does, too (`cli.py:181-194`):
`SeatIsRemembered` is about accepted turns of dispatches not recorded as failed. A death
between merged and the advance of a round leaves the round to the next collect, and so
do a `cancel` that finds the answer committed (`watcher.py:209-213`) and a
`socket-collect` (`cli.py:411-423`), which merge and never advance: `NoAdvanceIsLost`
excludes these by `lost`. A child that an agent, or the wrapper script that starts it,
spawns between `Popen` and `adopt` (`relay_codex.py:268-282`) is outside the job object;
here the spawn and the adoption are one step. The `detail` of a record that its
recovery overwrites is no property's subject.

A handoff in the window before `dispatch` has saved `delivery_route`
(`cli.py:106-110`) is not a hazard: it would have to capture the request itself, and
dispatch's own capture then raises before anything is sent (`handoff.py:79-85`).

## 7. Plan

1. Core (done): JournalMerge, Journal, Adoption, Collection, FileLock, Delivery,
   OneShot, Handoff, Followup with their runs; proofs of Journal, FileLock, Handoff.
2. Extend (done): Rounds, Ledger with Witness, SeatProcess and its proofs.
3. Prove (done): every invariant, action property and refinement that a passing run
   checks, module by module as in section 4.
4. Next: what `AnyNext` is for Rounds could be done for Collection, so that its
   journal, too, is that of Journal by refinement and not by reading the same source.

## 8. Running

    tlc -workers 2 -config Handoff.cfg MCFollowup.tla
    tlapm Handoff_proofs.tla

Each run's module and configuration, the mutant that each property detects, and
the source lines behind each definition are in `PROJECT.json`.
