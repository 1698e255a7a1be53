------------------------------- MODULE Ledger -------------------------------
(***************************************************************************)
(* ledger.py and atomicio.py: the state files of a topic (journal.json,    *)
(* minutes.md, seats.json, the receipts) under git.  A process takes the   *)
(* FileLock of one file, asks git whether the file is clean, reads it,     *)
(* writes it and commits it with git commands of its own.                  *)
(*                                                                         *)
(* Every file has its own FileLock, but all share one index, one HEAD and  *)
(* git's index.lock, so commits of different files meet inside git.  A git *)
(* command reads HEAD before it takes index.lock, and is refused when HEAD *)
(* has moved in between; it outlives a process that dies; and when it is   *)
(* killed itself index.lock stays.                                         *)
(*                                                                         *)
(* The FileLocks are taken to exclude, and to be freed when their holder   *)
(* dies: module FileLock shows under which conditions.                     *)
(***************************************************************************)
EXTENDS Integers

CONSTANTS Proc,       \* roundtable processes
          File,       \* state files of one repository
          Text,       \* what processes write
          Alien,      \* what somebody else writes
          None,       \* no such file
          Nobody,     \* the holder of a free lock
          Left,       \* the "holder" of an index.lock whose git was killed
          MaxTries,   \* how often _git_locked tries (20)
          MaxFault    \* bound on deaths, kills and foreign edits

Content == Text \cup {Alien, None}

ASSUME LedgerAssumption ==
  /\ Alien \notin Text /\ None \notin Text /\ Alien # None
  /\ Nobody \notin Proc /\ Left \notin Proc /\ Nobody # Left
  /\ MaxTries \in Nat \ {0}
  /\ MaxFault \in Nat

VARIABLES
  work,    \* work[f]: the file on disk
  index,   \* index[f]: the file in git's index
  head,    \* head[f]: the file at HEAD
  lock,    \* lock[f]: the holder of the FileLock of f
  ilock,   \* the process whose git holds index.lock
  pc,      \* pc[p]: where p is in read_state, write_state or commit
  job,     \* job[p]: the file p works on, what it read, the tries of its git call
  git,     \* git[p]: the git command p has started, which outlives p
  edited,  \* the processes whose file somebody else changed since they looked (history)
  faults

vars == <<work, index, head, lock, ilock, pc, job, git, edited, faults>>

files == <<work, index, head>>

\* git status --porcelain -- f prints something.
Dirty(f) == ~(work[f] = index[f] /\ index[f] = head[f])

FileOf(p) == job[p].file

\* p is between the replacement of its file and its return.
Writing  == {"commit1", "add", "staged", "commit2", "check"}
Committing == {"commit1", "commit2"}

NoJob == [file |-> None, data |-> None, tries |-> 0]

-----------------------------------------------------------------------------
Init ==
  /\ work \in [File -> Text \cup {None}] /\ index = work /\ head = work
  /\ lock = [f \in File |-> Nobody] /\ ilock = Nobody
  /\ pc = [p \in Proc |-> "idle"]
  /\ job = [p \in Proc |-> NoJob]
  /\ git = [p \in Proc |-> "none"]
  /\ edited = {} /\ faults = 0

Goto(p, l) ==
  /\ pc' = [pc EXCEPT ![p] = l]
  /\ job' = [job EXCEPT ![p].tries = 0]

(* The with block of the FileLock is left, by a return or an exception. *)
Leaves(p) ==
  /\ pc' = [pc EXCEPT ![p] = "idle"]
  /\ job' = [job EXCEPT ![p] = NoJob]
  /\ lock' = [f \in File |-> IF lock[f] = p THEN Nobody ELSE lock[f]]
  /\ edited' = edited \ {p}

Begins(p, f) ==
  /\ pc[p] = "idle" /\ lock[f] = Nobody /\ git[p] = "none"
  /\ lock' = [lock EXCEPT ![f] = p]
  /\ pc' = [pc EXCEPT ![p] = "locked"]
  /\ job' = [job EXCEPT ![p].file = f]
  /\ UNCHANGED <<files, ilock, git, edited, faults>>

(* Mutant: git diff, which does not see what is staged. *)
LooksAtDisk(p) ==
  /\ pc[p] = "locked" /\ work[FileOf(p)] = index[FileOf(p)]
  /\ Goto(p, "looked")
  /\ UNCHANGED <<files, lock, ilock, git, edited, faults>>

(* require_clean: git status has nothing to say ... *)
Looks(p) ==
  /\ pc[p] = "locked" /\ ~Dirty(FileOf(p))
  /\ Goto(p, "looked")
  /\ UNCHANGED <<files, lock, ilock, git, edited, faults>>

(* ... or LedgerDirtyError. *)
FindsDirty(p) ==
  /\ pc[p] = "locked" /\ Dirty(FileOf(p))
  /\ Leaves(p)
  /\ UNCHANGED <<files, ilock, git, faults>>

(* read_state: path.read_bytes(), after git status has ended. *)
Reads(p) ==
  /\ pc[p] = "looked"
  /\ pc' = [pc EXCEPT ![p] = "read"]
  /\ job' = [job EXCEPT ![p].data = work[FileOf(p)]]
  /\ UNCHANGED <<files, lock, ilock, git, edited, faults>>

(* A reader is done; or atomic_write gave up on os.replace and raised. *)
LeavesUnwritten(p) ==
  /\ pc[p] = "read"
  /\ Leaves(p)
  /\ UNCHANGED <<files, ilock, git, faults>>

(* write_state: atomic_write; the commit comes next. *)
Writes(p, t) ==
  /\ pc[p] = "read"
  /\ work' = [work EXCEPT ![FileOf(p)] = t]
  /\ pc' = [pc EXCEPT ![p] = "commit1"]
  /\ job' = [job EXCEPT ![p].data = t]
  /\ UNCHANGED <<index, head, lock, ilock, git, edited, faults>>

-----------------------------------------------------------------------------
(* A git command of p ends, well or not; p, if it still lives, goes on in commit(). *)
GitEnds(p, well) ==
  /\ git' = [git EXCEPT ![p] = "none"]
  /\ CASE pc[p] = "commit1" -> Goto(p, IF well THEN "returned" ELSE "add")
       [] pc[p] = "add"     -> Goto(p, IF well THEN "staged" ELSE "raised")
       [] pc[p] = "commit2" -> Goto(p, IF well THEN "returned" ELSE "check")
       [] pc[p] = "dead"    -> pc' = [pc EXCEPT ![p] = "idle"]
                               /\ job' = [job EXCEPT ![p] = NoJob]

(* git commit -- f starts and reads HEAD. *)
CommitStarts(p) ==
  /\ pc[p] \in Committing /\ git[p] = "none"
  /\ git' = [git EXCEPT ![p] = "base"]
  /\ UNCHANGED <<files, lock, ilock, pc, job, edited, faults>>

AddStarts(p) ==
  /\ pc[p] = "add" /\ git[p] = "none"
  /\ git' = [git EXCEPT ![p] = "toadd"]
  /\ UNCHANGED <<files, lock, ilock, pc, job, edited, faults>>

(* Mutant: _git_locked goes on trying for as long as index.lock is there. *)
GitBusyForEver(p) ==
  /\ git[p] \in {"base", "stale", "toadd"} /\ ilock # Nobody
  /\ IF pc[p] = "dead" THEN GitEnds(p, FALSE)
     ELSE /\ git' = [git EXCEPT ![p] = "none"]
          /\ UNCHANGED <<pc, job>>
  /\ UNCHANGED <<files, lock, ilock, edited, faults>>

(* Mutant: one try too many. *)
GitBusyOnceMore(p) ==
  /\ git[p] \in {"base", "stale", "toadd"} /\ ilock # Nobody
  /\ IF pc[p] = "dead" \/ job[p].tries = MaxTries THEN GitEnds(p, FALSE)
     ELSE /\ git' = [git EXCEPT ![p] = "none"]
          /\ job' = [job EXCEPT ![p].tries = @ + 1]
          /\ UNCHANGED pc
  /\ UNCHANGED <<files, lock, ilock, edited, faults>>

(* index.lock exists: git gives up; _git_locked waits and tries again, so often. *)
GitBusy(p) ==
  /\ git[p] \in {"base", "stale", "toadd"} /\ ilock # Nobody
  /\ IF pc[p] = "dead" \/ job[p].tries + 1 = MaxTries THEN GitEnds(p, FALSE)
     ELSE /\ git' = [git EXCEPT ![p] = "none"]
          /\ job' = [job EXCEPT ![p].tries = @ + 1]
          /\ UNCHANGED pc
  /\ UNCHANGED <<files, lock, ilock, edited, faults>>

(* git commit is refused: f is not in the index, or nothing has changed, or HEAD moved. *)
CommitRefused(p) ==
  /\ git[p] \in {"base", "stale"} /\ ilock = Nobody
  /\ \/ git[p] = "stale"
     \/ index[FileOf(p)] = None
     \/ work[FileOf(p)] = head[FileOf(p)]
  /\ GitEnds(p, FALSE)
  /\ UNCHANGED <<files, lock, ilock, edited, faults>>

CommitLocks(p) ==
  /\ git[p] = "base" /\ ilock = Nobody
  /\ index[FileOf(p)] # None /\ work[FileOf(p)] # head[FileOf(p)]
  /\ ilock' = p
  /\ git' = [git EXCEPT ![p] = "locked"]
  /\ UNCHANGED <<files, lock, pc, job, edited, faults>>

(* HEAD moves: the git commands that have read it are refused later. *)
Overtakes(p) ==
  git' = [q \in Proc |-> IF q = p THEN "committed"
                         ELSE IF git[q] = "base" THEN "stale" ELSE git[q]]

(* Mutant: no pathspec, so the commit takes what others have staged. *)
CommitsIndex(p) ==
  /\ git[p] = "locked"
  /\ head' = [index EXCEPT ![FileOf(p)] = work[FileOf(p)]]
  /\ Overtakes(p)
  /\ UNCHANGED <<work, index, lock, ilock, pc, job, edited, faults>>

(* git commit -- f: HEAD with f as it is on disk. *)
Commits(p) ==
  /\ git[p] = "locked"
  /\ head' = [head EXCEPT ![FileOf(p)] = work[FileOf(p)]]
  /\ Overtakes(p)
  /\ UNCHANGED <<work, index, lock, ilock, pc, job, edited, faults>>

CommitUnlocks(p) ==
  /\ git[p] = "committed"
  /\ index' = [index EXCEPT ![FileOf(p)] = head[FileOf(p)]]
  /\ ilock' = Nobody
  /\ GitEnds(p, TRUE)
  /\ UNCHANGED <<work, head, lock, edited, faults>>

AddLocks(p) ==
  /\ git[p] = "toadd" /\ ilock = Nobody
  /\ ilock' = p
  /\ git' = [git EXCEPT ![p] = "adding"]
  /\ UNCHANGED <<files, lock, pc, job, edited, faults>>

AddUnlocks(p) ==
  /\ git[p] = "adding"
  /\ index' = [index EXCEPT ![FileOf(p)] = work[FileOf(p)]]
  /\ ilock' = Nobody
  /\ GitEnds(p, TRUE)
  /\ UNCHANGED <<work, head, lock, edited, faults>>

(* Mutant: git diff --quiet, which compares the disk with the index. *)
ChecksUnstaged(p) ==
  /\ pc[p] = "staged"
  /\ Goto(p, IF index[FileOf(p)] = work[FileOf(p)] THEN "returned" ELSE "commit2")
  /\ UNCHANGED <<files, lock, ilock, git, edited, faults>>

(* git diff --cached --quiet: nothing to commit after all, or commit again. *)
ChecksStaged(p) ==
  /\ pc[p] = "staged"
  /\ Goto(p, IF index[FileOf(p)] = head[FileOf(p)] THEN "returned" ELSE "commit2")
  /\ UNCHANGED <<files, lock, ilock, git, edited, faults>>

(* git status after a commit that failed: in the history all the same, or LedgerError. *)
ChecksStatus(p) ==
  /\ pc[p] = "check"
  /\ Goto(p, IF Dirty(FileOf(p)) THEN "raised" ELSE "returned")
  /\ UNCHANGED <<files, lock, ilock, git, edited, faults>>

Returns(p) ==
  /\ pc[p] \in {"returned", "raised"}
  /\ Leaves(p)
  /\ UNCHANGED <<files, ilock, git, faults>>

-----------------------------------------------------------------------------
Fault == faults < MaxFault /\ faults' = faults + 1

(* p dies: its FileLock is reclaimed, its git goes on. *)
Dies(p) ==
  /\ pc[p] \notin {"idle", "dead"}
  /\ Fault
  /\ IF git[p] = "none" THEN Leaves(p)
     ELSE /\ pc' = [pc EXCEPT ![p] = "dead"]
          /\ lock' = [f \in File |-> IF lock[f] = p THEN Nobody ELSE lock[f]]
          /\ edited' = edited \ {p}
          /\ UNCHANGED job
  /\ UNCHANGED <<files, ilock, git>>

(* The git of p is killed; an index.lock it holds stays. *)
GitKilled(p) ==
  /\ git[p] # "none"
  /\ Fault
  /\ ilock' = IF ilock = p THEN Left ELSE ilock
  /\ GitEnds(p, FALSE)
  /\ UNCHANGED <<files, lock, edited>>

(* Somebody who is not a roundtable process edits f. *)
ForeignEdit(f) ==
  /\ Fault
  /\ work' = [work EXCEPT ![f] = Alien]
  /\ edited' = edited \cup {p \in Proc : lock[f] = p /\ pc[p] # "locked"}
  /\ UNCHANGED <<index, head, lock, ilock, pc, job, git>>

(* The human, when nobody is at the file: git commit -- f or git checkout HEAD -- f. *)
HumanAccepts(f) ==
  /\ Dirty(f) /\ lock[f] = Nobody /\ ilock = Nobody
  /\ head' = [head EXCEPT ![f] = work[f]]
  /\ index' = [index EXCEPT ![f] = work[f]]
  /\ git' = [q \in Proc |-> IF git[q] = "base" THEN "stale" ELSE git[q]]
  /\ UNCHANGED <<work, lock, ilock, pc, job, edited, faults>>

HumanRestores(f) ==
  /\ Dirty(f) /\ lock[f] = Nobody /\ ilock = Nobody
  /\ work' = [work EXCEPT ![f] = head[f]]
  /\ index' = [index EXCEPT ![f] = head[f]]
  /\ UNCHANGED <<head, lock, ilock, pc, job, git, edited, faults>>

HumanUnlocks ==
  /\ ilock = Left
  /\ ilock' = Nobody
  /\ UNCHANGED <<files, lock, pc, job, git, edited, faults>>

GitStep(p) ==
  \/ CommitStarts(p) \/ AddStarts(p) \/ GitBusy(p)
  \/ CommitRefused(p) \/ CommitLocks(p) \/ Commits(p) \/ CommitUnlocks(p)
  \/ AddLocks(p) \/ AddUnlocks(p)

CallStep(p) ==
  \/ Looks(p) \/ FindsDirty(p) \/ Reads(p) \/ LeavesUnwritten(p)
  \/ \E t \in Text : Writes(p, t)
  \/ ChecksStaged(p) \/ ChecksStatus(p) \/ Returns(p)

Next ==
  \/ \E p \in Proc : \/ \E f \in File : Begins(p, f)
                     \/ GitStep(p) \/ CallStep(p)
                     \/ Dies(p) \/ GitKilled(p)
  \/ \E f \in File : ForeignEdit(f) \/ HumanAccepts(f) \/ HumanRestores(f)
  \/ HumanUnlocks

Spec == Init /\ [][Next]_vars

(* A call goes on, and so does the git it has started. *)
FairSpec == Spec /\ \A p \in Proc : WF_vars(GitStep(p)) /\ WF_vars(CallStep(p))

-----------------------------------------------------------------------------
TypeOK ==
  /\ work \in [File -> Content] /\ index \in [File -> Content] /\ head \in [File -> Content]
  /\ lock \in [File -> Proc \cup {Nobody}]
  /\ ilock \in Proc \cup {Nobody, Left}
  /\ pc \in [Proc -> {"idle", "locked", "looked", "read", "returned", "raised", "dead"}
                       \cup Writing]
  /\ job \in [Proc -> [file : File \cup {None}, data : Content, tries : 0..(MaxTries - 1)]]
  /\ git \in [Proc -> {"none", "base", "stale", "locked", "committed", "toadd", "adding"}]
  /\ edited \subseteq Proc
  /\ faults \in 0..MaxFault

(***************************************************************************)
(* write_state returns only when the text is at HEAD, by whichever of the  *)
(* two paths of commit and however the commits of other files, the git of  *)
(* a dead predecessor and lost races went.                                 *)
(***************************************************************************)
ReturnedIsCommitted ==
  \A p \in Proc : pc[p] = "returned" /\ p \notin edited =>
    head[FileOf(p)] = job[p].data /\ ~Dirty(FileOf(p))

(***************************************************************************)
(* What read_state hands out, and what a writer builds on, was at HEAD,    *)
(* unless the file was edited in the moment after git status: the git of a *)
(* dead predecessor cannot change it under the reader.                     *)
(***************************************************************************)
BuildsOnCommitted ==
  \A p \in Proc : pc[p] \in {"looked", "read"} /\ p \notin edited =>
    /\ work[FileOf(p)] = head[FileOf(p)]
    /\ pc[p] = "read" => job[p].data = head[FileOf(p)]

(***************************************************************************)
(* A file that a live process is replacing counts as it was at HEAD, until *)
(* it is committed or given up; so seen, every file is clean or stays      *)
(* dirty until it is repaired: Witness.                                    *)
(***************************************************************************)
BeingWritten(f) == \E p \in Proc : lock[f] = p /\ pc[p] \in Writing \cup {"returned", "raised"}

Promise == INSTANCE Witness WITH
  work <- [f \in File |-> IF BeingWritten(f) THEN head[f] ELSE work[f]]

ImplementsWitness == Promise!Spec

(***************************************************************************)
(* Every read_state and write_state ends, even with an index.lock that     *)
(* nobody removes (_git_locked tries a bounded number of times).           *)
(***************************************************************************)
EveryCallEnds == \A p \in Proc : pc[p] # "idle" ~> pc[p] = "idle"

(***************************************************************************)
(* ledger.py:57: losing to another commit is not a failure, the loser      *)
(* waits and tries again.  It does not hold: see the README.               *)
(***************************************************************************)
LoserTriesAgain == \A p \in Proc : pc[p] = "raised" => faults > 0
=============================================================================
