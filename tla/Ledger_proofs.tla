---------------------------- MODULE Ledger_proofs ----------------------------
(***************************************************************************)
(* What ledger.py tells its callers is true for any number of processes,   *)
(* files, texts, tries and faults, and keeps the promise of Witness.       *)
(***************************************************************************)
EXTENDS Ledger, TLAPS

Live(p) == pc[p] \notin {"idle", "dead"}

(* Who holds which FileLock; a dead process has its file still in git's hands. *)
Locks ==
  /\ \A f \in File : lock[f] # Nobody => Live(lock[f]) /\ FileOf(lock[f]) = f
  /\ \A p \in Proc : Live(p) => FileOf(p) \in File /\ lock[FileOf(p)] = p
  /\ \A p \in Proc : pc[p] = "dead" => FileOf(p) \in File

(* Where a process has which git running, and who has index.lock. *)
GitOf(p) ==
  /\ pc[p] \notin {"commit1", "add", "commit2", "dead"} => git[p] = "none"
  /\ pc[p] = "dead" => git[p] # "none"
  /\ pc[p] \in Committing => git[p] \notin {"toadd", "adding"}
  /\ pc[p] = "add" => git[p] \in {"none", "toadd", "adding"}
  /\ git[p] \in {"locked", "committed", "adding"} <=> ilock = p

(* What a live process knows of its file, as long as nobody else edits it.  *)
(* The git of a dead predecessor may still commit the file; but while one   *)
(* has index.lock the process cannot have got past git add.                 *)
Told(p) ==
  Live(p) /\ p \notin edited =>
    /\ pc[p] \in {"looked", "read"} => work[FileOf(p)] = head[FileOf(p)]
    /\ pc[p] = "read" => job[p].data = head[FileOf(p)]
    /\ pc[p] \in Writing \cup {"returned", "raised"} => job[p].data = work[FileOf(p)]
    /\ git[p] = "committed" => head[FileOf(p)] = work[FileOf(p)]
    /\ pc[p] = "staged" =>
         /\ index[FileOf(p)] = work[FileOf(p)]
         /\ \A q \in Proc : git[q] = "committed" /\ FileOf(q) = FileOf(p) =>
              head[FileOf(p)] = work[FileOf(p)]
    /\ pc[p] = "returned" => /\ head[FileOf(p)] = work[FileOf(p)]
                             /\ index[FileOf(p)] = work[FileOf(p)]

LInv ==
  /\ TypeOK
  /\ Locks
  /\ \A p \in Proc : GitOf(p) /\ Told(p)

-----------------------------------------------------------------------------
Pcs == {"idle", "locked", "looked", "read", "returned", "raised", "dead"} \cup Writing

Gits == {"none", "base", "stale", "locked", "committed", "toadd", "adding"}

Job == [file : File \cup {None}, data : Content, tries : 0..(MaxTries - 1)]

LEMMA Types ==
  ASSUME TypeOK
  PROVE  /\ work \in [File -> Content] /\ index \in [File -> Content] /\ head \in [File -> Content]
         /\ lock \in [File -> Proc \cup {Nobody}]
         /\ pc \in [Proc -> Pcs] /\ git \in [Proc -> Gits] /\ job \in [Proc -> Job]
         /\ \A p \in Proc : /\ job[p].file \in File \cup {None} /\ job[p].data \in Content
                            /\ job[p].tries \in 0..(MaxTries - 1)
BY DEF TypeOK, Pcs, Gits, Job

LEMMA JobTypes ==
  /\ NoJob \in Job
  /\ \A j \in Job : /\ [j EXCEPT !.tries = 0] \in Job
                    /\ \A f \in File : [j EXCEPT !.file = f] \in Job
                    /\ \A c \in Content : [j EXCEPT !.data = c] \in Job
                    /\ j.tries + 1 # MaxTries => [j EXCEPT !.tries = @ + 1] \in Job
<1>1. 0 \in 0..(MaxTries - 1)
  BY LedgerAssumption
<1>2. \A n \in 0..(MaxTries - 1) : n + 1 # MaxTries => n + 1 \in 0..(MaxTries - 1)
  BY LedgerAssumption
<1>3. NoJob \in Job
  BY <1>1 DEF NoJob, Job, Content
<1>4. \A j \in Job : j.tries + 1 # MaxTries => [j EXCEPT !.tries = @ + 1] \in Job
  BY <1>2 DEF Job
<1>5. QED
  BY <1>1, <1>3, <1>4 DEF Job

(* What a step of p does to its place and its job. *)
Moved(p, l, j) ==
  /\ pc' \in [Proc -> Pcs] /\ job' \in [Proc -> Job]
  /\ pc'[p] = l /\ job'[p].file = j.file /\ job'[p].data = j.data
  /\ \A q \in Proc : q # p => pc'[q] = pc[q] /\ job'[q] = job[q]

LEMMA GotoMoves ==
  ASSUME TypeOK, NEW p \in Proc, NEW l \in Pcs, Goto(p, l)
  PROVE  Moved(p, l, job[p])
<1>1. pc \in [Proc -> Pcs] /\ job \in [Proc -> Job]
  BY Types
<1>2. [job[p] EXCEPT !.tries = 0] \in Job
  BY <1>1, JobTypes
<1>3. job' = [job EXCEPT ![p] = [job[p] EXCEPT !.tries = 0]]
  BY DEF Goto
<1>4. pc' = [pc EXCEPT ![p] = l]
  BY DEF Goto
<1>5. job' \in [Proc -> Job] /\ job'[p] = [job[p] EXCEPT !.tries = 0]
      /\ \A q \in Proc : q # p => job'[q] = job[q]
  BY <1>1, <1>2, <1>3
<1>6. job[p] \in Job
  BY <1>1
<1>7. job'[p].file = job[p].file /\ job'[p].data = job[p].data
  BY <1>5, <1>6 DEF Job
<1>8. QED
  BY <1>1, <1>4, <1>5, <1>7 DEF Moved

LEMMA LeavesMoves ==
  ASSUME TypeOK, NEW p \in Proc, Leaves(p)
  PROVE  /\ Moved(p, "idle", NoJob)
         /\ lock' \in [File -> Proc \cup {Nobody}]
         /\ \A f \in File : lock'[f] = IF lock[f] = p THEN Nobody ELSE lock[f]
         /\ edited' = edited \ {p}
<1>1. pc \in [Proc -> Pcs] /\ job \in [Proc -> Job] /\ lock \in [File -> Proc \cup {Nobody}]
  BY Types
<1>2. NoJob \in Job /\ "idle" \in Pcs
  BY JobTypes DEF Pcs
<1>3. QED
  BY <1>1, <1>2 DEF Leaves, Moved

InGit == {"commit1", "add", "commit2", "dead"}

(* Where a process is when its git has ended. *)
After(p, well) ==
  CASE pc[p] = "commit1" -> IF well THEN "returned" ELSE "add"
    [] pc[p] = "add"     -> IF well THEN "staged" ELSE "raised"
    [] pc[p] = "commit2" -> IF well THEN "returned" ELSE "check"
    [] pc[p] = "dead"    -> "idle"

LEMMA GitEndsMoves ==
  ASSUME TypeOK, NEW p \in Proc, pc[p] \in InGit, NEW well \in BOOLEAN, GitEnds(p, well)
  PROVE  /\ git' = [git EXCEPT ![p] = "none"]
         /\ Moved(p, After(p, well), IF pc[p] = "dead" THEN NoJob ELSE job[p])
<1>1. git' = [git EXCEPT ![p] = "none"]
  BY DEF GitEnds
<1>2. CASE pc[p] = "dead"
  <2>1. pc' = [pc EXCEPT ![p] = "idle"] /\ job' = [job EXCEPT ![p] = NoJob]
    BY <1>2 DEF GitEnds
  <2>2. Moved(p, "idle", NoJob)
    BY <2>1, Types, JobTypes DEF Moved, Pcs
  <2>3. After(p, well) = "idle"
    BY <1>2 DEF After
  <2>4. QED
    BY <1>1, <1>2, <2>2, <2>3
<1>3. CASE pc[p] # "dead"
  <2>1. Goto(p, After(p, well))
    BY <1>3 DEF GitEnds, After, InGit
  <2>2. After(p, well) \in Pcs
    BY <1>3 DEF After, InGit, Pcs, Writing
  <2>3. QED
    BY <1>1, <1>3, <2>1, <2>2, GotoMoves
<1>4. QED
  BY <1>2, <1>3

-----------------------------------------------------------------------------
(* The other processes, when p moves: only what their git knows can change. *)
Apart(p) ==
  \A q \in Proc : q # p =>
    /\ pc'[q] = pc[q] /\ job'[q] = job[q]
    /\ git'[q] = git[q] \/ (git[q] = "base" /\ git'[q] = "stale")
    /\ ilock' = q <=> ilock = q
    /\ q \in edited' <=> q \in edited

LEMMA OthersGit ==
  ASSUME LInv, NEW p, Apart(p), NEW q \in Proc, q # p
  PROVE  GitOf(q)'
BY DEF LInv, Apart, GitOf, Committing

(* Who committed before commits the same file. *)
NoNewCommit ==
  \A q \in Proc : git'[q] = "committed" => git[q] = "committed" /\ job'[q].file = job[q].file

LEMMA OthersTold ==
  ASSUME LInv, NEW p \in Proc, Apart(p), UNCHANGED files, NoNewCommit,
         NEW q \in Proc, q # p
  PROVE  Told(q)'
BY DEF LInv, Apart, Told, Live, FileOf, files, NoNewCommit

LEMMA LocksStay ==
  ASSUME LInv, NEW p \in Proc, Apart(p), UNCHANGED lock,
         \/ Live(p) /\ Live(p)' /\ FileOf(p)' = FileOf(p)
         \/ ~Live(p) /\ ~Live(p)' /\ pc'[p] # "dead"
  PROVE  Locks'
<1>1. \A q \in Proc : q # p => (Live(q)' <=> Live(q)) /\ FileOf(q)' = FileOf(q)
  BY DEF Apart, Live, FileOf
<1>2. \A f \in File : lock[f] # Nobody => lock[f] \in Proc
  BY Types DEF LInv
<1>3. \A f \in File : lock[f] # Nobody => Live(lock[f])' /\ FileOf(lock[f])' = f
  BY <1>1, <1>2 DEF LInv, Locks
<1>4. \A q \in Proc : Live(q)' => FileOf(q)' \in File /\ lock'[FileOf(q)'] = q
  BY <1>1 DEF LInv, Locks
<1>5. \A q \in Proc : pc'[q] = "dead" => FileOf(q)' \in File
  BY <1>1 DEF LInv, Locks, Apart, Live
<1>6. QED
  BY <1>3, <1>4, <1>5 DEF Locks, FileOf, Live

LEMMA LocksLeft ==
  ASSUME LInv, NEW p \in Proc, Apart(p), ~Live(p)',
         pc'[p] = "dead" => FileOf(p)' \in File,
         \A f \in File : lock'[f] = IF lock[f] = p THEN Nobody ELSE lock[f]
  PROVE  Locks'
<1>1. \A q \in Proc : q # p => (Live(q)' <=> Live(q)) /\ FileOf(q)' = FileOf(q)
  BY DEF Apart, Live, FileOf
<1>2. \A f \in File : lock[f] # Nobody => lock[f] \in Proc
  BY Types DEF LInv
<1>3. \A f \in File : lock'[f] # Nobody => lock'[f] = lock[f] /\ lock[f] # p /\ lock[f] # Nobody
  OBVIOUS
<1>4. \A f \in File : lock'[f] # Nobody => Live(lock[f])' /\ FileOf(lock[f])' = f
  BY <1>1, <1>2, <1>3 DEF LInv, Locks
<1>5. \A q \in Proc : Live(q)' => FileOf(q)' \in File /\ lock'[FileOf(q)'] = q
  BY <1>1 DEF LInv, Locks
<1>6. \A q \in Proc : pc'[q] = "dead" => FileOf(q)' \in File
  BY <1>1 DEF LInv, Locks, Apart
<1>7. QED
  BY <1>3, <1>4, <1>5, <1>6 DEF Locks, FileOf, Live

(***************************************************************************)
(* Steps that change no file                                               *)
(***************************************************************************)
LEMMA CallGoes ==
  ASSUME LInv, NEW p \in Proc, Live(p), NEW l \in Pcs, Live(p)', Moved(p, l, job[p]),
         git[p] = "none", l # "read" /\ l # "staged",
         UNCHANGED <<files, lock, ilock, git, edited, faults>>,
         l = "looked" => ~Dirty(FileOf(p)),
         l \in Writing \cup {"returned", "raised"} => pc[p] \in Writing \cup {"returned", "raised"},
         l = "returned" /\ p \notin edited =>
           head[FileOf(p)] = work[FileOf(p)] /\ index[FileOf(p)] = work[FileOf(p)]
  PROVE  LInv'
<1>1. Apart(p) /\ NoNewCommit
  BY DEF Moved, Apart, NoNewCommit
<1>2. TypeOK'
  BY DEF LInv, TypeOK, Moved, files, Pcs, Job
<1>3. FileOf(p)' = FileOf(p)
  BY DEF Moved, FileOf
<1>4. Locks'
  BY <1>1, <1>3, LocksStay
<1>5. GitOf(p)'
  BY DEF LInv, GitOf, Moved, Live, Committing
<1>6. Told(p)'
  BY <1>3 DEF LInv, Told, Moved, Live, Dirty, files
<1>7. QED
  BY <1>1, <1>2, <1>4, <1>5, <1>6, OthersGit, OthersTold DEF LInv

LEMMA CallLeaves ==
  ASSUME LInv, NEW p \in Proc, git[p] = "none", Leaves(p),
         UNCHANGED <<files, ilock, git>>, faults' \in 0..MaxFault
  PROVE  LInv'
<1>1. /\ Moved(p, "idle", NoJob)
      /\ lock' \in [File -> Proc \cup {Nobody}]
      /\ \A f \in File : lock'[f] = IF lock[f] = p THEN Nobody ELSE lock[f]
      /\ edited' = edited \ {p}
  BY LeavesMoves DEF LInv
<1>2. Apart(p) /\ NoNewCommit
  BY <1>1 DEF Moved, Apart, NoNewCommit
<1>3. TypeOK'
  BY <1>1 DEF LInv, TypeOK, Moved, files, Pcs, Job
<1>4. Locks'
  BY <1>1, <1>2, LocksLeft DEF Moved, Live
<1>5. GitOf(p)' /\ Told(p)'
  BY <1>1 DEF LInv, GitOf, Told, Moved, Live, Committing
<1>6. QED
  BY <1>2, <1>3, <1>4, <1>5, OthersGit, OthersTold DEF LInv

LEMMA BeginsStep ==
  ASSUME LInv, NEW p \in Proc, NEW f \in File, Begins(p, f)
  PROVE  LInv'
<1>1. /\ pc[p] = "idle" /\ lock[f] = Nobody /\ git[p] = "none"
      /\ lock' = [lock EXCEPT ![f] = p]
      /\ UNCHANGED <<files, ilock, git, edited, faults>>
  BY DEF Begins
<1>2. Moved(p, "locked", [job[p] EXCEPT !.file = f]) /\ job'[p].file = f
  <2>1. pc' = [pc EXCEPT ![p] = "locked"] /\ job' = [job EXCEPT ![p] = [job[p] EXCEPT !.file = f]]
    BY DEF Begins
  <2>2. pc \in [Proc -> Pcs] /\ job \in [Proc -> Job] /\ "locked" \in Pcs
    BY Types DEF LInv, Pcs
  <2>3. [job[p] EXCEPT !.file = f] \in Job /\ [job[p] EXCEPT !.file = f].file = f
    BY <2>2, JobTypes DEF Job
  <2>4. QED
    BY <2>1, <2>2, <2>3 DEF Moved
<1>3. Apart(p) /\ NoNewCommit
  BY <1>1, <1>2 DEF Moved, Apart, NoNewCommit
<1>4. TypeOK'
  BY <1>1, <1>2 DEF LInv, TypeOK, Moved, files, Pcs, Job
<1>5. Locks'
  <2>1. \A q \in Proc : q # p => (Live(q)' <=> Live(q)) /\ FileOf(q)' = FileOf(q)
    BY <1>3 DEF Apart, Live, FileOf
  <2>2. Live(p)' /\ ~Live(p) /\ FileOf(p)' = f /\ pc'[p] # "dead"
    BY <1>1, <1>2 DEF Moved, Live, FileOf
  <2>3. lock \in [File -> Proc \cup {Nobody}]
    BY Types DEF LInv
  <2>4. \A g \in File : lock'[g] # Nobody =>
          \E q \in Proc : lock'[g] = q /\ Live(q)' /\ FileOf(q)' = g
    <3>1. SUFFICES ASSUME NEW g \in File, lock'[g] # Nobody
                   PROVE  \E q \in Proc : lock'[g] = q /\ Live(q)' /\ FileOf(q)' = g
      OBVIOUS
    <3>2. CASE g = f
      BY <1>1, <2>2, <2>3, <3>2
    <3>3. CASE g # f
      <4>1. lock'[g] = lock[g] /\ lock[g] \in Proc
        BY <1>1, <2>3, <3>1, <3>3
      <4>2. Live(lock[g]) /\ FileOf(lock[g]) = g
        BY <3>1, <4>1 DEF LInv, Locks
      <4>3. Live(lock[g])' /\ FileOf(lock[g])' = g
        BY <2>1, <2>2, <4>1, <4>2
      <4>4. QED
        BY <4>1, <4>3
    <3>4. QED
      BY <3>2, <3>3
  <2>5. \A q \in Proc : Live(q)' => FileOf(q)' \in File /\ lock'[FileOf(q)'] = q
    BY <1>1, <2>1, <2>2, <2>3, LedgerAssumption DEF LInv, Locks
  <2>6. \A q \in Proc : pc'[q] = "dead" => FileOf(q)' \in File
    BY <2>1, <2>2, <1>3 DEF LInv, Locks, Apart
  <2>7. QED
    BY <2>4, <2>5, <2>6 DEF Locks, Live, FileOf
<1>6. GitOf(p)' /\ Told(p)'
  <2>1. pc'[p] = "locked" /\ git'[p] = "none" /\ ilock' = ilock
    BY <1>1, <1>2 DEF Moved
  <2>2. GitOf(p)
    BY DEF LInv
  <2>3. GitOf(p)'
    BY <1>1, <2>1, <2>2 DEF GitOf, Committing
  <2>4. Told(p)'
    BY <2>1 DEF Told, Writing
  <2>5. QED
    BY <2>3, <2>4
<1>7. UNCHANGED files
  BY <1>1
<1>8. QED
  BY <1>3, <1>4, <1>5, <1>6, <1>7, OthersGit, OthersTold DEF LInv

(* A git that starts or takes index.lock. *)
LEMMA GitGoes ==
  ASSUME LInv, NEW p \in Proc, NEW g \in Gits, g # "committed", g # "none", git[p] # "committed",
         git' = [git EXCEPT ![p] = g],
         UNCHANGED <<files, lock, pc, job, edited, faults>>,
         pc[p] \in Committing \cup {"add", "dead"},
         pc[p] \in Committing => g \notin {"toadd", "adding"},
         pc[p] = "add" => g \in {"toadd", "adding"},
         \/ ilock' = ilock /\ g \notin {"locked", "adding"} /\ git[p] = "none"
         \/ ilock = Nobody /\ ilock' = p /\ g \in {"locked", "adding"}
  PROVE  LInv'
<1>1. git \in [Proc -> Gits] /\ git' \in [Proc -> Gits] /\ git'[p] = g
      /\ \A q \in Proc : q # p => git'[q] = git[q]
  BY Types DEF LInv
<1>2. Apart(p) /\ NoNewCommit
  BY <1>1, LedgerAssumption DEF Apart, NoNewCommit
<1>3. TypeOK'
  BY <1>1 DEF LInv, TypeOK, files, Gits
<1>4. Locks'
  BY DEF LInv, Locks, Live, FileOf
<1>5. GitOf(p)'
  <2>1. GitOf(p)
    BY DEF LInv
  <2>2. QED
    BY <1>1, <2>1 DEF GitOf, Committing
<1>6. Told(p)'
  <2>1. Told(p) /\ (Live(p)' <=> Live(p)) /\ FileOf(p)' = FileOf(p)
    BY DEF LInv, Live, FileOf
  <2>2. pc'[p] # "staged" /\ git'[p] # "committed"
    BY <1>1 DEF Committing
  <2>3. QED
    BY <2>1, <2>2 DEF Told, files
<1>7. UNCHANGED files
  OBVIOUS
<1>8. QED
  BY <1>2, <1>3, <1>4, <1>5, <1>6, <1>7, OthersGit, OthersTold DEF LInv

(* A git that ends without having changed a file: refused, given up or killed. *)
LEMMA GitFails ==
  ASSUME LInv, NEW p \in Proc, git[p] # "none", GitEnds(p, FALSE),
         UNCHANGED <<files, lock, edited>>, faults' \in 0..MaxFault,
         ilock' = IF ilock = p THEN Left ELSE ilock
  PROVE  LInv'
<1>1. TypeOK /\ GitOf(p) /\ Told(p) /\ pc \in [Proc -> Pcs]
  BY Types DEF LInv
<1>2. pc[p] \in InGit
  BY <1>1 DEF GitOf, InGit
<1>3. /\ git' = [git EXCEPT ![p] = "none"]
      /\ Moved(p, After(p, FALSE), IF pc[p] = "dead" THEN NoJob ELSE job[p])
  BY <1>1, <1>2, GitEndsMoves
<1>4. /\ git' \in [Proc -> Gits] /\ git'[p] = "none"
      /\ \A q \in Proc : q # p => git'[q] = git[q]
  BY <1>1, <1>3, Types DEF Gits
<1>5. Apart(p) /\ NoNewCommit /\ ilock' \in Proc \cup {Nobody, Left} /\ ilock' # p
  BY <1>1, <1>3, <1>4, LedgerAssumption DEF Moved, Apart, NoNewCommit, TypeOK
<1>6. TypeOK'
  BY <1>1, <1>3, <1>4, <1>5 DEF TypeOK, Moved, files, Pcs, Job, Gits
<1>7. CASE pc[p] = "dead"
  <2>1. pc'[p] = "idle" /\ ~Live(p) /\ ~Live(p)'
    BY <1>3, <1>7 DEF Moved, After, Live
  <2>2. Locks'
    BY <1>5, <2>1, LocksStay
  <2>3. GitOf(p)' /\ Told(p)'
    BY <1>4, <1>5, <2>1 DEF GitOf, Told, Committing
  <2>4. QED
    BY <1>5, <1>6, <2>2, <2>3, OthersGit, OthersTold DEF LInv
<1>8. CASE pc[p] # "dead"
  <2>1. /\ pc'[p] \in {"add", "raised", "check"} /\ Live(p) /\ Live(p)'
        /\ job'[p].file = job[p].file /\ job'[p].data = job[p].data
        /\ pc[p] \in Writing
    BY <1>2, <1>3, <1>8 DEF Moved, After, Live, InGit, Writing
  <2>2. FileOf(p)' = FileOf(p)
    BY <2>1 DEF FileOf
  <2>3. Locks'
    BY <1>5, <2>1, <2>2, LocksStay
  <2>4. GitOf(p)'
    BY <1>4, <1>5, <2>1 DEF GitOf, Committing
  <2>5. Told(p)'
    BY <1>1, <1>4, <2>1, <2>2 DEF Told, files, Writing
  <2>6. QED
    BY <1>5, <1>6, <2>3, <2>4, <2>5, OthersGit, OthersTold DEF LInv
<1>9. QED
  BY <1>7, <1>8

LEMMA GitBusyStep ==
  ASSUME LInv, NEW p \in Proc, GitBusy(p)
  PROVE  LInv'
<1>1. /\ git[p] \in {"base", "stale", "toadd"} /\ TypeOK /\ GitOf(p) /\ Told(p)
      /\ UNCHANGED <<files, lock, ilock, edited, faults>> /\ ilock # p
      /\ faults \in 0..MaxFault
  BY DEF LInv, GitBusy, GitOf, TypeOK
<1>2. CASE GitEnds(p, FALSE)
  BY <1>1, <1>2, GitFails
<1>3. CASE /\ ~(pc[p] = "dead" \/ job[p].tries + 1 = MaxTries)
           /\ git' = [git EXCEPT ![p] = "none"]
           /\ job' = [job EXCEPT ![p].tries = @ + 1]
           /\ UNCHANGED pc
  <2>1. git' \in [Proc -> Gits] /\ git'[p] = "none" /\ \A q \in Proc : q # p => git'[q] = git[q]
    BY <1>1, <1>3, Types DEF Gits
  <2>2. job \in [Proc -> Job] /\ pc \in [Proc -> Pcs]
    BY <1>1, Types
  <2>3. [job[p] EXCEPT !.tries = @ + 1] \in Job
    BY <1>3, <2>2, JobTypes
  <2>4. job' = [job EXCEPT ![p] = [job[p] EXCEPT !.tries = @ + 1]]
    BY <1>3
  <2>5. job' \in [Proc -> Job] /\ job'[p].file = job[p].file /\ job'[p].data = job[p].data
        /\ \A q \in Proc : q # p => job'[q] = job[q]
    BY <2>2, <2>3, <2>4 DEF Job
  <2>6. Moved(p, pc[p], job[p])
    BY <1>3, <2>2, <2>5 DEF Moved
  <2>7. Apart(p) /\ NoNewCommit
    BY <1>1, <1>3, <2>1, <2>6 DEF Moved, Apart, NoNewCommit
  <2>8. TypeOK'
    BY <1>1, <1>3, <2>1, <2>5 DEF TypeOK, files, Job, Gits
  <2>9. pc[p] \in InGit /\ pc[p] # "dead" /\ Live(p) /\ Live(p)' /\ FileOf(p)' = FileOf(p)
    BY <1>1, <1>3, <2>5 DEF GitOf, Live, InGit, FileOf
  <2>10. Locks'
    BY <1>1, <2>7, <2>9, LocksStay
  <2>11. GitOf(p)'
    BY <1>1, <1>3, <2>1, <2>9 DEF GitOf, InGit
  <2>12. Told(p)'
    BY <1>1, <1>3, <2>1, <2>5, <2>9 DEF Told, InGit, files
  <2>13. UNCHANGED files
    BY <1>1
  <2>14. QED
    BY <2>7, <2>8, <2>10, <2>11, <2>12, <2>13, OthersGit, OthersTold DEF LInv
<1>4. QED
  BY <1>2, <1>3 DEF GitBusy

(* p dies; its git, if it has one, goes on with the file. *)
LEMMA DiesStep ==
  ASSUME LInv, NEW p \in Proc, Dies(p)
  PROVE  LInv'
<1>1. /\ UNCHANGED <<files, ilock, git>> /\ Live(p) /\ TypeOK /\ GitOf(p)
      /\ faults' \in 0..MaxFault
  BY LedgerAssumption DEF LInv, TypeOK, Dies, Fault, Live
<1>2. CASE git[p] = "none"
  BY <1>1, <1>2, CallLeaves DEF Dies
<1>3. CASE git[p] # "none"
  <2>1. /\ pc' = [pc EXCEPT ![p] = "dead"]
        /\ lock' = [f \in File |-> IF lock[f] = p THEN Nobody ELSE lock[f]]
        /\ edited' = edited \ {p}
        /\ UNCHANGED job
    BY <1>3 DEF Dies
  <2>2. /\ pc' \in [Proc -> Pcs] /\ lock' \in [File -> Proc \cup {Nobody}]
        /\ \A f \in File : lock'[f] = IF lock[f] = p THEN Nobody ELSE lock[f]
        /\ pc'[p] = "dead" /\ \A q \in Proc : q # p => pc'[q] = pc[q]
    BY <1>1, <2>1, Types DEF Pcs
  <2>3. Apart(p) /\ NoNewCommit
    BY <1>1, <2>1, <2>2 DEF Apart, NoNewCommit
  <2>4. TypeOK'
    BY <1>1, <2>1, <2>2 DEF TypeOK, files, Pcs
  <2>5. ~Live(p)' /\ FileOf(p)' \in File
    BY <1>1, <2>1, <2>2 DEF Live, FileOf, LInv, Locks
  <2>6. Locks'
    BY <2>2, <2>3, <2>5, LocksLeft
  <2>7. GitOf(p)' /\ Told(p)'
    BY <1>1, <1>3, <2>2, <2>5 DEF GitOf, Told, Committing
  <2>8. QED
    BY <1>1, <2>3, <2>4, <2>6, <2>7, OthersGit, OthersTold DEF LInv
<1>4. QED
  BY <1>2, <1>3

(***************************************************************************)
(* Steps that change one file                                              *)
(***************************************************************************)
Elsewhere(f) ==
  \A g \in File : g # f => work'[g] = work[g] /\ index'[g] = index[g] /\ head'[g] = head[g]

LEMMA ToldElsewhere ==
  ASSUME LInv, NEW p, Apart(p), NEW f \in File, Elsewhere(f), NEW q \in Proc, q # p,
         ~Live(q) \/ FileOf(q) # f,
         \A r \in Proc : git'[r] = "committed" =>
           job'[r].file = f \/ (git[r] = "committed" /\ job'[r].file = job[r].file)
  PROVE  Told(q)'
<1>1. pc'[q] = pc[q] /\ job'[q] = job[q] /\ (q \in edited' <=> q \in edited)
      /\ git'[q] \in {git[q], "stale"}
      /\ (Live(q)' <=> Live(q)) /\ FileOf(q)' = FileOf(q)
  BY DEF Apart, Live, FileOf
<1>2. CASE ~Live(q)
  BY <1>1, <1>2 DEF Told
<1>3. CASE Live(q) /\ FileOf(q) # f
  <2>1. /\ work'[FileOf(q)] = work[FileOf(q)] /\ index'[FileOf(q)] = index[FileOf(q)]
        /\ head'[FileOf(q)] = head[FileOf(q)]
    BY <1>3 DEF LInv, Locks, Elsewhere
  <2>2. \A r \in Proc : git'[r] = "committed" /\ FileOf(r)' = FileOf(q) =>
          git[r] = "committed" /\ FileOf(r) = FileOf(q)
    BY <1>3 DEF FileOf
  <2>3. Told(q)
    BY DEF LInv
  <2>4. git'[q] = "committed" => git[q] = "committed"
    BY <1>1
  <2>5. \A r \in Proc : git'[r] = "committed" /\ FileOf(r)' = FileOf(q)' =>
          git[r] = "committed" /\ FileOf(r) = FileOf(q)
    BY <1>1, <2>2
  <2>6. QED
    BY <1>1, <1>3, <2>1, <2>3, <2>4, <2>5 DEF Told
<1>4. QED
  BY <1>2, <1>3

LEMMA ReadsStep ==
  ASSUME LInv, NEW p \in Proc, Reads(p)
  PROVE  LInv'
<1>1. /\ pc[p] = "looked" /\ TypeOK /\ GitOf(p) /\ Told(p) /\ Live(p)
      /\ FileOf(p) \in File
      /\ UNCHANGED <<files, lock, ilock, git, edited, faults>>
  BY DEF LInv, Reads, Live, Locks
<1>2. /\ Moved(p, "read", [job[p] EXCEPT !.data = work[FileOf(p)]])
      /\ job'[p].data = work[FileOf(p)] /\ job'[p].file = job[p].file
  <2>1. /\ pc' = [pc EXCEPT ![p] = "read"]
        /\ job' = [job EXCEPT ![p] = [job[p] EXCEPT !.data = work[FileOf(p)]]]
    BY DEF Reads
  <2>2. /\ pc \in [Proc -> Pcs] /\ job \in [Proc -> Job] /\ "read" \in Pcs
        /\ work[FileOf(p)] \in Content
    BY <1>1, Types DEF Pcs
  <2>3. /\ [job[p] EXCEPT !.data = work[FileOf(p)]] \in Job
        /\ [job[p] EXCEPT !.data = work[FileOf(p)]].data = work[FileOf(p)]
        /\ [job[p] EXCEPT !.data = work[FileOf(p)]].file = job[p].file
    BY <2>2, JobTypes DEF Job
  <2>4. QED
    BY <2>1, <2>2, <2>3 DEF Moved
<1>3. Apart(p) /\ NoNewCommit
  BY <1>1, <1>2 DEF Moved, Apart, NoNewCommit
<1>4. TypeOK'
  BY <1>1, <1>2 DEF TypeOK, Moved, files, Pcs, Job
<1>5. Live(p)' /\ FileOf(p)' = FileOf(p) /\ pc'[p] = "read" /\ git[p] = "none"
  BY <1>1, <1>2 DEF Moved, Live, FileOf, GitOf
<1>6. Locks'
  BY <1>1, <1>3, <1>5, LocksStay
<1>7. GitOf(p)' /\ Told(p)'
  <2>1. GitOf(p)'
    BY <1>1, <1>5 DEF GitOf, Committing
  <2>2. Told(p)'
    BY <1>1, <1>2, <1>5 DEF Told, files, Writing
  <2>3. QED
    BY <2>1, <2>2
<1>8. UNCHANGED files
  BY <1>1
<1>9. QED
  BY <1>3, <1>4, <1>6, <1>7, <1>8, OthersGit, OthersTold DEF LInv

LEMMA WritesStep ==
  ASSUME LInv, NEW p \in Proc, NEW t \in Text, Writes(p, t)
  PROVE  LInv'
<1> DEFINE f == FileOf(p)
<1>1. /\ pc[p] = "read" /\ TypeOK /\ GitOf(p) /\ Live(p) /\ f \in File /\ lock[f] = p
      /\ work' = [work EXCEPT ![f] = t]
      /\ UNCHANGED <<index, head, lock, ilock, git, edited, faults>>
  BY DEF LInv, Writes, Live, Locks
<1>2. Moved(p, "commit1", [job[p] EXCEPT !.data = t]) /\ job'[p].data = t
      /\ job'[p].file = job[p].file
  <2>1. pc' = [pc EXCEPT ![p] = "commit1"] /\ job' = [job EXCEPT ![p] = [job[p] EXCEPT !.data = t]]
    BY DEF Writes
  <2>2. pc \in [Proc -> Pcs] /\ job \in [Proc -> Job] /\ "commit1" \in Pcs /\ t \in Content
    BY <1>1, Types DEF Pcs, Writing, Content
  <2>3. [job[p] EXCEPT !.data = t] \in Job /\ [job[p] EXCEPT !.data = t].data = t
        /\ [job[p] EXCEPT !.data = t].file = job[p].file
    BY <2>2, JobTypes DEF Job
  <2>4. QED
    BY <2>1, <2>2, <2>3 DEF Moved
<1>3. work \in [File -> Content] /\ work' \in [File -> Content] /\ work'[f] = t /\ Elsewhere(f)
  BY <1>1, Types DEF Elsewhere, Content
<1>4. Apart(p) /\ NoNewCommit
  BY <1>1, <1>2 DEF Moved, Apart, NoNewCommit
<1>5. TypeOK'
  BY <1>1, <1>2, <1>3 DEF TypeOK, Moved, Pcs, Job
<1>6. Live(p)' /\ FileOf(p)' = f /\ pc'[p] = "commit1"
  BY <1>2 DEF Moved, Live, FileOf
<1>7. Locks'
  BY <1>1, <1>4, <1>6, LocksStay
<1>8. GitOf(p)'
  BY <1>1, <1>6 DEF GitOf, Committing
<1>9. Told(p)'
  BY <1>1, <1>2, <1>3, <1>6 DEF Told, GitOf
<1>10. \A q \in Proc : q # p => ~Live(q) \/ FileOf(q) # f
  BY <1>1 DEF LInv, Locks
<1>11. \A q \in Proc : q # p => Told(q)'
  BY <1>1, <1>3, <1>4, <1>10, ToldElsewhere DEF NoNewCommit
<1>12. QED
  BY <1>4, <1>5, <1>7, <1>8, <1>9, <1>11, OthersGit DEF LInv

LEMMA CommitsStep ==
  ASSUME LInv, NEW p \in Proc, Commits(p)
  PROVE  LInv'
<1> DEFINE f == FileOf(p)
<1>1. /\ git[p] = "locked" /\ TypeOK /\ GitOf(p)
      /\ head' = [head EXCEPT ![f] = work[f]]
      /\ git' = [q \in Proc |-> IF q = p THEN "committed"
                                ELSE IF git[q] = "base" THEN "stale" ELSE git[q]]
      /\ UNCHANGED <<work, index, lock, ilock, pc, job, edited, faults>>
  BY DEF LInv, Commits, Overtakes
<1>2. pc[p] \in Committing \cup {"dead"} /\ f \in File
  BY <1>1 DEF GitOf, LInv, Locks, Live, Committing
<1>3. /\ head \in [File -> Content] /\ head' \in [File -> Content] /\ head'[f] = work[f]
      /\ Elsewhere(f)
  BY <1>1, <1>2, Types DEF Elsewhere
<1>4. git' \in [Proc -> Gits] /\ git'[p] = "committed"
      /\ \A q \in Proc : q # p => git'[q] = git[q] \/ (git[q] = "base" /\ git'[q] = "stale")
  BY <1>1, Types DEF Gits
<1>5. Apart(p)
  BY <1>1, <1>4 DEF Apart
<1>6. TypeOK'
  BY <1>1, <1>3, <1>4 DEF TypeOK, Gits
<1>7. Locks'
  BY <1>1 DEF LInv, Locks, Live, FileOf
<1>8. GitOf(p)'
  BY <1>1, <1>2, <1>4 DEF GitOf, Committing
<1>9. \A r \in Proc : git'[r] = "committed" =>
        job'[r].file = f \/ (git[r] = "committed" /\ job'[r].file = job[r].file)
  BY <1>1, <1>4 DEF FileOf
<1>10. ASSUME NEW q \in Proc, Live(q), FileOf(q) = f
       PROVE  Told(q)'
  <2>1. Told(q) /\ FileOf(q)' = f /\ pc'[q] = pc[q] /\ (q \in edited' <=> q \in edited)
        /\ (Live(q)' <=> Live(q)) /\ job' = job /\ work' = work /\ index' = index
    BY <1>1, <1>10 DEF LInv, FileOf, Live
  <2>2. QED
    BY <1>3, <1>10, <2>1 DEF Told
<1>11. \A q \in Proc : q # p => Told(q)'
  BY <1>2, <1>3, <1>5, <1>9, <1>10, ToldElsewhere
<1>12. Told(p)'
  <2>1. ~Live(p)' => Told(p)'
    BY DEF Told
  <2>2. Live(p)' => Live(p)
    BY <1>1 DEF Live
  <2>3. QED
    BY <1>10, <2>1, <2>2
<1>13. QED
  BY <1>5, <1>6, <1>7, <1>8, <1>11, <1>12, OthersGit DEF LInv

(* A git that ends well: the index gets the file from HEAD or from the disk. *)
LEMMA UnlocksStep ==
  ASSUME LInv, NEW p \in Proc, CommitUnlocks(p) \/ AddUnlocks(p)
  PROVE  LInv'
<1> DEFINE f == FileOf(p)
<1>1. /\ git[p] \in {"committed", "adding"} /\ TypeOK /\ GitOf(p) /\ Told(p)
      /\ git[p] = "committed" => index' = [index EXCEPT ![f] = head[f]]
      /\ git[p] = "adding" => index' = [index EXCEPT ![f] = work[f]]
      /\ ilock' = Nobody /\ GitEnds(p, TRUE)
      /\ UNCHANGED <<work, head, lock, edited, faults>>
  BY DEF LInv, CommitUnlocks, AddUnlocks
<1>2. pc[p] \in InGit /\ f \in File /\ ilock = p
  BY <1>1 DEF GitOf, LInv, Locks, Live, InGit
<1>3. /\ git' = [git EXCEPT ![p] = "none"]
      /\ Moved(p, After(p, TRUE), IF pc[p] = "dead" THEN NoJob ELSE job[p])
  BY <1>1, <1>2, GitEndsMoves
<1>4. /\ git' \in [Proc -> Gits] /\ git'[p] = "none"
      /\ \A q \in Proc : q # p => git'[q] = git[q]
  BY <1>1, <1>3, Types DEF Gits
<1>5. /\ index' \in [File -> Content] /\ Elsewhere(f)
      /\ git[p] = "committed" => index'[f] = head[f]
      /\ git[p] = "adding" => index'[f] = work[f]
  BY <1>1, <1>2, Types DEF Elsewhere
<1>6. Apart(p) /\ NoNewCommit
  BY <1>1, <1>2, <1>3, <1>4, LedgerAssumption DEF Moved, Apart, NoNewCommit
<1>7. TypeOK'
  BY <1>1, <1>3, <1>4, <1>5 DEF TypeOK, Moved, Pcs, Job, Gits
<1>8. ASSUME NEW q \in Proc, q # p
      PROVE  Told(q)'
  <2>1. CASE ~Live(q) \/ FileOf(q) # f
    BY <1>2, <1>5, <1>6, <1>8, <2>1, ToldElsewhere DEF NoNewCommit
  <2>2. CASE Live(q) /\ FileOf(q) = f
    <3>1. /\ Told(q) /\ FileOf(q)' = f /\ pc'[q] = pc[q] /\ (q \in edited' <=> q \in edited)
          /\ (Live(q)' <=> Live(q)) /\ job'[q] = job[q] /\ work' = work /\ head' = head
          /\ git'[q] = git[q]
      BY <1>1, <1>4, <1>6, <1>8, <2>2 DEF LInv, FileOf, Live, Apart
    <3>2. \A r \in Proc : git'[r] = "committed" /\ FileOf(r)' = f =>
            git[r] = "committed" /\ FileOf(r) = f
      BY <1>6 DEF NoNewCommit, FileOf
    <3>3. pc[q] = "staged" /\ q \notin edited => index'[f] = work[f]
      BY <1>1, <1>5, <2>2, <3>1 DEF Told
    <3>4. pc[q] = "returned" /\ q \notin edited => index'[f] = work[f]
      BY <1>1, <1>5, <2>2, <3>1 DEF Told
    <3>5. QED
      BY <2>2, <3>1, <3>2, <3>3, <3>4 DEF Told
  <2>3. QED
    BY <2>1, <2>2
<1>9. CASE pc[p] = "dead"
  <2>1. pc'[p] = "idle" /\ ~Live(p) /\ ~Live(p)'
    BY <1>3, <1>9 DEF Moved, After, Live
  <2>2. Locks'
    BY <1>1, <1>6, <2>1, LocksStay
  <2>3. GitOf(p)' /\ Told(p)'
    BY <1>1, <1>4, <2>1, LedgerAssumption DEF GitOf, Told, Committing
  <2>4. QED
    BY <1>6, <1>7, <1>8, <2>2, <2>3, OthersGit DEF LInv
<1>10. CASE pc[p] # "dead"
  <2>1. /\ pc'[p] = IF git[p] = "adding" THEN "staged" ELSE "returned"
        /\ Live(p) /\ Live(p)' /\ pc[p] \in Writing
        /\ job'[p].file = job[p].file /\ job'[p].data = job[p].data
    BY <1>1, <1>2, <1>3, <1>10 DEF Moved, After, Live, InGit, Writing, GitOf, Committing
  <2>2. FileOf(p)' = f
    BY <2>1 DEF FileOf
  <2>3. Locks'
    BY <1>1, <1>6, <2>1, <2>2, LocksStay
  <2>4. GitOf(p)'
    BY <1>1, <1>4, <2>1, LedgerAssumption DEF GitOf, Committing
  <2>5. git[p] = "adding" => \A r \in Proc : git'[r] # "committed"
    <3>1. \A r \in Proc : git[r] = "committed" => r = p
      BY <1>2 DEF LInv, GitOf
    <3>2. QED
      BY <1>4, <3>1
  <2>6. Told(p)'
    BY <1>1, <1>4, <1>5, <2>1, <2>2, <2>5 DEF Told, Writing
  <2>7. QED
    BY <1>6, <1>7, <1>8, <2>3, <2>4, <2>6, OthersGit DEF LInv
<1>11. QED
  BY <1>9, <1>10

(* Somebody who is no process edits, accepts or restores a file, or frees index.lock. *)
LEMMA NobodysStep ==
  ASSUME LInv, NEW f \in File, TypeOK', UNCHANGED <<lock, pc, job>>, Elsewhere(f), Apart(Nobody),
         \A q \in Proc : git'[q] = "committed" => git[q] = "committed",
         \A q \in Proc : Live(q) /\ FileOf(q) = f => Told(q)'
  PROVE  LInv'
<1>1. \A q \in Proc : q # Nobody
  BY LedgerAssumption
<1>2. Locks'
  BY DEF LInv, Locks, Live, FileOf
<1>3. \A q \in Proc : GitOf(q)'
  BY <1>1, OthersGit
<1>4. \A q \in Proc : Told(q)'
  BY <1>1, ToldElsewhere
<1>5. QED
  BY <1>2, <1>3, <1>4 DEF LInv

LEMMA ForeignStep ==
  ASSUME LInv, NEW f \in File, ForeignEdit(f)
  PROVE  LInv'
<1>1. /\ work' = [work EXCEPT ![f] = Alien] /\ faults' \in 0..MaxFault /\ TypeOK
      /\ edited' = edited \cup {p \in Proc : lock[f] = p /\ pc[p] # "locked"}
      /\ UNCHANGED <<index, head, lock, ilock, pc, job, git>>
  BY LedgerAssumption DEF LInv, TypeOK, ForeignEdit, Fault
<1>2. work' \in [File -> Content] /\ edited' \subseteq Proc
  BY <1>1, Types DEF Content, TypeOK
<1>3. TypeOK'
  BY <1>1, <1>2 DEF TypeOK
<1>4. Locks'
  BY <1>1 DEF LInv, Locks, Live, FileOf
<1>5. ASSUME NEW q \in Proc
      PROVE  GitOf(q)' /\ Told(q)'
  <2>1. GitOf(q) /\ Told(q)
    BY DEF LInv
  <2>2. GitOf(q)'
    BY <1>1, <2>1 DEF GitOf
  <2>3. ~Live(q)' => Told(q)'
    BY DEF Told
  <2>4. CASE Live(q) /\ FileOf(q) = f
    <3>1. lock[f] = q
      BY <2>4 DEF LInv, Locks
    <3>2. q \in edited' \/ pc'[q] = "locked"
      BY <1>1, <3>1
    <3>3. CASE q \in edited'
      BY <2>2, <3>3 DEF Told
    <3>4. CASE pc'[q] = "locked"
      <4>1. git'[q] # "committed"
        BY <1>1, <2>1, <3>4 DEF GitOf
      <4>2. QED
        BY <2>2, <3>4, <4>1 DEF Told, Writing
    <3>5. QED
      BY <3>2, <3>3, <3>4
  <2>5. CASE Live(q) /\ FileOf(q) # f
    <3>1. FileOf(q) \in File /\ work \in [File -> Content] /\ FileOf(q)' = FileOf(q)
      BY <1>1, <2>5, Types DEF LInv, Locks, FileOf
    <3>2. work'[FileOf(q)] = work[FileOf(q)] /\ FileOf(q)' = FileOf(q)
      BY <1>1, <2>5, <3>1
    <3>3. q \in edited' <=> q \in edited
      <4>1. lock[f] # q
        BY <2>5, LedgerAssumption DEF LInv, Locks
      <4>2. QED
        BY <1>1, <4>1
    <3>4. \A r \in Proc : FileOf(r)' = FileOf(r)
      BY <1>1 DEF FileOf
    <3>5. /\ index' = index /\ head' = head /\ git' = git /\ pc' = pc /\ job' = job
          /\ Live(q)' <=> Live(q)
      BY <1>1 DEF Live
    <3>6. QED
      BY <2>1, <2>2, <3>2, <3>3, <3>4, <3>5 DEF Told
  <2>6. QED
    BY <1>1, <2>2, <2>3, <2>4, <2>5 DEF Live
<1>6. QED
  BY <1>3, <1>4, <1>5 DEF LInv

LEMMA HumanSteps ==
  ASSUME LInv, NEW f \in File, HumanAccepts(f) \/ HumanRestores(f)
  PROVE  LInv'
<1>1. /\ lock[f] = Nobody /\ TypeOK
      /\ \/ work' = [work EXCEPT ![f] = head[f]] /\ UNCHANGED head
         \/ head' = [head EXCEPT ![f] = work[f]] /\ UNCHANGED work
      /\ \/ index' = [index EXCEPT ![f] = head[f]]
         \/ index' = [index EXCEPT ![f] = work[f]]
      /\ \/ git' = git
         \/ git' = [q \in Proc |-> IF git[q] = "base" THEN "stale" ELSE git[q]]
      /\ UNCHANGED <<lock, ilock, pc, job, edited, faults>>
  BY DEF LInv, HumanAccepts, HumanRestores
<1>2. /\ work \in [File -> Content] /\ index \in [File -> Content] /\ head \in [File -> Content]
      /\ git \in [Proc -> Gits]
  BY <1>1, Types
<1>3. /\ work' \in [File -> Content] /\ index' \in [File -> Content] /\ head' \in [File -> Content]
      /\ git' \in [Proc -> Gits] /\ Elsewhere(f)
  BY <1>1, <1>2 DEF Elsewhere, Gits
<1>4. TypeOK'
  BY <1>1, <1>3 DEF TypeOK, Gits
<1>5. Apart(Nobody) /\ \A q \in Proc : git'[q] = "committed" => git[q] = "committed"
  BY <1>1, <1>2 DEF Apart
<1>6. \A q \in Proc : ~(Live(q) /\ FileOf(q) = f)
  BY <1>1, LedgerAssumption DEF LInv, Locks
<1>7. QED
  BY <1>1, <1>3, <1>4, <1>5, <1>6, NobodysStep

LEMMA HumanUnlocksStep ==
  ASSUME LInv, HumanUnlocks
  PROVE  LInv'
<1>1. /\ ilock = Left /\ ilock' = Nobody
      /\ UNCHANGED <<files, lock, pc, job, git, edited, faults>>
  BY DEF HumanUnlocks
<1>2. TypeOK'
  BY <1>1 DEF LInv, TypeOK, files
<1>3. Locks'
  BY <1>1 DEF LInv, Locks, Live, FileOf
<1>4. \A q \in Proc : GitOf(q)'
  BY <1>1, LedgerAssumption DEF LInv, GitOf
<1>5. \A q \in Proc : Told(q)'
  BY <1>1 DEF LInv, Told, Live, FileOf, files
<1>6. QED
  BY <1>2, <1>3, <1>4, <1>5 DEF LInv

-----------------------------------------------------------------------------
LEMMA Initially == Init => LInv
<1> SUFFICES ASSUME Init
             PROVE  LInv
  OBVIOUS
<1>1. TypeOK
  <2>1. 0 \in 0..(MaxTries - 1) /\ 0 \in 0..MaxFault
    BY LedgerAssumption
  <2>2. NoJob \in Job
    BY JobTypes
  <2>3. work \in [File -> Content] /\ index \in [File -> Content] /\ head \in [File -> Content]
    BY DEF Init, Content
  <2>4. job \in [Proc -> Job]
    BY <2>2 DEF Init
  <2>5. QED
    BY <2>1, <2>3, <2>4 DEF Init, TypeOK, Job
<1>2. \A p \in Proc : pc[p] = "idle" /\ git[p] = "none"
  BY DEF Init
<1>3. Locks
  BY <1>2 DEF Init, Locks, Live
<1>4. \A p \in Proc : GitOf(p) /\ Told(p)
  BY <1>2, LedgerAssumption DEF Init, GitOf, Told, Live, Committing
<1>5. QED
  BY <1>1, <1>3, <1>4 DEF LInv

LEMMA GitSteps ==
  ASSUME LInv, NEW p \in Proc, GitStep(p)
  PROVE  LInv'
<1>1. TypeOK /\ GitOf(p) /\ pc \in [Proc -> Pcs] /\ faults \in 0..MaxFault
  BY Types DEF LInv, TypeOK
<1>2. CASE CommitStarts(p)
  BY <1>1, <1>2, GitGoes DEF CommitStarts, Gits, Committing
<1>3. CASE AddStarts(p)
  BY <1>1, <1>3, GitGoes DEF AddStarts, Gits, Committing
<1>4. CASE GitBusy(p)
  BY <1>4, GitBusyStep
<1>5. CASE CommitRefused(p)
  <2>1. ilock # p
    BY <1>1, <1>5 DEF GitOf, CommitRefused
  <2>2. QED
    BY <1>1, <1>5, <2>1, GitFails DEF CommitRefused
<1>6. CASE CommitLocks(p)
  <2>1. pc[p] \in Committing \cup {"dead"}
    BY <1>1, <1>6 DEF GitOf, CommitLocks, Committing
  <2>2. QED
    BY <1>6, <2>1, GitGoes DEF CommitLocks, Gits, Committing
<1>7. CASE Commits(p)
  BY <1>7, CommitsStep
<1>8. CASE CommitUnlocks(p) \/ AddUnlocks(p)
  BY <1>8, UnlocksStep
<1>9. CASE AddLocks(p)
  <2>1. pc[p] \in {"add", "dead"}
    BY <1>1, <1>9 DEF GitOf, AddLocks, Committing
  <2>2. QED
    BY <1>9, <2>1, GitGoes DEF AddLocks, Gits, Committing
<1>10. QED
  BY <1>2, <1>3, <1>4, <1>5, <1>6, <1>7, <1>8, <1>9 DEF GitStep

LEMMA CallSteps ==
  ASSUME LInv, NEW p \in Proc, CallStep(p)
  PROVE  LInv'
<1>1. TypeOK /\ GitOf(p) /\ Told(p) /\ faults \in 0..MaxFault
  BY DEF LInv, TypeOK
<1>2. CASE Looks(p)
  <2>1. Moved(p, "looked", job[p]) /\ Live(p) /\ git[p] = "none" /\ "looked" \in Pcs
    BY <1>1, <1>2, GotoMoves DEF Looks, Pcs, Live, GitOf
  <2>2. QED
    BY <1>2, <2>1, CallGoes DEF Looks, Moved, Live, Writing
<1>3. CASE FindsDirty(p) \/ LeavesUnwritten(p) \/ Returns(p)
  <2>1. git[p] = "none"
    BY <1>1, <1>3 DEF GitOf, FindsDirty, LeavesUnwritten, Returns
  <2>2. QED
    BY <1>1, <1>3, <2>1, CallLeaves DEF FindsDirty, LeavesUnwritten, Returns
<1>4. CASE Reads(p)
  BY <1>4, ReadsStep
<1>5. CASE \E t \in Text : Writes(p, t)
  BY <1>5, WritesStep
<1>6. CASE ChecksStaged(p)
  <2> DEFINE l == IF index[FileOf(p)] = head[FileOf(p)] THEN "returned" ELSE "commit2"
  <2>1. l \in Pcs /\ l \in {"returned", "commit2"}
    BY DEF Pcs, Writing
  <2>2. pc[p] = "staged" /\ Goto(p, l) /\ UNCHANGED <<files, lock, ilock, git, edited, faults>>
    BY <1>6 DEF ChecksStaged
  <2>3. l = "returned" /\ p \notin edited =>
          head[FileOf(p)] = work[FileOf(p)] /\ index[FileOf(p)] = work[FileOf(p)]
    BY <1>1, <2>2 DEF Told, Live
  <2> HIDE DEF l
  <2>4. Moved(p, l, job[p]) /\ Live(p) /\ git[p] = "none"
    BY <1>1, <2>1, <2>2, GotoMoves DEF Live, GitOf
  <2>5. Live(p)'
    BY <2>1, <2>4 DEF Moved, Live
  <2>6. QED
    BY <2>1, <2>2, <2>3, <2>4, <2>5, CallGoes DEF Writing
<1>7. CASE ChecksStatus(p)
  <2> DEFINE l == IF Dirty(FileOf(p)) THEN "raised" ELSE "returned"
  <2>1. l \in Pcs /\ l \in {"returned", "raised"} /\ (l = "returned" => ~Dirty(FileOf(p)))
    BY DEF Pcs
  <2>2. pc[p] = "check" /\ Goto(p, l) /\ UNCHANGED <<files, lock, ilock, git, edited, faults>>
    BY <1>7 DEF ChecksStatus
  <2> HIDE DEF l
  <2>3. Moved(p, l, job[p]) /\ Live(p) /\ git[p] = "none"
    BY <1>1, <2>1, <2>2, GotoMoves DEF Live, GitOf
  <2>4. Live(p)'
    BY <2>1, <2>3 DEF Moved, Live
  <2>5. QED
    BY <2>1, <2>2, <2>3, <2>4, CallGoes DEF Writing, Dirty
<1>8. QED
  BY <1>2, <1>3, <1>4, <1>5, <1>6, <1>7 DEF CallStep

LEMMA NextStep ==
  ASSUME LInv, [Next]_vars
  PROVE  LInv'
<1>1. CASE \E p \in Proc : \E f \in File : Begins(p, f)
  BY <1>1, BeginsStep
<1>2. CASE \E p \in Proc : GitStep(p) \/ CallStep(p) \/ Dies(p)
  BY <1>2, GitSteps, CallSteps, DiesStep
<1>3. CASE \E p \in Proc : GitKilled(p)
  <2>1. PICK p \in Proc : GitKilled(p)
    BY <1>3
  <2>2. faults' \in 0..MaxFault
    BY <2>1, LedgerAssumption DEF GitKilled, Fault, LInv, TypeOK
  <2>3. QED
    BY <2>1, <2>2, GitFails DEF GitKilled
<1>4. CASE \E f \in File : ForeignEdit(f) \/ HumanAccepts(f) \/ HumanRestores(f)
  BY <1>4, ForeignStep, HumanSteps
<1>5. CASE HumanUnlocks
  BY <1>5, HumanUnlocksStep
<1>6. CASE UNCHANGED vars
  BY <1>6 DEF vars, files, LInv, TypeOK, Locks, GitOf, Told, Live, FileOf
<1>7. QED
  BY <1>1, <1>2, <1>3, <1>4, <1>5, <1>6 DEF Next

(* The inductive invariant. *)
THEOREM LedgerInvariant == Spec => []LInv
<1>1. LInv /\ [Next]_vars => LInv'
  BY NextStep
<1> QED
  BY <1>1, Initially, PTL DEF Spec

(* The values of the ledger are of their types. *)
THEOREM LedgerTypes == Spec => []TypeOK
<1>1. LInv => TypeOK
  BY DEF LInv
<1> QED
  BY <1>1, LedgerInvariant, PTL

(***************************************************************************)
(* A write_state that returns has its text at HEAD and leaves a clean file, *)
(* whichever path of commit it took and whatever git a dead predecessor    *)
(* has left running.                                                       *)
(***************************************************************************)
THEOREM ReturnsCommitted == Spec => []ReturnedIsCommitted
<1>1. LInv => ReturnedIsCommitted
  BY DEF LInv, Told, Live, ReturnedIsCommitted, Dirty
<1> QED
  BY <1>1, LedgerInvariant, PTL

(* What read_state hands out, and a writer builds on, was at HEAD. *)
THEOREM ReadsCommitted == Spec => []BuildsOnCommitted
<1>1. LInv => BuildsOnCommitted
  BY DEF LInv, Told, Live, BuildsOnCommitted
<1> QED
  BY <1>1, LedgerInvariant, PTL

-----------------------------------------------------------------------------
(***************************************************************************)
(* The refinement.  A step is seen at one file, as Witness promises.       *)
(***************************************************************************)
Replacing == Writing \cup {"returned", "raised"}

Seen(f) == IF BeingWritten(f) THEN head[f] ELSE work[f]

Quiet(f) == Seen(f)' = Seen(f) /\ head'[f] = head[f]

IsSeen(f) ==
  \/ Seen(f) = head[f] /\ Seen(f)' = head'[f] /\ head'[f] \in Content
  \/ Seen(f) = head[f] /\ head'[f] = head[f] /\ Seen(f)' \in Content
  \/ Seen(f) # head[f] /\ head'[f] = Seen(f) /\ Seen(f)' = Seen(f)
  \/ Seen(f) # head[f] /\ Seen(f)' = head[f] /\ head'[f] = head[f]
  \/ Seen(f)' = Alien /\ head'[f] = head[f]

OneSeen == \E f \in File : IsSeen(f) /\ \A g \in File : g # f => Quiet(g)

LEMMA SameSeen ==
  ASSUME NEW f \in File, work'[f] = work[f], head'[f] = head[f],
         \A q \in Proc : (lock'[f] = q /\ pc'[q] \in Replacing) <=>
                         (lock[f] = q /\ pc[q] \in Replacing)
  PROVE  Quiet(f)
<1>1. BeingWritten(f)' <=> BeingWritten(f)
  BY DEF BeingWritten, Replacing
<1>2. QED
  BY <1>1 DEF Quiet, Seen

(* A step of p that leaves it within, or outside of, the writing of its file. *)
LEMMA StaysQuiet ==
  ASSUME LInv, NEW p \in Proc, UNCHANGED <<work, head, lock>>,
         \A q \in Proc : q # p => pc'[q] = pc[q],
         Live(p) => (pc'[p] \in Replacing <=> pc[p] \in Replacing)
  PROVE  \A f \in File : Quiet(f)
<1>1. SUFFICES ASSUME NEW f \in File
               PROVE  \A q \in Proc : (lock'[f] = q /\ pc'[q] \in Replacing) <=>
                                      (lock[f] = q /\ pc[q] \in Replacing)
  BY SameSeen
<1>2. lock[f] = p => Live(p)
  BY LedgerAssumption DEF LInv, Locks
<1>3. QED
  BY <1>2

LEMMA OneOfHolder ==
  ASSUME LInv, NEW p \in Proc, Live(p), NEW f \in File
  PROVE  lock[f] = p <=> f = FileOf(p)
BY LedgerAssumption DEF LInv, Locks

LEMMA HolderSees ==
  ASSUME LInv, NEW p \in Proc, pc[p] \in Replacing
  PROVE  FileOf(p) \in File /\ lock[FileOf(p)] = p /\ Seen(FileOf(p)) = head[FileOf(p)]
<1>1. FileOf(p) \in File /\ lock[FileOf(p)] = p
  BY DEF LInv, Locks, Live, Replacing, Writing
<1>2. BeingWritten(FileOf(p))
  BY <1>1 DEF BeingWritten, Replacing
<1>3. QED
  BY <1>1, <1>2 DEF Seen

(* A file that nobody holds is seen as it is on disk. *)
LEMMA FreeIsSeen ==
  ASSUME NEW f \in File, LInv
  PROVE  /\ lock[f] = Nobody => Seen(f) = work[f]
         /\ lock'[f] = Nobody => Seen(f)' = work'[f]
<1>1. lock[f] = Nobody => ~BeingWritten(f)
  BY LedgerAssumption DEF BeingWritten
<1>2. lock'[f] = Nobody => ~BeingWritten(f)'
  BY LedgerAssumption DEF BeingWritten
<1>3. QED
  BY <1>1, <1>2 DEF Seen

(* p lets go of its file: a write that it gives up is torn. *)
LEMMA LeavingIsSeen ==
  ASSUME LInv, NEW p \in Proc, Live(p), UNCHANGED <<work, head>>,
         \A q \in Proc : q # p => pc'[q] = pc[q],
         \A f \in File : lock'[f] = IF lock[f] = p THEN Nobody ELSE lock[f]
  PROVE  OneSeen \/ \A f \in File : Quiet(f)
<1>1. PICK f \in File : f = FileOf(p)
  BY DEF LInv, Locks
<1>2. lock[f] = p /\ lock'[f] = Nobody /\ \A g \in File : g # f => lock[g] # p /\ lock'[g] = lock[g]
  BY <1>1, OneOfHolder
<1>3. \A g \in File : g # f => Quiet(g)
  <2>1. SUFFICES ASSUME NEW g \in File, g # f
                 PROVE  \A q \in Proc : (lock'[g] = q /\ pc'[q] \in Replacing) <=>
                                        (lock[g] = q /\ pc[q] \in Replacing)
    BY SameSeen
  <2>2. QED
    BY <1>2, <2>1
<1>4. Seen(f)' = work[f] /\ work[f] \in Content
  BY <1>2, FreeIsSeen DEF LInv, TypeOK
<1>5. CASE BeingWritten(f)
  <2>1. Seen(f) = head[f]
    BY <1>5 DEF Seen
  <2>2. IsSeen(f)
    BY <1>4, <2>1 DEF IsSeen
  <2>3. QED
    BY <1>3, <2>2 DEF OneSeen
<1>6. CASE ~BeingWritten(f)
  <2>1. Quiet(f)
    BY <1>4, <1>6 DEF Quiet, Seen
  <2>2. QED
    BY <1>3, <2>1
<1>7. QED
  BY <1>5, <1>6

(* The steps that touch neither a file nor HEAD, except those that let go. *)
LEMMA BeginsQuiet ==
  ASSUME LInv, NEW p \in Proc, NEW f \in File, Begins(p, f)
  PROVE  \A g \in File : Quiet(g)
<1>1. /\ pc \in [Proc -> Pcs] /\ lock \in [File -> Proc \cup {Nobody}]
      /\ pc'[p] = "locked" /\ \A q \in Proc : q # p => pc'[q] = pc[q]
      /\ lock[f] = Nobody /\ lock'[f] = p /\ \A g \in File : g # f => lock'[g] = lock[g]
  BY Types DEF LInv, Begins
<1>2. \A g \in File : lock[g] # p
  BY LedgerAssumption DEF LInv, Locks, Live, Begins
<1>3. SUFFICES ASSUME NEW g \in File
               PROVE  \A q \in Proc : (lock'[g] = q /\ pc'[q] \in Replacing) <=>
                                      (lock[g] = q /\ pc[q] \in Replacing)
  BY SameSeen DEF Begins, files
<1>4. "locked" \notin Replacing
  BY DEF Replacing, Writing
<1>5. QED
  BY <1>1, <1>2, <1>4, LedgerAssumption

LEMMA GotoQuiet ==
  ASSUME LInv, NEW p \in Proc, NEW l \in Pcs, Goto(p, l), UNCHANGED <<files, lock>>,
         l \in Replacing <=> pc[p] \in Replacing
  PROVE  \A f \in File : Quiet(f)
<1>1. Moved(p, l, job[p])
  BY GotoMoves DEF LInv
<1>2. QED
  BY <1>1, StaysQuiet DEF Moved, files

LEMMA GitEndsQuiet ==
  ASSUME LInv, NEW p \in Proc, git[p] # "none", NEW well \in BOOLEAN, GitEnds(p, well),
         UNCHANGED <<work, head, lock>>
  PROVE  \A f \in File : Quiet(f)
<1>1. pc[p] \in InGit
  BY Types DEF LInv, GitOf, InGit
<1>2. Moved(p, After(p, well), IF pc[p] = "dead" THEN NoJob ELSE job[p])
  BY <1>1, GitEndsMoves DEF LInv
<1>3. Live(p) => After(p, well) \in Replacing /\ pc[p] \in Replacing
  BY <1>1 DEF After, InGit, Live, Replacing, Writing
<1>4. QED
  BY <1>2, <1>3, StaysQuiet DEF Moved

LEMMA GitStepQuiet ==
  ASSUME LInv, NEW p \in Proc, GitStep(p), ~Commits(p)
  PROVE  \A f \in File : Quiet(f)
<1>1. CASE CommitStarts(p) \/ AddStarts(p) \/ CommitLocks(p) \/ AddLocks(p)
  BY <1>1, StaysQuiet DEF CommitStarts, AddStarts, CommitLocks, AddLocks, files
<1>2. CASE GitBusy(p)
  <2>1. git[p] # "none" /\ UNCHANGED <<work, head, lock>>
    BY <1>2 DEF GitBusy, files
  <2>2. CASE GitEnds(p, FALSE)
    BY <2>1, <2>2, GitEndsQuiet
  <2>3. CASE UNCHANGED pc
    BY <2>1, <2>3, StaysQuiet
  <2>4. QED
    BY <1>2, <2>2, <2>3 DEF GitBusy
<1>3. CASE CommitRefused(p)
  BY <1>3, GitEndsQuiet DEF CommitRefused, files
<1>4. CASE CommitUnlocks(p) \/ AddUnlocks(p)
  BY <1>4, GitEndsQuiet DEF CommitUnlocks, AddUnlocks
<1>5. QED
  BY <1>1, <1>2, <1>3, <1>4 DEF GitStep

LEMMA CallStepSeen ==
  ASSUME LInv, NEW p \in Proc, CallStep(p), ~\E t \in Text : Writes(p, t)
  PROVE  OneSeen \/ \A f \in File : Quiet(f)
<1>1. CASE Looks(p)
  BY <1>1, GotoQuiet DEF Looks, Pcs, Replacing, Writing
<1>2. CASE Reads(p)
  <2>1. /\ UNCHANGED <<work, head, lock>> /\ pc[p] = "looked" /\ pc'[p] = "read"
        /\ \A q \in Proc : q # p => pc'[q] = pc[q]
    BY <1>2, Types DEF LInv, Reads, files
  <2>2. QED
    BY <2>1, StaysQuiet DEF Replacing, Writing
<1>3. CASE ChecksStaged(p)
  <2>1. PICK l \in {"returned", "commit2"} : Goto(p, l)
    BY <1>3 DEF ChecksStaged
  <2>2. QED
    BY <1>3, <2>1, GotoQuiet DEF ChecksStaged, Pcs, Replacing, Writing
<1>4. CASE ChecksStatus(p)
  <2>1. PICK l \in {"raised", "returned"} : Goto(p, l)
    BY <1>4 DEF ChecksStatus
  <2>2. QED
    BY <1>4, <2>1, GotoQuiet DEF ChecksStatus, Pcs, Replacing, Writing
<1>5. CASE FindsDirty(p) \/ LeavesUnwritten(p) \/ Returns(p)
  <2>1. Leaves(p) /\ UNCHANGED files /\ Live(p)
    BY <1>5 DEF FindsDirty, LeavesUnwritten, Returns, Live
  <2>2. Moved(p, "idle", NoJob)
    BY <2>1, LeavesMoves DEF LInv
  <2>3. \A f \in File : lock'[f] = IF lock[f] = p THEN Nobody ELSE lock[f]
    BY <2>1, LeavesMoves DEF LInv
  <2>4. QED
    BY <2>1, <2>2, <2>3, LeavingIsSeen DEF Moved, files
<1>6. QED
  BY <1>1, <1>2, <1>3, <1>4, <1>5 DEF CallStep

LEMMA DiesSeen ==
  ASSUME LInv, NEW p \in Proc, Dies(p)
  PROVE  OneSeen \/ \A f \in File : Quiet(f)
<1>1. Live(p) /\ UNCHANGED <<work, head>>
  BY DEF Dies, Live, files
<1>2. \A q \in Proc : q # p => pc'[q] = pc[q]
  <2>1. CASE Leaves(p)
    BY <2>1, LeavesMoves DEF LInv, Moved
  <2>2. CASE ~Leaves(p)
    BY <2>2, Types DEF LInv, Dies
  <2>3. QED
    BY <2>1, <2>2
<1>3. \A f \in File : lock'[f] = IF lock[f] = p THEN Nobody ELSE lock[f]
  BY Types DEF Dies, Leaves
<1>4. QED
  BY <1>1, <1>2, <1>3, LeavingIsSeen

(* The steps that touch one file, on disk or at HEAD, and let nobody in or out. *)
LEMMA OthersQuiet ==
  ASSUME NEW f \in File, UNCHANGED <<lock, pc>>,
         \A g \in File : g # f => work'[g] = work[g] /\ head'[g] = head[g]
  PROVE  /\ \A g \in File : g # f => Quiet(g)
         /\ BeingWritten(f)' <=> BeingWritten(f)
<1>1. \A g \in File : BeingWritten(g)' <=> BeingWritten(g)
  BY DEF BeingWritten
<1>2. QED
  BY <1>1 DEF Quiet, Seen

LEMMA CommitsSeen ==
  ASSUME LInv, NEW p \in Proc, Commits(p)
  PROVE  OneSeen \/ \A f \in File : Quiet(f)
<1>1. FileOf(p) \in File
  <2>1. pc[p] \in InGit
    BY Types DEF LInv, GitOf, InGit, Commits
  <2>2. QED
    BY <2>1 DEF LInv, Locks, Live, InGit
<1>2. PICK f \in File : f = FileOf(p)
  BY <1>1
<1>3. /\ work \in [File -> Content] /\ head \in [File -> Content]
      /\ work' = work /\ head'[f] = work[f]
      /\ \A g \in File : g # f => head'[g] = head[g]
  BY <1>2, Types DEF LInv, Commits
<1>4. /\ \A g \in File : g # f => Quiet(g)
      /\ BeingWritten(f)' <=> BeingWritten(f)
  BY <1>3, OthersQuiet DEF Commits
<1>5. CASE BeingWritten(f)
  <2>1. Seen(f) = head[f] /\ Seen(f)' = head'[f]
    BY <1>4, <1>5 DEF Seen
  <2>2. IsSeen(f)
    BY <1>3, <2>1 DEF IsSeen
  <2>3. QED
    BY <1>4, <2>2 DEF OneSeen
<1>6. CASE ~BeingWritten(f)
  <2>1. Seen(f) = work[f] /\ Seen(f)' = work[f]
    BY <1>3, <1>4, <1>6 DEF Seen
  <2>2. IsSeen(f) \/ Quiet(f)
    BY <1>3, <2>1 DEF IsSeen, Quiet
  <2>3. QED
    BY <1>4, <2>2 DEF OneSeen
<1>7. QED
  BY <1>5, <1>6

LEMMA ForeignSeen ==
  ASSUME LInv, NEW f \in File, ForeignEdit(f)
  PROVE  OneSeen \/ \A g \in File : Quiet(g)
<1>1. /\ work'[f] = Alien /\ head' = head
      /\ \A g \in File : g # f => work'[g] = work[g]
  BY Types DEF LInv, ForeignEdit
<1>2. /\ \A g \in File : g # f => Quiet(g)
      /\ BeingWritten(f)' <=> BeingWritten(f)
  BY <1>1, OthersQuiet DEF ForeignEdit
<1>3. IsSeen(f) \/ Quiet(f)
  BY <1>1, <1>2 DEF IsSeen, Quiet, Seen
<1>4. QED
  BY <1>2, <1>3 DEF OneSeen

LEMMA HumanSeen ==
  ASSUME LInv, NEW f \in File, HumanAccepts(f) \/ HumanRestores(f)
  PROVE  OneSeen \/ \A g \in File : Quiet(g)
<1>1. /\ lock[f] = Nobody /\ lock'[f] = Nobody /\ UNCHANGED <<lock, pc>>
      /\ \A g \in File : g # f => work'[g] = work[g] /\ head'[g] = head[g]
      /\ \/ work'[f] = work[f] /\ head'[f] = work[f]
         \/ work'[f] = head[f] /\ head'[f] = head[f]
  BY Types DEF LInv, HumanAccepts, HumanRestores
<1>2. Seen(f) = work[f] /\ Seen(f)' = work'[f]
  BY <1>1, FreeIsSeen
<1>3. IsSeen(f) \/ Quiet(f)
  BY <1>1, <1>2 DEF IsSeen, Quiet
<1>4. QED
  BY <1>1, <1>3, OthersQuiet DEF OneSeen

(* The replacement of a file is not seen yet; it may hide what somebody else wrote. *)
LEMMA WritesSeen ==
  ASSUME LInv, NEW p \in Proc, NEW t \in Text, Writes(p, t)
  PROVE  OneSeen \/ \A f \in File : Quiet(f)
<1>1. /\ pc \in [Proc -> Pcs] /\ pc[p] = "read" /\ pc' = [pc EXCEPT ![p] = "commit1"]
      /\ Live(p) /\ lock' = lock /\ head' = head
  BY Types DEF LInv, Writes, Live
<1>2. PICK f \in File : f = FileOf(p)
  BY <1>1 DEF LInv, Locks
<1>3. lock[f] = p /\ \A g \in File : g # f => lock[g] # p
  BY <1>1, <1>2, OneOfHolder
<1>4. \A g \in File : g # f => work'[g] = work[g]
  BY <1>2, Types DEF LInv, Writes
<1>5. \A g \in File : g # f => Quiet(g)
  <2>1. SUFFICES ASSUME NEW g \in File, g # f
                 PROVE  \A q \in Proc : (lock'[g] = q /\ pc'[q] \in Replacing) <=>
                                        (lock[g] = q /\ pc[q] \in Replacing)
    BY <1>1, <1>4, SameSeen
  <2>2. QED
    BY <1>1, <1>3, <2>1
<1>6. ~BeingWritten(f)
  BY <1>1, <1>3 DEF BeingWritten, Writing
<1>7. BeingWritten(f)'
  BY <1>1, <1>3 DEF BeingWritten, Writing
<1>8. Seen(f) = work[f] /\ Seen(f)' = head[f]
  BY <1>1, <1>6, <1>7 DEF Seen
<1>9. IsSeen(f) \/ Quiet(f)
  BY <1>1, <1>8 DEF IsSeen, Quiet
<1>10. QED
  BY <1>5, <1>9 DEF OneSeen

LEMMA StepIsSeen ==
  ASSUME LInv, [Next]_vars
  PROVE  OneSeen \/ \A f \in File : Quiet(f)
<1>1. CASE \E p \in Proc : \E f \in File : Begins(p, f)
  BY <1>1, BeginsQuiet
<1>2. CASE \E p \in Proc : GitStep(p)
  BY <1>2, GitStepQuiet, CommitsSeen
<1>3. CASE \E p \in Proc : CallStep(p)
  BY <1>3, CallStepSeen, WritesSeen
<1>4. CASE \E p \in Proc : Dies(p)
  BY <1>4, DiesSeen
<1>5. CASE \E p \in Proc : GitKilled(p)
  BY <1>5, GitEndsQuiet DEF GitKilled, files
<1>6. CASE \E f \in File : ForeignEdit(f) \/ HumanAccepts(f) \/ HumanRestores(f)
  BY <1>6, ForeignSeen, HumanSeen
<1>7. CASE HumanUnlocks \/ UNCHANGED vars
  BY <1>7, SameSeen DEF HumanUnlocks, vars, files
<1>8. QED
  BY <1>1, <1>2, <1>3, <1>4, <1>5, <1>6, <1>7 DEF Next

LEMMA OneIsPromised ==
  ASSUME OneSeen \/ \A f \in File : Quiet(f),
         head \in [File -> Content], head' \in [File -> Content]
  PROVE  [Promise!Next]_<<[f \in File |-> IF BeingWritten(f) THEN head[f] ELSE work[f]], head>>
<1> DEFINE seen == [f \in File |-> Seen(f)]
           seen2 == [f \in File |-> Seen(f)']
<1>1. CASE \A f \in File : Quiet(f)
  <2>1. head' = head /\ seen2 = seen
    BY <1>1 DEF Quiet
  <2>2. QED
    BY <2>1 DEF Seen
<1>2. CASE OneSeen
  <2>1. PICK f \in File : IsSeen(f) /\ \A g \in File : g # f => Quiet(g)
    BY <1>2 DEF OneSeen
  <2>2. /\ seen2 = [seen EXCEPT ![f] = Seen(f)'] /\ seen[f] = Seen(f)
        /\ head' = [head EXCEPT ![f] = head'[f]] /\ (head'[f] = head[f] => head' = head)
    <3>1. /\ \A g \in File : g # f => Seen(g)' = Seen(g)
          /\ \A g \in File : g # f => head'[g] = head[g]
      BY <2>1 DEF Quiet
    <3>2. seen2 = [seen EXCEPT ![f] = Seen(f)'] /\ seen[f] = Seen(f)
      BY <3>1
    <3>3. head' = [head EXCEPT ![f] = head'[f]]
      BY <3>1
    <3>4. head'[f] = head[f] => head' = head
      BY <3>1
    <3>5. QED
      BY <3>2, <3>3, <3>4
  <2>3. CASE Seen(f) = head[f] /\ Seen(f)' = head'[f] /\ head'[f] \in Content
    <3>1. PICK t \in Content : t = head'[f]
      BY <2>3
    <3>2. Promise!Saves(f, t)
      BY <2>2, <2>3, <3>1 DEF Promise!Saves, Promise!Clean, Seen
    <3>3. QED
      BY <3>2 DEF Promise!Next
  <2>4. CASE Seen(f) = head[f] /\ head'[f] = head[f] /\ Seen(f)' \in Content
    <3>1. PICK t \in Content : t = Seen(f)'
      BY <2>4
    <3>2. Promise!Tears(f, t)
      BY <2>2, <2>4, <3>1 DEF Promise!Tears, Promise!Clean, Seen
    <3>3. QED
      BY <3>2 DEF Promise!Next
  <2>5. CASE Seen(f) # head[f] /\ head'[f] = Seen(f) /\ Seen(f)' = Seen(f)
    <3>1. Promise!Accepted(f)
      BY <2>2, <2>5 DEF Promise!Accepted, Promise!Clean, Seen
    <3>2. QED
      BY <3>1 DEF Promise!Next
  <2>6. CASE Seen(f) # head[f] /\ Seen(f)' = head[f] /\ head'[f] = head[f]
    <3>1. Promise!Restored(f)
      BY <2>2, <2>6 DEF Promise!Restored, Promise!Clean, Seen
    <3>2. QED
      BY <3>1 DEF Promise!Next
  <2>7. CASE Seen(f)' = Alien /\ head'[f] = head[f]
    <3>1. Promise!Edited(f)
      BY <2>2, <2>7 DEF Promise!Edited, Seen
    <3>2. QED
      BY <3>1 DEF Promise!Next
  <2>8. QED
    BY <2>1, <2>3, <2>4, <2>5, <2>6, <2>7 DEF IsSeen
<1>3. QED
  BY <1>1, <1>2

LEMMA InitIsSeen ==
  ASSUME Init
  PROVE  Promise!Init
<1>1. \A f \in File : ~BeingWritten(f)
  BY LedgerAssumption DEF Init, BeingWritten
<1>2. [f \in File |-> IF BeingWritten(f) THEN head[f] ELSE work[f]] = [f \in File |-> work[f]]
  BY <1>1
<1>3. work = [f \in File |-> work[f]] /\ work \in [File -> Content] /\ head = work
  BY DEF Init, Content
<1>4. QED
  BY <1>2, <1>3 DEF Promise!Init

(***************************************************************************)
(* The ledger keeps the promise of Witness that the other modules rely on: *)
(* with the files that are being written as they are at HEAD, every step   *)
(* saves, tears, accepts, restores or edits one file, or is not seen.      *)
(***************************************************************************)
THEOREM WitnessKept == Spec => ImplementsWitness
<1>1. LInv /\ LInv' /\ [Next]_vars =>
        [Promise!Next]_<<[f \in File |-> IF BeingWritten(f) THEN head[f] ELSE work[f]], head>>
  <2>1. LInv /\ LInv' => head \in [File -> Content] /\ head' \in [File -> Content]
    BY DEF LInv, TypeOK
  <2>2. QED
    BY <2>1, StepIsSeen, OneIsPromised
<1> QED
  BY <1>1, InitIsSeen, LedgerInvariant, PTL DEF Spec, ImplementsWitness, Promise!Spec
=============================================================================
