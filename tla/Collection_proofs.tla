-------------------------- MODULE Collection_proofs --------------------------
(***************************************************************************)
(* Collecting an answer is safe for any number of invocations, collectors, *)
(* bystanders, answers and faults: the invariants of Collection, and its   *)
(* promise Adoption.                                                       *)
(***************************************************************************)
EXTENDS Collection, TLAPS

(***************************************************************************)
(* How copies of one record compare.  The overlay looks at epoch and state *)
(* only, so it may replace the whole of a record by a copy that is equal   *)
(* in those: what matters of the rest has to be equal, too.                *)
(***************************************************************************)
Agree(a, b) ==
  a.state = b.state /\ a.epoch = b.epoch =>
    a.digest = b.digest /\ (a.state = "failed" => a.detail = b.detail)

Behind(a, b) == a = NoRec \/ (NotNewer(a, b) /\ Agree(a, b))

Same(a, b) ==
  /\ a # NoRec /\ b # NoRec
  /\ a.state = b.state /\ a.epoch = b.epoch /\ a.digest = b.digest
  /\ a.state = "failed" => a.detail = b.detail

(* One set_state under the lock leads from the record h to r. *)
Advanced(h, r) ==
  /\ r # NoRec /\ r.epoch = h.epoch
  /\ h.state \notin Terminal /\ TransitionAllowed(h.state, r.state) /\ Agree(h, r)
  /\ r.state = "failed" => r.detail # "wait"

(* reopen_wait_failure does it with a new epoch. *)
Reopening(h, r) == Reopenable(h) /\ r = Reopened(h)

-----------------------------------------------------------------------------
InCommand == {"loaded", "sending", "tmp", "found", "read", "merge", "merged", "save"}

(* A command holds the lock of its invocation, and no other, until it leaves. *)
Locks ==
  /\ \A i \in Inv : lock[i] # Nobody => pc[lock[i]] \in InCommand /\ TargetOf(lock[i]) = i
  /\ \A p \in Collector : pc[p] # "snapshot"
  /\ \A p \in Collector : pc[p] \in InCommand => TargetOf(p) \in Inv /\ lock[TargetOf(p)] = p
  /\ \A p \in Collector : pc[p] = "ok" => TargetOf(p) \in Inv
  /\ \A p \in Bystander : pc[p] \in {"idle", "snapshot"}

(* What a death leaves between write and commit concerns one record, and *)
(* nobody works on it; in the minutes, it is one new section.            *)
HalfSaved(i)  == ~Same(journal.head[i], journal.work[i])
HalfMerged(i) == minutes.work[i] # minutes.head[i]

HalfDone ==
  /\ \A i \in Inv : HalfSaved(i) =>
       /\ lock[i] = Nobody
       /\ Advanced(journal.head[i], journal.work[i]) \/ Reopening(journal.head[i], journal.work[i])
  /\ \A i, j \in Inv : HalfSaved(i) /\ HalfSaved(j) => i = j
  /\ \A i \in Inv : HalfMerged(i) => minutes.head[i] = <<>>
  /\ \A i, j \in Inv : HalfMerged(i) /\ HalfMerged(j) => i = j

(* A record against the work tree w and the HEAD m of its minutes. *)
Backed(r, w, m) ==
  /\ w # <<>> => r.state \in {"validated", "merged"} /\ w = <<r.digest>>
  /\ r.state = "merged" => m = <<r.digest>>
  /\ r.state = "validated" => r.digest # None

Books ==
  \A i \in Inv : /\ Backed(journal.head[i], minutes.work[i], minutes.head[i])
                 /\ Backed(journal.work[i], minutes.work[i], minutes.head[i])

(* What the holder of the lock knows at l of its record: that its copy r is *)
(* the one at HEAD, h, or leads on from it; what is in the minutes, w at    *)
(* HEAD m; and that d is the hash in hand.                                  *)
Knows(l, r, h, w, m, d, next) ==
  /\ l # "save" => Same(r, h)
  /\ l = "sending" => r.state = "prepared"
  /\ l \in {"tmp", "found", "read", "merge"} => r.state \notin Terminal /\ w = <<>>
  /\ l \in {"merge", "merged"} => r.state = "validated" /\ r.digest = d
  /\ l = "merged" => m = <<d>>
  /\ l = "save" =>
       /\ Advanced(h, r) /\ Backed(r, w, m)
       /\ next \in {"idle", "ok", "read", "merge"}
       /\ next = "ok" => r.state = "merged"
       /\ next = "read" => r.state \notin Terminal
       /\ next = "merge" => r.state = "validated" /\ r.digest = d
       /\ next \in {"read", "merge"} => w = <<>>

HolderKnows(p) ==
  Knows(pc[p], RecOf(p), journal.head[TargetOf(p)], minutes.work[TargetOf(p)],
        minutes.head[TargetOf(p)], job[p].data, job[p].next)

(* No snapshot is ahead of what is committed, but for the record its holder  *)
(* is about to save; the holder knows its record; success is on record.      *)
InStep(p) ==
  /\ \A i \in Inv : ~(pc[p] = "save" /\ TargetOf(p) = i) => Behind(mem[p][i], journal.head[i])
  /\ p \in Collector /\ pc[p] \in InCommand => HolderKnows(p)
  /\ p \in Collector /\ pc[p] = "ok" => journal.head[TargetOf(p)].state = "merged"

CInv == TypeOK /\ Locks /\ HalfDone /\ Books /\ \A p \in Proc : InStep(p)

-----------------------------------------------------------------------------
(* The transition relation orders the states. *)
LEMMA TransitionsOrder ==
  /\ \A a \in State : TransitionAllowed(a, a)
  /\ \A a, b \in State : TransitionAllowed(a, b) /\ TransitionAllowed(b, a) => a = b
  /\ \A a, b, c \in State :
       TransitionAllowed(a, b) /\ TransitionAllowed(b, c) => TransitionAllowed(a, c)
BY DEF TransitionAllowed, State, Terminal, ForwardIndex

(* Facts about a field of a record, for the provers. *)
LEMMA RecFields ==
  ASSUME NEW r \in Rec
  PROVE  r # NoRec /\ r.state \in State /\ r.epoch \in Nat /\ r.digest \in Digest \cup {None}
         /\ r.detail \in Detail
BY NoRecAssumption DEF Rec

LEMMA BehindTransitive ==
  ASSUME NEW a \in Rec \cup {NoRec}, NEW b \in Rec, NEW c \in Rec, Behind(a, b), Behind(b, c)
  PROVE  Behind(a, c)
BY RecFields, TransitionsOrder DEF Behind, NotNewer, Agree

LEMMA SameIsBehind ==
  ASSUME NEW a \in Rec, NEW b \in Rec, Same(a, b)
  PROVE  Behind(a, b) /\ Behind(b, a)
BY RecFields, TransitionsOrder DEF Behind, NotNewer, Agree, Same

LEMMA AdvancedIsAhead ==
  ASSUME NEW h \in Rec, NEW r \in Rec, Advanced(h, r)
  PROVE  Behind(h, r)
BY RecFields DEF Behind, NotNewer, Agree, Advanced

(* The overlay of a copy that is behind changes nothing that matters ... *)
LEMMA OverlayKeeps ==
  ASSUME NEW d \in Rec, NEW l \in Rec \cup {NoRec}, Behind(l, d)
  PROVE  MergeRec(d, l) \in Rec /\ Same(d, MergeRec(d, l))
<1>1. CASE MergeRec(d, l) = d
  BY <1>1, RecFields DEF Same
<1>2. CASE MergeRec(d, l) = l /\ l # NoRec /\ NotNewer(d, l)
  BY <1>2, RecFields, TransitionsOrder DEF Same, Behind, NotNewer, Agree
<1>3. QED
  BY <1>1, <1>2 DEF MergeRec

(* ... and that of a set_state is taken. *)
LEMMA OverlayTakes ==
  ASSUME NEW d \in Rec, NEW l \in Rec, Advanced(d, l)
  PROVE  MergeRec(d, l) = l
BY RecFields DEF MergeRec, NotNewer, Advanced

LEMMA OverlayType ==
  ASSUME NEW d \in Rec, NEW l \in Rec \cup {NoRec}
  PROVE  MergeRec(d, l) \in Rec
BY DEF MergeRec

-----------------------------------------------------------------------------
(* What the type invariant says of the parts the proofs take apart. *)
LEMMA Parts ==
  ASSUME TypeOK
  PROVE  /\ journal = [work |-> journal.work, head |-> journal.head, foreign |-> journal.foreign]
         /\ minutes = [work |-> minutes.work, head |-> minutes.head, foreign |-> minutes.foreign]
         /\ journal.foreign \in BOOLEAN /\ minutes.foreign \in BOOLEAN
         /\ journal.work \in [Inv -> Rec] /\ journal.head \in [Inv -> Rec]
         /\ minutes.work \in [Inv -> Seq(Digest)] /\ minutes.head \in [Inv -> Seq(Digest)]
         /\ \A i \in Inv : journal.work[i] \in Rec /\ journal.head[i] \in Rec
         /\ \A p \in Proc, i \in Inv : mem[p][i] \in Rec \cup {NoRec}
BY DEF TypeOK, File

LEMMA RefreshedType ==
  ASSUME TypeOK, NEW p \in Proc
  PROVE  /\ Refreshed(p) \in [Inv -> Rec]
         /\ \A i \in Inv : Refreshed(p)[i] = MergeRec(journal.work[i], mem[p][i])
BY Parts, OverlayType DEF Refreshed, Overlay

LEMMA CommittedType ==
  ASSUME NEW S, NEW w \in S
  PROVE  /\ Committed(w) \in File(S)
         /\ Committed(w).work = w /\ Committed(w).head = w /\ Committed(w).foreign = FALSE
BY DEF Committed, File

(* The changes of set_state. *)
Change == [detail : Detail, digest : Digest \cup {None}]

LEMMA ChangedType ==
  ASSUME NEW r \in Rec, NEW s \in State, NEW change \in Change
  PROVE  /\ Changed(r, s, change) \in Rec
         /\ Changed(r, s, change).state = s /\ Changed(r, s, change).detail = change.detail
         /\ Changed(r, s, change).epoch = r.epoch
         /\ Changed(r, s, change).digest = IF change.digest = None THEN r.digest ELSE change.digest
BY DEF Changed, Change, Rec

(* set_state up to its save, in terms of the record it changes. *)
LEMMA StageFacts ==
  ASSUME TypeOK, NEW p \in Proc, TargetOf(p) \in Inv, NEW s \in State, NEW change \in Change,
         NEW m \in Pc, Stage(p, s, change, m)
  PROVE  /\ ~Dirty(journal)
         /\ TransitionAllowed(Refreshed(p)[TargetOf(p)].state, s)
         /\ mem' = [mem EXCEPT ![p] =
                      [Refreshed(p) EXCEPT ![TargetOf(p)] =
                         Changed(Refreshed(p)[TargetOf(p)], s, change)]]
         /\ pc' = [pc EXCEPT ![p] = "save"]
         /\ job' \in [Proc -> [inv : Inv \cup {None}, cmd : Command, data : Content,
                               tmp : BOOLEAN, next : Pc]]
         /\ \A q \in Proc : q # p => job'[q] = job[q]
         /\ job'[p].inv = job[p].inv /\ job'[p].next = m
         /\ job'[p].data = IF change.digest = None THEN job[p].data ELSE change.digest
         /\ UNCHANGED <<journal, minutes, scratch, lock, dispatched, faults>>
<1>1. /\ ~Dirty(journal)
      /\ TransitionAllowed(Refreshed(p)[TargetOf(p)].state, s)
      /\ pc' = [pc EXCEPT ![p] = "save"]
      /\ UNCHANGED <<journal, minutes, scratch, lock, dispatched, faults>>
      /\ job' = [job EXCEPT ![p].next = m,
                            ![p].data = IF change.digest = None THEN job[p].data
                                      ELSE change.digest]
  BY DEF Stage, Goto
<1>2. mem' = [mem EXCEPT ![p] =
                [Refreshed(p) EXCEPT ![TargetOf(p)] =
                   Changed(Refreshed(p)[TargetOf(p)], s, change)]]
  BY DEF Stage
<1> DEFINE d == IF change.digest = None THEN job[p].data ELSE change.digest
           Job == [inv : Inv \cup {None}, cmd : Command, data : Content, tmp : BOOLEAN, next : Pc]
<1>3. job' \in [Proc -> Job]
  <2>1. job \in [Proc -> Job]
    BY DEF TypeOK
  <2>2. d \in Content
    BY DEF TypeOK, Change, Content
  <2>3. job' = [job EXCEPT ![p].next = m, ![p].data = d]
    BY <1>1
  <2> HIDE DEF d
  <2>4. QED
    BY <2>1, <2>2, <2>3
<1>4. /\ \A q \in Proc : q # p => job'[q] = job[q]
      /\ job'[p].inv = job[p].inv /\ job'[p].next = m
      /\ job'[p].data = IF change.digest = None THEN job[p].data ELSE change.digest
  BY <1>1 DEF TypeOK
<1>5. QED
  BY <1>1, <1>2, <1>3, <1>4

-----------------------------------------------------------------------------
(* Between two saves a snapshot refreshes to what is committed. *)
LEMMA RefreshedIsCurrent ==
  ASSUME CInv, NEW p \in Proc, ~Dirty(journal), pc[p] # "save"
  PROVE  /\ Refreshed(p) \in [Inv -> Rec]
         /\ journal.work = journal.head
         /\ \A i \in Inv : Same(journal.head[i], Refreshed(p)[i])
<1>1. journal.work = journal.head
  BY DEF Dirty
<1>2. \A i \in Inv : Behind(mem[p][i], journal.head[i])
  BY DEF CInv, InStep
<1>3. TypeOK
  BY DEF CInv
<1>4. QED
  BY <1>1, <1>2, <1>3, Parts, RefreshedType, OverlayKeeps

(***************************************************************************)
(* A step of p, or of none of the processes, that leaves the others alone: *)
(* no record goes back, and one that another process holds stays the same. *)
(***************************************************************************)
Kept(w, m, w2, m2) ==
  /\ w2 = w \/ (w2 = <<>> /\ m = <<>>)
  /\ m # <<>> => m2 = m

MinutesKept(i) == Kept(minutes.work[i], minutes.head[i], minutes.work'[i], minutes.head'[i])

Undisturbed(p) ==
  /\ \A q \in Proc : q # p => pc'[q] = pc[q] /\ job'[q] = job[q] /\ mem'[q] = mem[q]
  /\ \A i \in Inv :
       /\ Behind(journal.head[i], journal.head'[i])
       /\ journal.head[i].state = "merged" => journal.head'[i].state = "merged"
       /\ lock[i] \notin {p, Nobody} =>
            Same(journal.head[i], journal.head'[i]) /\ MinutesKept(i)

LEMMA SameAdvances ==
  ASSUME NEW h \in Rec, NEW k \in Rec, NEW r \in Rec \cup {NoRec}, Same(h, k)
  PROVE  /\ Advanced(h, r) => Advanced(k, r)
         /\ Same(r, h) => Same(r, k)
BY RecFields DEF Same, Advanced, Agree, Terminal

LEMMA KnowsStays ==
  ASSUME NEW h \in Rec, NEW k \in Rec, NEW r \in Rec \cup {NoRec}, Same(h, k),
         NEW l, NEW d, NEW n, NEW w, NEW m, NEW w2, NEW m2, Kept(w, m, w2, m2),
         Knows(l, r, h, w, m, d, n)
  PROVE  Knows(l, r, k, w2, m2, d, n)
<1>1. /\ Advanced(h, r) => Advanced(k, r)
      /\ Same(r, h) => Same(r, k)
  BY SameAdvances
<1>2. Backed(r, w, m) => Backed(r, w2, m2)
  BY DEF Backed, Kept
<1>3. QED
  BY <1>1, <1>2 DEF Knows, Kept

LEMMA OthersInStep ==
  ASSUME CInv, TypeOK', NEW p, Undisturbed(p), NEW q \in Proc, q # p
  PROVE  InStep(q)'
<1> DEFINE i == TargetOf(q)
<1>1. /\ pc'[q] = pc[q] /\ job'[q] = job[q] /\ mem'[q] = mem[q]
      /\ TargetOf(q)' = TargetOf(q)
  BY DEF Undisturbed, TargetOf
<1>2. /\ \A j \in Inv : journal.head[j] \in Rec /\ journal.head'[j] \in Rec
      /\ \A j \in Inv : mem[q][j] \in Rec \cup {NoRec}
  <2>1. TypeOK
    BY DEF CInv
  <2>2. QED
    BY <2>1, Parts DEF TypeOK, File
<1>3. \A j \in Inv : ~(pc'[q] = "save" /\ TargetOf(q)' = j) => Behind(mem'[q][j], journal.head'[j])
  BY <1>1, <1>2, BehindTransitive DEF CInv, InStep, Undisturbed
<1>4. ASSUME q \in Collector, pc[q] \in InCommand
      PROVE  HolderKnows(q)'
  <2>1. i \in Inv /\ lock[i] = q /\ lock[i] # Nobody
    BY <1>4, CollectionAssumption DEF CInv, Locks
  <2>2. Same(journal.head[i], journal.head'[i]) /\ MinutesKept(i)
    BY <2>1 DEF Undisturbed
  <2>3. HolderKnows(q)
    BY <1>4 DEF CInv, InStep
  <2>4. RecOf(q)' = RecOf(q) /\ RecOf(q) \in Rec \cup {NoRec}
    BY <1>1, <1>2, <2>1 DEF RecOf
  <2>5. Knows(pc[q], RecOf(q), journal.head'[i], minutes.work'[i], minutes.head'[i],
              job[q].data, job[q].next)
    BY <1>2, <2>1, <2>2, <2>3, <2>4, KnowsStays DEF HolderKnows, MinutesKept
  <2>6. QED
    BY <1>1, <2>4, <2>5 DEF HolderKnows
<1>5. ASSUME q \in Collector, pc[q] = "ok"
      PROVE  journal.head'[TargetOf(q)'].state = "merged"
  BY <1>1, <1>5 DEF CInv, InStep, Undisturbed, Locks
<1>6. QED
  BY <1>1, <1>3, <1>4, <1>5 DEF InStep

(* As long as it writes neither journal nor minutes. *)
LEMMA NothingWritten ==
  ASSUME TypeOK, NEW p, UNCHANGED <<journal, minutes>>,
         \A q \in Proc : q # p => pc'[q] = pc[q] /\ job'[q] = job[q] /\ mem'[q] = mem[q]
  PROVE  Undisturbed(p)
<1>1. \A i \in Inv : journal.head[i] \in Rec
  BY Parts
<1>2. \A i \in Inv : Same(journal.head[i], journal.head[i])
  BY <1>1, RecFields DEF Same
<1>3. QED
  BY <1>1, <1>2, SameIsBehind DEF Undisturbed, MinutesKept, Kept

LEMMA StageStep ==
  ASSUME CInv, NEW p \in Collector, pc[p] \in InCommand, pc[p] # "save",
         NEW s \in State, NEW change \in Change, NEW m \in {"idle", "ok", "read", "merge"},
         Stage(p, s, change, m),
         NEW d, d = IF change.digest = None THEN RecOf(p).digest ELSE change.digest,
         RecOf(p).state \notin Terminal,
         s = "failed" => change.detail # "wait",
         s = RecOf(p).state => d = RecOf(p).digest,
         minutes.work[TargetOf(p)] # <<>> =>
           s \in {"validated", "merged"} /\ minutes.work[TargetOf(p)] = <<d>>,
         s = "merged" => minutes.head[TargetOf(p)] = <<d>>,
         s = "validated" => d # None,
         m = "ok" => s = "merged",
         m = "read" => s \notin Terminal,
         m = "merge" => s = "validated" /\ change.digest # None,
         m \in {"read", "merge"} => minutes.work[TargetOf(p)] = <<>>
  PROVE  CInv'
<1> DEFINE i == TargetOf(p)
           old == Refreshed(p)[i]
           r == Changed(old, s, change)
           h == journal.head[i]
<1>1. TypeOK /\ p \in Proc /\ i \in Inv /\ lock[i] = p /\ m \in Pc
  BY DEF CInv, Locks, Proc, Pc
<1>2. /\ ~Dirty(journal)
      /\ TransitionAllowed(old.state, s)
      /\ mem' = [mem EXCEPT ![p] = [Refreshed(p) EXCEPT ![i] = r]]
      /\ pc' = [pc EXCEPT ![p] = "save"]
      /\ job' \in [Proc -> [inv : Inv \cup {None}, cmd : Command, data : Content,
                            tmp : BOOLEAN, next : Pc]]
      /\ \A q \in Proc : q # p => job'[q] = job[q]
      /\ job'[p].inv = job[p].inv /\ job'[p].next = m
      /\ job'[p].data = IF change.digest = None THEN job[p].data ELSE change.digest
      /\ UNCHANGED <<journal, minutes, scratch, lock, dispatched, faults>>
  BY <1>1, StageFacts
<1>3. /\ Refreshed(p) \in [Inv -> Rec] /\ journal.work = journal.head
      /\ \A j \in Inv : Same(journal.head[j], Refreshed(p)[j])
  BY <1>1, <1>2, RefreshedIsCurrent
<1>4. /\ h \in Rec /\ old \in Rec /\ Same(h, old) /\ Same(RecOf(p), h)
      /\ RecOf(p) \in Rec \cup {NoRec}
  <2>1. h \in Rec /\ RecOf(p) \in Rec \cup {NoRec}
    BY <1>1, Parts DEF RecOf
  <2>2. old \in Rec /\ Same(h, old)
    BY <1>1, <1>3
  <2>3. HolderKnows(p)
    BY <1>1 DEF CInv, InStep
  <2>4. QED
    BY <2>1, <2>2, <2>3 DEF HolderKnows, Knows
<1>5. /\ r \in Rec /\ r.state = s /\ r.detail = change.detail /\ r.epoch = old.epoch
      /\ r.digest = d
  BY <1>4, ChangedType DEF Same
<1> HIDE DEF r, old
<1>6. Advanced(h, r)
  BY <1>2, <1>4, <1>5, RecFields DEF Advanced, Same, Agree, Terminal
<1>7. Backed(r, minutes.work[i], minutes.head[i])
  BY <1>5 DEF Backed
<1>8. TypeOK'
  <2>1. mem' \in [Proc -> [Inv -> Rec \cup {NoRec}]]
    BY <1>1, <1>2, <1>3, <1>5 DEF TypeOK
  <2>2. QED
    BY <1>1, <1>2, <2>1 DEF TypeOK, Pc
<1>9. Locks'
  BY <1>1, <1>2 DEF CInv, TypeOK, Locks, TargetOf, InCommand, Proc
<1>10. HalfDone' /\ Books'
  BY <1>1, <1>2 DEF CInv, TypeOK, HalfDone, HalfSaved, HalfMerged, Books
<1>11. InStep(p)'
  <2>1. \A j \in Inv : j # i => Behind(mem'[p][j], journal.head'[j])
    BY <1>1, <1>2, <1>3, SameIsBehind, Parts DEF TypeOK
  <2>2. /\ pc'[p] = "save" /\ TargetOf(p)' = i /\ RecOf(p)' = r /\ journal' = journal
        /\ minutes' = minutes
    BY <1>1, <1>2, <1>3 DEF TypeOK, TargetOf, RecOf
  <2>3. HolderKnows(p)'
    BY <1>2, <1>5, <1>6, <1>7, <2>2 DEF HolderKnows, Knows
  <2>4. QED
    BY <2>1, <2>2, <2>3 DEF InStep
<1>12. Undisturbed(p)
  BY <1>1, <1>2, NothingWritten DEF TypeOK
<1>13. QED
  BY <1>8, <1>9, <1>10, <1>11, <1>12, OthersInStep DEF CInv

-----------------------------------------------------------------------------
(* Steps that write neither file. *)
LEMMA FilesAsBefore ==
  ASSUME CInv, UNCHANGED <<journal, minutes>>,
         \A i \in Inv : lock'[i] \in {lock[i], Nobody} \/ ~Dirty(journal)
  PROVE  HalfDone' /\ Books'
<1>1. TypeOK /\ HalfDone /\ Books
  BY DEF CInv
<1>2. ~Dirty(journal) => \A i \in Inv : Same(journal.head[i], journal.work[i])
  BY <1>1, Parts, RecFields DEF Dirty, Same
<1>3. HalfDone'
  BY <1>1, <1>2 DEF HalfDone, HalfSaved, HalfMerged
<1>4. QED
  BY <1>1, <1>3 DEF Books

(* Leaving frees the lock and forgets the snapshot. *)
LEMMA LeaveFacts ==
  ASSUME CInv, NEW p \in Proc, NEW m \in {"idle", "ok"}, Leave(p, m),
         m = "ok" => /\ p \in Collector /\ TargetOf(p) \in Inv
                     /\ journal.head'[TargetOf(p)].state = "merged"
  PROVE  /\ lock' \in [Inv -> Collector \cup {Nobody}]
         /\ mem' \in [Proc -> [Inv -> Rec \cup {NoRec}]]
         /\ pc' \in [Proc -> Pc]
         /\ job' \in [Proc -> [inv : Inv \cup {None}, cmd : Command, data : Content,
                               tmp : BOOLEAN, next : Pc]]
         /\ \A q \in Proc : q # p => pc'[q] = pc[q] /\ job'[q] = job[q] /\ mem'[q] = mem[q]
         /\ \A i \in Inv : lock'[i] = IF lock[i] = p THEN Nobody ELSE lock[i]
         /\ Locks' /\ InStep(p)'
<1>1. TypeOK /\ Locks
  BY DEF CInv
<1>2. /\ lock' \in [Inv -> Collector \cup {Nobody}]
      /\ \A i \in Inv : lock'[i] = IF lock[i] = p THEN Nobody ELSE lock[i]
  BY <1>1 DEF Leave, TypeOK
<1>3. mem' \in [Proc -> [Inv -> Rec \cup {NoRec}]] /\ mem'[p] = NoRecords
  BY <1>1 DEF Leave, TypeOK, NoRecords
<1>4. pc' \in [Proc -> Pc] /\ pc'[p] = m
  BY <1>1 DEF Leave, Goto, TypeOK, Pc
<1>5. /\ job' \in [Proc -> [inv : Inv \cup {None}, cmd : Command, data : Content,
                            tmp : BOOLEAN, next : Pc]]
      /\ m = "ok" => job'[p] = job[p]
  BY <1>1 DEF Leave, TypeOK, NoJob, Command, Content, Pc
<1>6. \A q \in Proc : q # p => pc'[q] = pc[q] /\ job'[q] = job[q] /\ mem'[q] = mem[q]
  BY <1>1 DEF Leave, Goto, TypeOK
<1>7. Locks'
  <2>1. \A i \in Inv : lock'[i] # Nobody => lock[i] # p /\ lock[i] # Nobody /\ lock'[i] = lock[i]
    BY <1>2
  <2>2. \A i \in Inv : lock[i] # Nobody => lock[i] \in Proc
    BY <1>1 DEF TypeOK, Proc
  <2>3. \A i \in Inv : lock'[i] # Nobody =>
          pc'[lock'[i]] \in InCommand /\ TargetOf(lock[i])' = i
    BY <1>1, <1>6, <2>1, <2>2 DEF Locks, TargetOf
  <2>4. \A q \in Proc : q # p => TargetOf(q)' = TargetOf(q)
    BY <1>6 DEF TargetOf
  <2>5. m \notin InCommand /\ (m = "ok" => TargetOf(p)' = TargetOf(p))
    BY <1>5 DEF InCommand, TargetOf
  <2>6. \A q \in Collector : pc'[q] \in InCommand => TargetOf(q)' \in Inv /\ lock'[TargetOf(q)'] = q
    BY <1>1, <1>2, <1>4, <1>6, <2>4, <2>5 DEF Locks, Proc
  <2>7. /\ \A q \in Collector : pc'[q] # "snapshot"
        /\ \A q \in Collector : pc'[q] = "ok" => TargetOf(q)' \in Inv
        /\ \A q \in Bystander : pc'[q] \in {"idle", "snapshot"}
    BY <1>1, <1>4, <1>6, <2>4, <2>5, CollectionAssumption DEF Locks, Proc
  <2>8. QED
    BY <2>1, <2>3, <2>6, <2>7 DEF Locks, TargetOf
<1>8. InStep(p)'
  BY <1>3, <1>4, <1>5 DEF InStep, Behind, NoRecords, InCommand, TargetOf
<1>9. QED
  BY <1>2, <1>3, <1>4, <1>5, <1>6, <1>7, <1>8

(* A return, an abort or a death, or success under a merged record. *)
LEMMA LeaveStep ==
  ASSUME CInv, NEW p \in Proc, NEW m \in {"idle", "ok"}, Leave(p, m),
         UNCHANGED <<journal, minutes, scratch, dispatched>>, faults' \in 0..MaxFault,
         m = "ok" => /\ p \in Collector /\ TargetOf(p) \in Inv
                     /\ journal.head[TargetOf(p)].state = "merged"
  PROVE  CInv'
<1>1. /\ lock' \in [Inv -> Collector \cup {Nobody}]
      /\ mem' \in [Proc -> [Inv -> Rec \cup {NoRec}]]
      /\ pc' \in [Proc -> Pc]
      /\ job' \in [Proc -> [inv : Inv \cup {None}, cmd : Command, data : Content,
                            tmp : BOOLEAN, next : Pc]]
      /\ \A q \in Proc : q # p => pc'[q] = pc[q] /\ job'[q] = job[q] /\ mem'[q] = mem[q]
      /\ \A i \in Inv : lock'[i] = IF lock[i] = p THEN Nobody ELSE lock[i]
      /\ Locks' /\ InStep(p)'
  BY LeaveFacts
<1>2. TypeOK'
  BY <1>1 DEF CInv, TypeOK
<1>3. Undisturbed(p)
  BY <1>1, NothingWritten DEF CInv
<1>4. HalfDone' /\ Books'
  BY <1>1, FilesAsBefore
<1>5. QED
  BY <1>1, <1>2, <1>3, <1>4, OthersInStep DEF CInv

(* The lock is taken and the journal loaded. *)
LEMMA BeginStep ==
  ASSUME CInv, NEW p \in Collector, NEW i \in Inv, NEW c \in Command, Begin(p, i, c)
  PROVE  CInv'
<1>1. TypeOK /\ Locks /\ p \in Proc
  BY DEF CInv, Proc
<1>2. /\ pc[p] = "idle" /\ lock[i] = Nobody /\ ~Dirty(journal)
      /\ lock' = [lock EXCEPT ![i] = p] /\ mem' = [mem EXCEPT ![p] = journal.work]
      /\ job' = [job EXCEPT ![p] = [NoJob EXCEPT !.inv = i, !.cmd = c]]
      /\ pc' = [pc EXCEPT ![p] = "loaded"]
      /\ UNCHANGED <<journal, minutes, scratch, faults>>
      /\ dispatched' \in {dispatched, dispatched \cup {i}}
  BY DEF Begin, Goto
<1>3. [NoJob EXCEPT !.inv = i, !.cmd = c] \in
        [inv : Inv \cup {None}, cmd : Command, data : Content, tmp : BOOLEAN, next : Pc]
  BY DEF NoJob, Content, Pc
<1>4. TypeOK'
  BY <1>1, <1>2, <1>3, Parts DEF TypeOK, Pc
<1>5. pc'[p] = "loaded" /\ job'[p].inv = i /\ mem'[p] = journal.work /\ lock'[i] = p
  BY <1>1, <1>2 DEF TypeOK, NoJob
<1>6. /\ \A q \in Proc : q # p => pc'[q] = pc[q] /\ job'[q] = job[q] /\ mem'[q] = mem[q]
      /\ \A j \in Inv : j # i => lock'[j] = lock[j]
  BY <1>1, <1>2 DEF TypeOK
<1>7. Locks'
  BY <1>1, <1>2, <1>5, <1>6, CollectionAssumption DEF Locks, TargetOf, TypeOK, Proc, InCommand
<1>8. Undisturbed(p)
  BY <1>1, <1>2, <1>6, NothingWritten
<1>9. HalfDone' /\ Books'
  BY <1>2, FilesAsBefore
<1>10. InStep(p)'
  <2>1. \A j \in Inv : Same(mem'[p][j], journal.head'[j]) /\ Behind(mem'[p][j], journal.head'[j])
    BY <1>1, <1>2, <1>5, Parts, RecFields, SameIsBehind DEF Same, Dirty
  <2>2. HolderKnows(p)'
    BY <1>5, <2>1 DEF HolderKnows, Knows, RecOf, TargetOf
  <2>3. QED
    BY <1>5, <2>1, <2>2 DEF InStep
<1>11. QED
  BY <1>1, <1>4, <1>7, <1>8, <1>9, <1>10, OthersInStep DEF CInv

(* What a command works on. *)
Job == [inv : Inv \cup {None}, cmd : Command, data : Content, tmp : BOOLEAN, next : Pc]

LEMMA TakesInHand ==
  ASSUME TypeOK, NEW p \in Proc, NEW d \in Content, NEW t \in BOOLEAN,
         job' = [job EXCEPT ![p].data = d, ![p].tmp = t]
  PROVE  /\ job' \in [Proc -> Job]
         /\ job'[p].inv = job[p].inv /\ job'[p].next = job[p].next
         /\ \A q \in Proc : q # p => job'[q] = job[q]
<1>1. job \in [Proc -> Job]
  BY DEF TypeOK, Job
<1>2. QED
  BY <1>1 DEF Job

(* The command goes on: a next place, perhaps something else in hand. *)
LEMMA GoStep ==
  ASSUME CInv, NEW p \in Collector, pc[p] \in InCommand \ {"save"},
         NEW l \in InCommand \ {"save"}, pc' = [pc EXCEPT ![p] = l],
         job' \in [Proc -> Job], job'[p].inv = job[p].inv, job'[p].next = job[p].next,
         \A q \in Proc : q # p => job'[q] = job[q],
         UNCHANGED <<journal, minutes, scratch, lock, mem, dispatched, faults>>,
         l = "sending" => RecOf(p).state = "prepared",
         l \notin {"loaded", "sending"} =>
           RecOf(p).state \notin Terminal /\ minutes.work[TargetOf(p)] = <<>>,
         l \notin {"merge", "merged"}
  PROVE  CInv'
<1>1. TypeOK /\ Locks /\ p \in Proc
  BY DEF CInv, Proc
<1>2. TypeOK'
  <2>1. pc' \in [Proc -> Pc]
    BY <1>1 DEF TypeOK, InCommand, Pc
  <2>2. QED
    BY <1>1, <2>1 DEF TypeOK, Job
<1>3. /\ pc'[p] = l /\ job'[p].inv = job[p].inv /\ job'[p].next = job[p].next
      /\ \A q \in Proc : q # p => pc'[q] = pc[q] /\ job'[q] = job[q] /\ mem'[q] = mem[q]
  BY <1>1 DEF TypeOK
<1>4. Locks'
  <2>1. \A q \in Proc : TargetOf(q)' = TargetOf(q)
    BY <1>3 DEF TargetOf
  <2>2. \A q \in Proc : /\ pc'[q] \in InCommand <=> pc[q] \in InCommand
                        /\ q # p => pc'[q] = pc[q]
    BY <1>3
  <2>3. pc'[p] # "snapshot" /\ pc'[p] # "ok"
    BY <1>3 DEF InCommand
  <2>4. \A i \in Inv : lock[i] # Nobody => lock[i] \in Proc
    BY <1>1 DEF TypeOK, Proc
  <2>5. \A i \in Inv : lock'[i] # Nobody => pc'[lock'[i]] \in InCommand /\ TargetOf(lock[i])' = i
    BY <1>1, <2>1, <2>2, <2>4 DEF Locks
  <2>6. \A q \in Collector : pc'[q] \in InCommand => TargetOf(q)' \in Inv /\ lock'[TargetOf(q)'] = q
    BY <1>1, <2>1, <2>2 DEF Locks, Proc
  <2>7. /\ \A q \in Collector : pc'[q] # "snapshot"
        /\ \A q \in Collector : pc'[q] = "ok" => TargetOf(q)' \in Inv
        /\ \A q \in Bystander : pc'[q] \in {"idle", "snapshot"}
    BY <1>1, <2>1, <2>2, <2>3, CollectionAssumption DEF Locks, Proc
  <2>8. QED
    BY <2>5, <2>6, <2>7 DEF Locks, TargetOf
<1>5. Undisturbed(p)
  BY <1>1, <1>3, NothingWritten
<1>6. HalfDone' /\ Books'
  BY FilesAsBefore
<1>7. InStep(p)'
  <2>1. HolderKnows(p)
    BY <1>1 DEF CInv, InStep
  <2>2. TargetOf(p)' = TargetOf(p) /\ RecOf(p)' = RecOf(p)
    BY <1>3 DEF TargetOf, RecOf
  <2>3. HolderKnows(p)'
    BY <1>3, <2>1, <2>2 DEF HolderKnows, Knows, InCommand
  <2>4. QED
    BY <1>1, <1>3, <2>2, <2>3 DEF CInv, InStep, InCommand
<1>8. QED
  BY <1>1, <1>2, <1>3, <1>4, <1>5, <1>6, <1>7, OthersInStep DEF CInv

-----------------------------------------------------------------------------
(* What is known at a place, for the steps that start there. *)
LEMMA AtPlace ==
  ASSUME CInv, NEW p \in Collector, pc[p] \in InCommand
  PROVE  /\ p \in Proc /\ TypeOK /\ TargetOf(p) \in Inv /\ lock[TargetOf(p)] = p
         /\ HolderKnows(p)
         /\ pc[p] # "save" => RecOf(p) \in Rec /\ Same(RecOf(p), journal.head[TargetOf(p)])
         /\ Same(journal.head[TargetOf(p)], journal.work[TargetOf(p)])
         /\ Backed(journal.head[TargetOf(p)], minutes.work[TargetOf(p)], minutes.head[TargetOf(p)])
<1>1. p \in Proc /\ TypeOK /\ TargetOf(p) \in Inv /\ lock[TargetOf(p)] = p /\ HolderKnows(p)
  BY DEF CInv, Locks, Proc, InStep
<1>2. lock[TargetOf(p)] # Nobody
  BY <1>1, CollectionAssumption
<1>3. Same(journal.head[TargetOf(p)], journal.work[TargetOf(p)])
  BY <1>1, <1>2 DEF CInv, HalfDone, HalfSaved
<1>4. Backed(journal.head[TargetOf(p)], minutes.work[TargetOf(p)], minutes.head[TargetOf(p)])
  BY <1>1 DEF CInv, Books
<1>5. pc[p] # "save" => RecOf(p) \in Rec /\ Same(RecOf(p), journal.head[TargetOf(p)])
  BY <1>1, Parts DEF HolderKnows, Knows, Same, RecOf
<1>6. QED
  BY <1>1, <1>3, <1>4, <1>5

(* The snapshot's copy is as backed as the committed one. *)
LEMMA RecIsBacked ==
  ASSUME CInv, NEW p \in Collector, pc[p] \in InCommand \ {"save"}
  PROVE  Backed(RecOf(p), minutes.work[TargetOf(p)], minutes.head[TargetOf(p)])
BY AtPlace DEF Backed, Same, InCommand

LEMMA Responses ==
  ASSUME TypeOK, NEW i \in Inv, NEW d, minutes.work[i] = <<d>>, d # None
  PROVE  HasResponse(i, d)
BY DEF HasResponse

LEMMA NoResponses ==
  ASSUME TypeOK, NEW i \in Inv, NEW d, minutes.work[i] = <<>>
  PROVE  ~HasResponse(i, d)
BY DEF HasResponse

(* A set_state without a hash. *)
LEMMA BecauseStep ==
  ASSUME CInv, NEW p \in Collector, pc[p] \in InCommand, pc[p] # "save",
         NEW s \in State, NEW det \in Detail, NEW m \in {"idle", "ok", "read"},
         Stage(p, s, Because(det), m),
         RecOf(p).state \notin Terminal,
         s = "failed" => det # "wait",
         minutes.work[TargetOf(p)] # <<>> => s = "merged",
         s = "merged" => minutes.head[TargetOf(p)] = <<RecOf(p).digest>>,
         s # "validated",
         m = "ok" => s = "merged",
         m = "read" => s \notin Terminal /\ minutes.work[TargetOf(p)] = <<>>
  PROVE  CInv'
<1>1. /\ Because(det) \in Change /\ Because(det).digest = None /\ Because(det).detail = det
  BY DEF Because, Change
<1>2. Backed(RecOf(p), minutes.work[TargetOf(p)], minutes.head[TargetOf(p)])
  BY RecIsBacked
<1>3. minutes.work[TargetOf(p)] # <<>> => minutes.work[TargetOf(p)] = <<RecOf(p).digest>>
  BY <1>2 DEF Backed
<1> DEFINE change == Because(det)
<1>4. RecOf(p).digest = IF change.digest = None THEN RecOf(p).digest ELSE change.digest
  BY <1>1
<1>5. change \in Change /\ Stage(p, s, change, m) /\ (s = "failed" => change.detail # "wait")
  BY <1>1
<1> HIDE DEF change
<1>6. QED
  BY <1>3, <1>4, <1>5, StageStep

(***************************************************************************)
(* dispatch                                                                *)
(***************************************************************************)
LEMMA DispatchSteps ==
  ASSUME CInv, NEW p \in Collector, DispatchReturns(p) \/ DispatchSends(p) \/ SendReturns(p)
  PROVE  CInv'
<1>1. CASE DispatchReturns(p)
  BY <1>1, LeaveStep DEF CInv, DispatchReturns, Proc, TypeOK
<1>2. CASE DispatchSends(p)
  <2>1. /\ pc[p] \in InCommand \ {"save"} /\ "sending" \in InCommand \ {"save"}
        /\ pc' = [pc EXCEPT ![p] = "sending"]
        /\ UNCHANGED <<journal, minutes, scratch, lock, mem, job, dispatched, faults>>
        /\ RecOf(p).state = "prepared"
    BY <1>2 DEF DispatchSends, Loaded, InCommand, Goto
  <2>2. job' \in [Proc -> Job]
    BY <2>1 DEF CInv, TypeOK, Job
  <2>3. QED
    BY <2>1, <2>2, GoStep
<1>3. CASE SendReturns(p)
  <2>1. /\ pc[p] = "sending" /\ pc[p] \in InCommand
        /\ \E s \in {"delivered", "delivery-unknown", "failed"} :
             \E det \in {"", "relay"} : Stage(p, s, Because(det), "idle")
    BY <1>3 DEF SendReturns, Fail, InCommand
  <2>2. PICK s \in {"delivered", "delivery-unknown", "failed"},
             det \in {"", "relay"} : Stage(p, s, Because(det), "idle")
    BY <2>1
  <2>3. HolderKnows(p) /\ Backed(RecOf(p), minutes.work[TargetOf(p)], minutes.head[TargetOf(p)])
    BY <2>1, AtPlace, RecIsBacked
  <2>4. RecOf(p).state = "prepared" /\ minutes.work[TargetOf(p)] = <<>>
    BY <2>1, <2>3 DEF HolderKnows, Knows, Backed
  <2>5. QED
    BY <2>1, <2>2, <2>4, BecauseStep DEF State, Terminal, Detail
<1>4. QED
  BY <1>1, <1>2, <1>3

(***************************************************************************)
(* cancel, and collect up to the scratch files                             *)
(***************************************************************************)
(* What has_response tells the holder of the lock. *)
LEMMA AnswerKnown ==
  ASSUME CInv, NEW p \in Collector, pc[p] \in InCommand \ {"save"}
  PROVE  /\ HasResponse(TargetOf(p), RecOf(p).digest) /\ ~Dirty(minutes) =>
              minutes.head[TargetOf(p)] = <<RecOf(p).digest>>
                /\ minutes.work[TargetOf(p)] = <<RecOf(p).digest>>
         /\ ~HasResponse(TargetOf(p), RecOf(p).digest) => minutes.work[TargetOf(p)] = <<>>
         /\ RecOf(p).state \notin Terminal \cup {"validated"} => minutes.work[TargetOf(p)] = <<>>
<1>1. Backed(RecOf(p), minutes.work[TargetOf(p)], minutes.head[TargetOf(p)])
  BY RecIsBacked
<1>2. TypeOK /\ TargetOf(p) \in Inv
  BY AtPlace
<1>3. HasResponse(TargetOf(p), RecOf(p).digest) => minutes.work[TargetOf(p)] = <<RecOf(p).digest>>
  BY <1>1, <1>2, NoResponses DEF Backed
<1>4. minutes.work[TargetOf(p)] # <<>> /\ RecOf(p).state \in {"validated", "merged"} =>
        HasResponse(TargetOf(p), RecOf(p).digest)
  <2>1. ASSUME minutes.work[TargetOf(p)] # <<>>
        PROVE  RecOf(p).digest # None
    <3>1. minutes.work[TargetOf(p)] = <<RecOf(p).digest>>
      BY <1>1, <2>1 DEF Backed
    <3>2. minutes.work[TargetOf(p)] \in Seq(Digest)
      BY <1>2, Parts
    <3>3. QED
      BY <3>1, <3>2, CollectionAssumption
  <2>2. QED
    BY <1>1, <1>2, <2>1, Responses DEF Backed
<1>5. QED
  BY <1>1, <1>3, <1>4 DEF Backed, Dirty, Terminal

LEMMA CancelSteps ==
  ASSUME CInv, NEW p \in Collector, CancelReturns(p) \/ Cancels(p)
  PROVE  CInv'
<1>1. CASE CancelReturns(p)
  BY <1>1, LeaveStep DEF CInv, CancelReturns, Proc, TypeOK
<1>2. CASE Cancels(p)
  <2>1. pc[p] \in InCommand /\ pc[p] # "save" /\ RecOf(p).state \notin Terminal
    BY <1>2 DEF Cancels, Loaded, InCommand
  <2>2. CASE HasResponse(TargetOf(p), RecOf(p).digest)
    <3>1. Stage(p, "merged", Because("committed"), "idle") /\ ~Dirty(minutes)
      BY <1>2, <2>2 DEF Cancels, HasResponse
    <3>2. minutes.head[TargetOf(p)] = <<RecOf(p).digest>>
      BY <2>1, <2>2, <3>1, AnswerKnown
    <3>3. QED
      BY <2>1, <3>1, <3>2, BecauseStep DEF State, Detail
  <2>3. CASE ~HasResponse(TargetOf(p), RecOf(p).digest)
    <3>1. Stage(p, "cancelled", Because(""), "idle")
      BY <1>2, <2>3 DEF Cancels
    <3>2. minutes.work[TargetOf(p)] = <<>>
      BY <2>1, <2>3, AnswerKnown
    <3>3. QED
      BY <2>1, <3>1, <3>2, BecauseStep DEF State, Detail
  <2>4. QED
    BY <2>2, <2>3
<1>3. QED
  BY <1>1, <1>2

LEMMA CollectReturnsStep ==
  ASSUME CInv, NEW p \in Collector, CollectReturns(p) \/ GivesUp(p)
  PROVE  CInv'
<1>1. pc[p] \in InCommand /\ pc[p] # "save"
  BY DEF CollectReturns, GivesUp, Searching, Loaded, InCommand
<1>2. /\ TargetOf(p) \in Inv /\ p \in Proc /\ faults \in 0..MaxFault
      /\ RecOf(p).state = journal.head[TargetOf(p)].state
  BY <1>1, AtPlace DEF Same, TypeOK
<1>3. /\ UNCHANGED <<journal, minutes, scratch, dispatched, faults>>
      /\ \/ RecOf(p).state = "merged" /\ Leave(p, "ok")
         \/ Leave(p, "idle")
  BY DEF CollectReturns, GivesUp
<1>4. QED
  BY <1>2, <1>3, LeaveStep

LEMMA CollectRecoversStep ==
  ASSUME CInv, NEW p \in Collector, CollectRecovers(p)
  PROVE  CInv'
<1>1. /\ pc[p] \in InCommand /\ pc[p] # "save" /\ RecOf(p).state = "validated"
      /\ Stage(p, "merged", Because("committed"), "ok") /\ ~Dirty(minutes)
      /\ HasResponse(TargetOf(p), RecOf(p).digest)
  BY DEF CollectRecovers, Loaded, InCommand
<1>2. minutes.head[TargetOf(p)] = <<RecOf(p).digest>>
  BY <1>1, AnswerKnown
<1>3. QED
  BY <1>1, <1>2, BecauseStep DEF State, Detail, Terminal

(***************************************************************************)
(* collect, from the scratch files to the receipt                          *)
(***************************************************************************)
LEMMA SearchingFacts ==
  ASSUME CInv, NEW p \in Collector, Searching(p)
  PROVE  /\ pc[p] \in InCommand /\ pc[p] # "save" /\ pc[p] = "loaded"
         /\ RecOf(p).state \notin Terminal
         /\ minutes.work[TargetOf(p)] = <<>>
<1>1. /\ pc[p] \in InCommand /\ pc[p] # "save" /\ pc[p] = "loaded"
      /\ RecOf(p).state \notin Terminal
  BY DEF Searching, Loaded, InCommand
<1>2. minutes.work[TargetOf(p)] = <<>>
  BY <1>1, AnswerKnown DEF Searching
<1>3. QED
  BY <1>1, <1>2

LEMMA HandleStep ==
  ASSUME CInv, NEW p \in Collector, pc[p] \in InCommand \ {"save"},
         RecOf(p).state \notin Terminal, minutes.work[TargetOf(p)] = <<>>,
         NEW d \in Content, NEW t \in BOOLEAN, Handle(p, d, t)
  PROVE  CInv'
<1>1. p \in Proc /\ TypeOK
  BY AtPlace
<1>2. /\ job' \in [Proc -> Job]
      /\ job'[p].inv = job[p].inv /\ job'[p].next = job[p].next
      /\ \A q \in Proc : q # p => job'[q] = job[q]
  BY <1>1, TakesInHand DEF Handle
<1>3. PICK l \in {"read", "found"} : pc' = [pc EXCEPT ![p] = l]
  BY DEF Handle, Goto
<1>4. l \in InCommand \ {"save"} /\ l \notin {"sending", "merge", "merged"}
  BY DEF InCommand
<1>5. UNCHANGED <<journal, minutes, scratch, lock, mem, dispatched, faults>>
  BY DEF Handle
<1>6. QED
  BY <1>2, <1>3, <1>4, <1>5, GoStep

LEMMA ScratchContent ==
  ASSUME CInv, NEW p \in Collector, pc[p] \in InCommand
  PROVE  Json(p) \in Content /\ Tmp(p) \in Content /\ None \in Content /\ job[p].data \in Content
BY AtPlace DEF TypeOK, Json, Tmp, Content

LEMMA SearchSteps ==
  ASSUME CInv, NEW p \in Collector, TimesOut(p) \/ FindsJson(p) \/ ReadsTmp(p)
  PROVE  CInv'
<1>1. Searching(p)
  BY DEF TimesOut, FindsJson, ReadsTmp
<1>2. /\ pc[p] \in InCommand /\ pc[p] # "save"
      /\ RecOf(p).state \notin Terminal /\ minutes.work[TargetOf(p)] = <<>>
  BY <1>1, SearchingFacts
<1>3. CASE TimesOut(p)
  BY <1>2, <1>3, BecauseStep DEF TimesOut, State, Detail
<1>4. CASE FindsJson(p)
  BY <1>2, <1>4, HandleStep DEF FindsJson, Content
<1>5. CASE ReadsTmp(p)
  <2>1. /\ job' = [job EXCEPT ![p].data = Tmp(p)] /\ pc' = [pc EXCEPT ![p] = "tmp"]
        /\ UNCHANGED <<journal, minutes, scratch, lock, mem, dispatched, faults>>
    BY <1>5 DEF ReadsTmp, Goto
  <2>2. p \in Proc /\ job \in [Proc -> Job] /\ Tmp(p) \in Content
    BY <1>2, AtPlace, ScratchContent DEF TypeOK, Job
  <2>3. /\ job' \in [Proc -> Job]
        /\ job'[p].inv = job[p].inv /\ job'[p].next = job[p].next
        /\ \A q \in Proc : q # p => job'[q] = job[q]
    BY <2>1, <2>2 DEF Job
  <2>4. QED
    BY <1>2, <2>1, <2>3, GoStep DEF InCommand
<1>6. QED
  BY <1>3, <1>4, <1>5

LEMMA RereadsStep ==
  ASSUME CInv, NEW p \in Collector, RereadsTmp(p)
  PROVE  CInv'
<1>1. pc[p] = "tmp" /\ pc[p] \in InCommand /\ pc[p] # "save"
  BY DEF RereadsTmp, InCommand
<1>2. /\ RecOf(p).state \notin Terminal /\ minutes.work[TargetOf(p)] = <<>>
      /\ p \in Proc /\ faults \in 0..MaxFault
  BY <1>1, AtPlace DEF HolderKnows, Knows, TypeOK
<1>3. \/ Handle(p, None, FALSE)
      \/ Handle(p, Tmp(p), TRUE)
      \/ Leave(p, "idle") /\ UNCHANGED <<journal, minutes, scratch, dispatched, faults>>
      \/ Stage(p, "waiting", Because("wait"), "idle")
  BY DEF RereadsTmp
<1>4. Tmp(p) \in Content /\ None \in Content
  BY <1>1, ScratchContent
<1>5. CASE Handle(p, None, FALSE) \/ Handle(p, Tmp(p), TRUE)
  BY <1>1, <1>2, <1>4, <1>5, HandleStep
<1>6. CASE Leave(p, "idle") /\ UNCHANGED <<journal, minutes, scratch, dispatched, faults>>
  BY <1>2, <1>6, LeaveStep
<1>7. CASE Stage(p, "waiting", Because("wait"), "idle")
  BY <1>1, <1>2, <1>7, BecauseStep DEF State, Detail
<1>8. QED
  BY <1>3, <1>5, <1>6, <1>7

LEMMA NotesStep ==
  ASSUME CInv, NEW p \in Collector, NotesOutput(p)
  PROVE  CInv'
<1>1. /\ pc[p] = "found" /\ pc[p] \in InCommand /\ pc[p] # "save"
      /\ Stage(p, "output-received", Because(Provenance(p)), "read")
  BY DEF NotesOutput, InCommand
<1>2. RecOf(p).state \notin Terminal /\ minutes.work[TargetOf(p)] = <<>>
  BY <1>1, AtPlace DEF HolderKnows, Knows
<1>3. Provenance(p) \in Detail
  BY DEF Provenance, Detail
<1>4. QED
  BY <1>1, <1>2, <1>3, BecauseStep DEF State, Terminal

LEMMA ValidatesStep ==
  ASSUME CInv, NEW p \in Collector, Validates(p)
  PROVE  CInv'
<1>1. pc[p] = "read" /\ pc[p] \in InCommand /\ pc[p] # "save"
  BY DEF Validates, InCommand
<1>2. /\ RecOf(p).state \notin Terminal /\ minutes.work[TargetOf(p)] = <<>>
      /\ Backed(RecOf(p), minutes.work[TargetOf(p)], minutes.head[TargetOf(p)])
  BY <1>1, AtPlace, RecIsBacked DEF HolderKnows, Knows
<1> DEFINE change == [detail |-> Provenance(p), digest |-> AnswerOf(p)]
<1>3. \/ Fail(p, "bad") \/ Fail(p, "changed")
      \/ /\ AnswerOf(p) \in Digest /\ RecOf(p).digest \in {None, AnswerOf(p)}
         /\ Stage(p, "validated", change, "merge")
  BY DEF Validates
<1>4. CASE Fail(p, "bad") \/ Fail(p, "changed")
  BY <1>1, <1>2, <1>4, BecauseStep DEF Fail, State, Detail
<1>5. CASE /\ AnswerOf(p) \in Digest /\ RecOf(p).digest \in {None, AnswerOf(p)}
           /\ Stage(p, "validated", change, "merge")
  <2>1. /\ change \in Change /\ change.digest = AnswerOf(p) /\ change.digest # None
    BY <1>5, CollectionAssumption DEF Change, Provenance, Detail
  <2>2. RecOf(p).state = "validated" => AnswerOf(p) = RecOf(p).digest
    BY <1>2, <1>5 DEF Backed
  <2> HIDE DEF change
  <2>3. QED
    BY <1>1, <1>2, <1>5, <2>1, <2>2, StageStep DEF State
<1>6. QED
  BY <1>3, <1>4, <1>5

(***************************************************************************)
(* merge_opinion                                                           *)
(***************************************************************************)
LEMMA MergeRefusesStep ==
  ASSUME CInv, NEW p \in Collector, MergeRefuses(p)
  PROVE  CInv'
<1>1. pc[p] = "merge" /\ pc[p] \in InCommand /\ pc[p] # "save"
  BY DEF MergeRefuses, InCommand
<1>2. /\ RecOf(p).state \notin Terminal /\ minutes.work[TargetOf(p)] = <<>>
  BY <1>1, AtPlace DEF HolderKnows, Knows
<1>3. PICK det \in {"tampered", "conflict"} : Stage(p, "failed", Because(det), "idle")
  BY DEF MergeRefuses, Fail
<1>4. QED
  BY <1>1, <1>2, <1>3, BecauseStep DEF State, Detail

LEMMA MarksMergedStep ==
  ASSUME CInv, NEW p \in Collector, MarksMerged(p)
  PROVE  CInv'
<1>1. /\ pc[p] = "merged" /\ pc[p] \in InCommand /\ pc[p] # "save"
      /\ Stage(p, "merged", Because(Provenance(p)), "ok")
  BY DEF MarksMerged, InCommand
<1>2. /\ RecOf(p).state = "validated"
      /\ minutes.head[TargetOf(p)] = <<RecOf(p).digest>>
  BY <1>1, AtPlace DEF HolderKnows, Knows
<1>3. Provenance(p) \in Detail
  BY DEF Provenance, Detail
<1>4. QED
  BY <1>1, <1>2, <1>3, BecauseStep DEF State, Terminal

LEMMA LeavesSteps ==
  ASSUME CInv, NEW p \in Proc, Aborts(p) \/ Finishes(p) \/ Dies(p)
  PROVE  CInv'
<1>1. /\ Leave(p, "idle")
      /\ UNCHANGED <<journal, minutes, scratch, dispatched>>
      /\ faults' = faults \/ (faults < MaxFault /\ faults' = faults + 1)
  BY DEF Aborts, Finishes, Dies, Fault
<1>2. faults' \in 0..MaxFault
  BY <1>1, CollectionAssumption DEF CInv, TypeOK
<1>3. QED
  BY <1>1, <1>2, LeaveStep

(* The answer in hand is what the minutes get: in an empty section. *)
LEMMA MergeFacts ==
  ASSUME CInv, NEW p \in Collector, pc[p] = "merge", ~MergeRefused(p)
  PROVE  /\ minutes.work = minutes.head /\ ~minutes.foreign
         /\ minutes.work[TargetOf(p)] = <<>>
         /\ RecOf(p).state = "validated" /\ RecOf(p).digest = job[p].data
         /\ job[p].data \in Digest
         /\ Section(TargetOf(p), job[p].data) \in [Inv -> Seq(Digest)]
         /\ Section(TargetOf(p), job[p].data)[TargetOf(p)] = <<job[p].data>>
         /\ \A j \in Inv : j # TargetOf(p) =>
              Section(TargetOf(p), job[p].data)[j] = minutes.work[j]
<1>1. pc[p] \in InCommand /\ pc[p] # "save"
  BY DEF InCommand
<1>2. /\ TypeOK /\ p \in Proc /\ TargetOf(p) \in Inv
      /\ minutes.work[TargetOf(p)] = <<>>
      /\ RecOf(p).state = "validated" /\ RecOf(p).digest = job[p].data
      /\ RecOf(p) \in Rec
      /\ Backed(RecOf(p), minutes.work[TargetOf(p)], minutes.head[TargetOf(p)])
  BY <1>1, AtPlace, RecIsBacked DEF HolderKnows, Knows
<1>3. minutes.work = minutes.head /\ ~minutes.foreign
  BY DEF MergeRefused, Dirty
<1>4. job[p].data \in Digest
  BY <1>2, RecFields DEF Backed
<1>5. minutes.work \in [Inv -> Seq(Digest)]
  BY <1>2, Parts
<1>6. Append(<<>>, job[p].data) = <<job[p].data>> /\ <<job[p].data>> \in Seq(Digest)
  BY <1>4
<1>7. Section(TargetOf(p), job[p].data) =
        [minutes.work EXCEPT ![TargetOf(p)] = <<job[p].data>>]
  BY <1>2, <1>6 DEF Section
<1>8. QED
  BY <1>2, <1>3, <1>4, <1>5, <1>6, <1>7

(* The sections after such a write, whether or not it is committed. *)
LEMMA SectionWritten ==
  ASSUME CInv, NEW p \in Collector, pc[p] = "merge", ~MergeRefused(p), UNCHANGED journal,
         minutes'.work = Section(TargetOf(p), job[p].data),
         minutes'.head \in {minutes.work, Section(TargetOf(p), job[p].data)},
         \A i \in Inv : lock'[i] \in {lock[i], Nobody},
         \A q \in Proc : q # p => pc'[q] = pc[q] /\ job'[q] = job[q] /\ mem'[q] = mem[q]
  PROVE  HalfDone' /\ Books' /\ Undisturbed(p)
<1> DEFINE i == TargetOf(p)
           d == job[p].data
<1>1. /\ minutes.work = minutes.head
      /\ minutes.work[i] = <<>>
      /\ RecOf(p).state = "validated" /\ RecOf(p).digest = d
      /\ d \in Digest
      /\ minutes.work'[i] = <<d>>
      /\ \A j \in Inv : j # i => minutes.work'[j] = minutes.work[j]
                                 /\ minutes.head'[j] = minutes.head[j]
      /\ minutes.head'[i] \in {<<>>, <<d>>}
  BY MergeFacts
<1>2. pc[p] \in InCommand /\ pc[p] # "save"
  BY DEF InCommand
<1>3. /\ i \in Inv /\ lock[i] = p /\ TypeOK
      /\ Same(RecOf(p), journal.head[i])
      /\ Same(journal.head[i], journal.work[i])
  BY <1>2, AtPlace
<1>4. HalfDone'
  <2>1. \A j \in Inv : HalfSaved(j)' <=> HalfSaved(j)
    BY DEF HalfSaved
  <2>2. \A j \in Inv : HalfMerged(j)' => j = i /\ minutes.head'[j] = <<>>
    BY <1>1 DEF HalfMerged
  <2>3. QED
    BY <2>1, <2>2 DEF CInv, HalfDone
<1>5. Books'
  <2>1. ASSUME NEW j \in Inv, j # i
        PROVE  /\ Backed(journal.head'[j], minutes.work'[j], minutes.head'[j])
               /\ Backed(journal.work'[j], minutes.work'[j], minutes.head'[j])
    BY <1>1, <2>1 DEF CInv, Books
  <2>2. /\ Backed(journal.head'[i], minutes.work'[i], minutes.head'[i])
        /\ Backed(journal.work'[i], minutes.work'[i], minutes.head'[i])
    BY <1>1, <1>3, CollectionAssumption DEF Backed, Same
  <2>3. QED
    BY <2>1, <2>2 DEF Books
<1>6. Undisturbed(p)
  <2>1. \A j \in Inv : journal.head[j] \in Rec
    BY <1>3, Parts
  <2>2. \A j \in Inv : Same(journal.head[j], journal.head'[j]) /\ Behind(journal.head[j], journal.head'[j])
    BY <2>1, RecFields, SameIsBehind DEF Same
  <2>3. \A j \in Inv : lock[j] # p => MinutesKept(j)
    BY <1>1, <1>3 DEF MinutesKept, Kept
  <2>4. QED
    BY <2>2, <2>3 DEF Undisturbed
<1>7. QED
  BY <1>4, <1>5, <1>6

LEMMA MergesStep ==
  ASSUME CInv, NEW p \in Collector, Merges(p)
  PROVE  CInv'
<1>1. /\ pc[p] = "merge" /\ ~MergeRefused(p) /\ pc[p] \in InCommand /\ pc[p] # "save"
      /\ pc' = [pc EXCEPT ![p] = "merged"]
      /\ UNCHANGED <<journal, scratch, lock, mem, job, dispatched, faults>>
  BY DEF Merges, InCommand, Goto
<1>2. /\ minutes.work[TargetOf(p)] = <<>>
      /\ RecOf(p).state = "validated" /\ RecOf(p).digest = job[p].data
      /\ Section(TargetOf(p), job[p].data) \in [Inv -> Seq(Digest)]
      /\ Section(TargetOf(p), job[p].data)[TargetOf(p)] = <<job[p].data>>
  BY <1>1, MergeFacts
<1>3. /\ TypeOK /\ p \in Proc /\ TargetOf(p) \in Inv
      /\ Same(RecOf(p), journal.head[TargetOf(p)])
  BY <1>1, AtPlace
<1>4. /\ minutes' \in File([Inv -> Seq(Digest)])
      /\ minutes'.work = Section(TargetOf(p), job[p].data)
      /\ minutes'.head = Section(TargetOf(p), job[p].data)
  BY <1>2, CommittedType DEF Merges
<1>5. /\ \A q \in Proc : q # p => pc'[q] = pc[q] /\ job'[q] = job[q] /\ mem'[q] = mem[q]
      /\ pc'[p] = "merged" /\ pc' \in [Proc -> Pc]
  BY <1>1, <1>3 DEF TypeOK, Pc
<1>6. TypeOK'
  BY <1>1, <1>3, <1>4, <1>5 DEF TypeOK
<1>7. Locks'
  BY <1>1, <1>3, <1>5 DEF CInv, TypeOK, Locks, TargetOf, InCommand, Proc
<1>8. HalfDone' /\ Books' /\ Undisturbed(p)
  BY <1>1, <1>4, <1>5, SectionWritten
<1>9. InStep(p)'
  <2>1. TargetOf(p)' = TargetOf(p) /\ RecOf(p)' = RecOf(p)
    BY <1>1 DEF TargetOf, RecOf
  <2>2. HolderKnows(p)'
    BY <1>1, <1>2, <1>3, <1>4, <1>5, <2>1 DEF HolderKnows, Knows
  <2>3. QED
    BY <1>1, <1>3, <1>5, <2>1, <2>2 DEF CInv, InStep
<1>10. QED
  BY <1>3, <1>6, <1>7, <1>8, <1>9, OthersInStep DEF CInv

LEMMA DiesMergingStep ==
  ASSUME CInv, NEW p \in Collector, DiesMerging(p)
  PROVE  CInv'
<1>1. /\ pc[p] = "merge" /\ ~MergeRefused(p) /\ Leave(p, "idle")
      /\ UNCHANGED <<journal, scratch, dispatched>>
      /\ minutes' = Written(minutes, Section(TargetOf(p), job[p].data))
      /\ faults' \in 0..MaxFault /\ p \in Proc /\ TypeOK
  BY CollectionAssumption DEF CInv, DiesMerging, TypeOK, Fault, Proc
<1>2. /\ Section(TargetOf(p), job[p].data) \in [Inv -> Seq(Digest)]
      /\ minutes.work = minutes.head
  BY <1>1, MergeFacts
<1>3. /\ minutes' \in File([Inv -> Seq(Digest)])
      /\ minutes'.work = Section(TargetOf(p), job[p].data)
      /\ minutes'.head = minutes.work
  BY <1>1, <1>2, Parts DEF Written, File
<1>4. /\ lock' \in [Inv -> Collector \cup {Nobody}]
      /\ mem' \in [Proc -> [Inv -> Rec \cup {NoRec}]]
      /\ pc' \in [Proc -> Pc]
      /\ job' \in [Proc -> [inv : Inv \cup {None}, cmd : Command, data : Content,
                            tmp : BOOLEAN, next : Pc]]
      /\ \A q \in Proc : q # p => pc'[q] = pc[q] /\ job'[q] = job[q] /\ mem'[q] = mem[q]
      /\ \A i \in Inv : lock'[i] = IF lock[i] = p THEN Nobody ELSE lock[i]
      /\ Locks' /\ InStep(p)'
  BY <1>1, LeaveFacts
<1>5. TypeOK'
  BY <1>1, <1>3, <1>4 DEF TypeOK
<1>6. HalfDone' /\ Books' /\ Undisturbed(p)
  BY <1>1, <1>3, <1>4, SectionWritten
<1>7. QED
  BY <1>1, <1>4, <1>5, <1>6, OthersInStep DEF CInv

(***************************************************************************)
(* Saving the journal: what the refresh adds is, but for the record of a   *)
(* set_state under the lock, what is committed.                            *)
(***************************************************************************)
LEMMA SameBacked ==
  ASSUME NEW r, NEW s, NEW w, NEW m, Same(r, s), Backed(r, w, m)
  PROVE  Backed(s, w, m)
BY DEF Same, Backed

SetStateOf(p, i) == pc[p] = "save" /\ TargetOf(p) = i

LEMMA RefreshedFacts ==
  ASSUME CInv, NEW p \in Proc, pc[p] \in {"save", "snapshot"}, ~Dirty(journal)
  PROVE  /\ Refreshed(p) \in [Inv -> Rec] /\ journal.work = journal.head
         /\ \A i \in Inv : SetStateOf(p, i) =>
              /\ Refreshed(p)[i] = mem[p][i] /\ lock[i] = p /\ p \in Collector
              /\ Advanced(journal.head[i], Refreshed(p)[i])
              /\ journal.head[i].state \notin Terminal
         /\ \A i \in Inv : ~SetStateOf(p, i) => Same(journal.head[i], Refreshed(p)[i])
         /\ \A i \in Inv : /\ Behind(journal.head[i], Refreshed(p)[i])
                           /\ Backed(Refreshed(p)[i], minutes.work[i], minutes.head[i])
                           /\ journal.head[i].state = "merged" => Refreshed(p)[i].state = "merged"
                           /\ Behind(Refreshed(p)[i], Refreshed(p)[i])
<1>1. /\ TypeOK /\ journal.work = journal.head
      /\ Refreshed(p) \in [Inv -> Rec]
      /\ \A i \in Inv : Refreshed(p)[i] = MergeRec(journal.head[i], mem[p][i])
      /\ \A i \in Inv : journal.head[i] \in Rec /\ mem[p][i] \in Rec \cup {NoRec}
  BY RefreshedType, Parts DEF CInv, Dirty
<1>2. ASSUME NEW i \in Inv, SetStateOf(p, i)
      PROVE  /\ Refreshed(p)[i] = mem[p][i] /\ lock[i] = p /\ p \in Collector
             /\ Advanced(journal.head[i], Refreshed(p)[i])
             /\ journal.head[i].state \notin Terminal
             /\ Backed(Refreshed(p)[i], minutes.work[i], minutes.head[i])
  <2>1. pc[p] = "save" /\ TargetOf(p) = i /\ pc[p] \in InCommand /\ p \in Collector
    BY <1>2 DEF SetStateOf, CInv, Locks, Proc, InCommand
  <2>2. HolderKnows(p) /\ lock[i] = p
    BY <2>1, AtPlace
  <2>3. RecOf(p) = mem[p][i]
    BY <2>1 DEF RecOf
  <2>4. Advanced(journal.head[i], mem[p][i]) /\ Backed(mem[p][i], minutes.work[i], minutes.head[i])
    BY <2>1, <2>2, <2>3 DEF HolderKnows, Knows
  <2>5. mem[p][i] \in Rec
    BY <1>1, <2>4 DEF Advanced
  <2>6. Refreshed(p)[i] = mem[p][i]
    BY <1>1, <2>4, <2>5, OverlayTakes
  <2>7. journal.head[i].state \notin Terminal
    BY <2>4 DEF Advanced
  <2>8. QED
    BY <2>1, <2>2, <2>4, <2>6, <2>7
<1>3. ASSUME NEW i \in Inv, ~SetStateOf(p, i)
      PROVE  /\ Same(journal.head[i], Refreshed(p)[i])
             /\ Backed(Refreshed(p)[i], minutes.work[i], minutes.head[i])
  <2>1. Behind(mem[p][i], journal.head[i])
    BY <1>3 DEF SetStateOf, CInv, InStep
  <2>2. Same(journal.head[i], Refreshed(p)[i])
    BY <1>1, <2>1, OverlayKeeps
  <2>3. QED
    BY <2>2, SameBacked DEF CInv, Books
<1>4. ASSUME NEW i \in Inv
      PROVE  /\ Behind(journal.head[i], Refreshed(p)[i])
             /\ journal.head[i].state = "merged" => Refreshed(p)[i].state = "merged"
             /\ Behind(Refreshed(p)[i], Refreshed(p)[i])
  <2>1. journal.head[i] \in Rec /\ Refreshed(p)[i] \in Rec
    BY <1>1
  <2>2. Same(Refreshed(p)[i], Refreshed(p)[i])
    BY <2>1, RecFields DEF Same
  <2>3. CASE SetStateOf(p, i)
    BY <1>2, <2>1, <2>2, <2>3, AdvancedIsAhead, SameIsBehind DEF Terminal
  <2>4. CASE ~SetStateOf(p, i)
    BY <1>3, <2>1, <2>2, <2>4, SameIsBehind DEF Same
  <2>5. QED
    BY <2>3, <2>4
<1>5. QED
  BY <1>1, <1>2, <1>3, <1>4

(* The journal after such a write, committed or not. *)
LEMMA RefreshedWritten ==
  ASSUME CInv, NEW p \in Proc, pc[p] \in {"save", "snapshot"}, ~Dirty(journal),
         UNCHANGED minutes,
         journal'.work = Refreshed(p),
         \/ journal'.head = Refreshed(p) /\ \A i \in Inv : lock'[i] \in {lock[i], Nobody}
         \/ /\ journal'.head = journal.head
            /\ \A i \in Inv : lock'[i] = IF lock[i] = p THEN Nobody ELSE lock[i],
         \A q \in Proc : q # p => pc'[q] = pc[q] /\ job'[q] = job[q] /\ mem'[q] = mem[q]
  PROVE  HalfDone' /\ Books' /\ Undisturbed(p)
<1>1. /\ Refreshed(p) \in [Inv -> Rec] /\ journal.work = journal.head
      /\ \A i \in Inv : SetStateOf(p, i) =>
           /\ lock[i] = p /\ Advanced(journal.head[i], Refreshed(p)[i])
      /\ \A i \in Inv : ~SetStateOf(p, i) => Same(journal.head[i], Refreshed(p)[i])
      /\ \A i \in Inv : /\ Behind(journal.head[i], Refreshed(p)[i])
                        /\ Backed(Refreshed(p)[i], minutes.work[i], minutes.head[i])
                        /\ journal.head[i].state = "merged" => Refreshed(p)[i].state = "merged"
  BY RefreshedFacts
<1>2. /\ \A i \in Inv : journal.head[i] \in Rec
      /\ \A i \in Inv : Same(journal.head[i], journal.head[i])
      /\ \A i \in Inv : Same(Refreshed(p)[i], Refreshed(p)[i])
  <2>1. TypeOK
    BY DEF CInv
  <2>2. QED
    BY <1>1, <2>1, Parts, RecFields DEF Same
<1>3. \A i \in Inv : journal'.head[i] \in {journal.head[i], Refreshed(p)[i]}
  OBVIOUS
<1>4. HalfDone'
  <2>1. ASSUME NEW i \in Inv, HalfSaved(i)'
        PROVE  /\ SetStateOf(p, i) /\ lock'[i] = Nobody
               /\ Advanced(journal'.head[i], journal'.work[i])
    <3>1. ~Same(journal'.head[i], journal'.work[i])
      BY <2>1 DEF HalfSaved
    <3>2. journal'.head = journal.head
          /\ \A j \in Inv : lock'[j] = IF lock[j] = p THEN Nobody ELSE lock[j]
      BY <1>2, <3>1
    <3>3. SetStateOf(p, i)
      BY <1>1, <3>1, <3>2
    <3>4. QED
      BY <1>1, <3>2, <3>3
  <2>2. \A i, j \in Inv : SetStateOf(p, i) /\ SetStateOf(p, j) => i = j
    BY DEF SetStateOf
  <2>3. \A i \in Inv : HalfMerged(i)' <=> HalfMerged(i)
    BY DEF HalfMerged
  <2>4. QED
    BY <2>1, <2>2, <2>3 DEF CInv, HalfDone
<1>5. Books'
  BY <1>1, <1>3 DEF CInv, Books
<1>6. Undisturbed(p)
  <2>1. ASSUME NEW i \in Inv
        PROVE  /\ Behind(journal.head[i], journal.head'[i])
               /\ journal.head[i].state = "merged" => journal.head'[i].state = "merged"
    BY <1>1, <1>2, <1>3, SameIsBehind
  <2>2. ASSUME NEW i \in Inv, lock[i] # p
        PROVE  Same(journal.head[i], journal.head'[i])
    BY <1>1, <1>2, <1>3, <2>2
  <2>3. \A i \in Inv : MinutesKept(i)
    BY DEF MinutesKept, Kept
  <2>4. QED
    BY <2>1, <2>2, <2>3 DEF Undisturbed
<1>7. QED
  BY <1>4, <1>5, <1>6

LEMMA SavesStep ==
  ASSUME CInv, NEW p \in Collector, Saves(p)
  PROVE  CInv'
<1>1. /\ pc[p] = "save" /\ pc[p] \in InCommand /\ ~Dirty(journal)
      /\ journal' = Committed(Refreshed(p))
      /\ UNCHANGED <<minutes, scratch, dispatched, faults>>
  BY DEF Saves, InCommand
<1> DEFINE i == TargetOf(p)
           next == job[p].next
<1>2. TypeOK /\ p \in Proc /\ i \in Inv /\ lock[i] = p /\ HolderKnows(p)
  BY <1>1, AtPlace
<1>3. /\ Refreshed(p) \in [Inv -> Rec]
      /\ Refreshed(p)[i] = RecOf(p)
      /\ \A j \in Inv : Behind(Refreshed(p)[j], Refreshed(p)[j])
  <2>1. SetStateOf(p, i)
    BY <1>1 DEF SetStateOf
  <2>2. Refreshed(p)[i] = mem[p][i]
    BY <1>1, <1>2, <2>1, RefreshedFacts
  <2>3. RecOf(p) = mem[p][i]
    BY DEF RecOf
  <2>4. QED
    BY <1>1, <1>2, <2>2, <2>3, RefreshedFacts
<1>4. /\ journal' \in File([Inv -> Rec])
      /\ journal'.work = Refreshed(p) /\ journal'.head = Refreshed(p)
  BY <1>1, <1>3, CommittedType
<1>5. /\ next \in {"idle", "ok", "read", "merge"}
      /\ next = "ok" => RecOf(p).state = "merged"
      /\ next = "read" => RecOf(p).state \notin Terminal
      /\ next = "merge" => RecOf(p).state = "validated" /\ RecOf(p).digest = job[p].data
      /\ next \in {"read", "merge"} => minutes.work[i] = <<>>
  BY <1>1, <1>2 DEF HolderKnows, Knows
<1>6. CASE next \in {"idle", "ok"}
  <2>1. Leave(p, next)
    BY <1>6 DEF Saves
  <2>2. next = "ok" => /\ p \in Collector /\ TargetOf(p) \in Inv
                       /\ journal.head'[TargetOf(p)].state = "merged"
    BY <1>2, <1>3, <1>4, <1>5
  <2>3. /\ lock' \in [Inv -> Collector \cup {Nobody}]
        /\ mem' \in [Proc -> [Inv -> Rec \cup {NoRec}]]
        /\ pc' \in [Proc -> Pc]
        /\ job' \in [Proc -> [inv : Inv \cup {None}, cmd : Command, data : Content,
                              tmp : BOOLEAN, next : Pc]]
        /\ \A q \in Proc : q # p => pc'[q] = pc[q] /\ job'[q] = job[q] /\ mem'[q] = mem[q]
        /\ \A j \in Inv : lock'[j] = IF lock[j] = p THEN Nobody ELSE lock[j]
        /\ Locks' /\ InStep(p)'
    BY <1>2, <1>6, <2>1, <2>2, LeaveFacts
  <2>4. TypeOK'
    BY <1>1, <1>2, <1>4, <2>3 DEF TypeOK
  <2>5. HalfDone' /\ Books' /\ Undisturbed(p)
    BY <1>1, <1>2, <1>4, <2>3, RefreshedWritten
  <2>6. QED
    BY <1>2, <2>3, <2>4, <2>5, OthersInStep DEF CInv
<1>7. CASE next \in {"read", "merge"}
  <2>1. /\ mem' = [mem EXCEPT ![p] = Refreshed(p)] /\ pc' = [pc EXCEPT ![p] = next]
        /\ UNCHANGED <<lock, job>>
    BY <1>7 DEF Saves, Goto
  <2>2. /\ \A q \in Proc : q # p => pc'[q] = pc[q] /\ job'[q] = job[q] /\ mem'[q] = mem[q]
        /\ pc'[p] = next /\ mem'[p] = Refreshed(p)
        /\ pc' \in [Proc -> Pc] /\ mem' \in [Proc -> [Inv -> Rec \cup {NoRec}]]
    BY <1>2, <1>3, <1>7, <2>1 DEF TypeOK, Pc
  <2>3. TypeOK'
    BY <1>1, <1>2, <1>4, <2>1, <2>2 DEF TypeOK
  <2>4. Locks'
    BY <1>1, <1>2, <1>7, <2>1, <2>2 DEF CInv, TypeOK, Locks, TargetOf, InCommand, Proc
  <2>5. HalfDone' /\ Books' /\ Undisturbed(p)
    BY <1>1, <1>2, <1>4, <2>1, <2>2, RefreshedWritten
  <2>6. InStep(p)'
    <3>1. TargetOf(p)' = i /\ RecOf(p)' = RecOf(p)
      BY <1>3, <2>1, <2>2 DEF TargetOf, RecOf
    <3>2. Same(RecOf(p), journal'.head[i])
      BY <1>2, <1>3, <1>4, RecFields DEF Same
    <3>3. HolderKnows(p)'
      BY <1>1, <1>5, <1>7, <2>1, <2>2, <3>1, <3>2 DEF HolderKnows, Knows, Terminal
    <3>4. QED
      BY <1>3, <1>4, <1>7, <2>2, <3>3 DEF InStep
  <2>7. QED
    BY <1>2, <2>3, <2>4, <2>5, <2>6, OthersInStep DEF CInv
<1>8. QED
  BY <1>5, <1>6, <1>7

(* A bystander, or a process that dies before the commit. *)
LEMMA SnapshotSteps ==
  ASSUME CInv, NEW p \in Proc, (p \in Bystander /\ SnapshotSaves(p)) \/ DiesSaving(p)
  PROVE  CInv'
<1>1. TypeOK /\ faults' \in 0..MaxFault
  BY CollectionAssumption DEF CInv, TypeOK, SnapshotSaves, DiesSaving, Fault
<1>2. /\ pc[p] \in {"save", "snapshot"} /\ ~Dirty(journal) /\ Leave(p, "idle")
      /\ UNCHANGED <<minutes, scratch, dispatched>>
      /\ \/ journal' = Committed(Refreshed(p))
         \/ journal' = [Written(journal, Refreshed(p)) EXCEPT !.foreign = (p \in Bystander)]
  BY DEF SnapshotSaves, DiesSaving
<1>3. Refreshed(p) \in [Inv -> Rec]
  BY <1>2, RefreshedFacts
<1>4. /\ journal' \in File([Inv -> Rec]) /\ journal'.work = Refreshed(p)
      /\ journal'.head = Refreshed(p) \/ journal'.head = journal.head
  <2>1. CASE journal' = Committed(Refreshed(p))
    BY <1>3, <2>1, CommittedType
  <2>2. CASE journal' = [Written(journal, Refreshed(p)) EXCEPT !.foreign = (p \in Bystander)]
    <3> DEFINE b == p \in Bystander
    <3>1. /\ Written(journal, Refreshed(p)) \in File([Inv -> Rec])
          /\ Written(journal, Refreshed(p)).work = Refreshed(p)
          /\ Written(journal, Refreshed(p)).head = journal.head
      BY <1>1, <1>3 DEF TypeOK, Written, File
    <3>2. b \in BOOLEAN
      OBVIOUS
    <3> HIDE DEF b
    <3>3. journal' = [Written(journal, Refreshed(p)) EXCEPT !.foreign = b]
      BY <2>2 DEF b
    <3>4. QED
      BY <3>1, <3>2, <3>3 DEF File
  <2>3. QED
    BY <1>2, <2>1, <2>2
<1>5. /\ lock' \in [Inv -> Collector \cup {Nobody}]
      /\ mem' \in [Proc -> [Inv -> Rec \cup {NoRec}]]
      /\ pc' \in [Proc -> Pc]
      /\ job' \in [Proc -> [inv : Inv \cup {None}, cmd : Command, data : Content,
                            tmp : BOOLEAN, next : Pc]]
      /\ \A q \in Proc : q # p => pc'[q] = pc[q] /\ job'[q] = job[q] /\ mem'[q] = mem[q]
      /\ \A i \in Inv : lock'[i] = IF lock[i] = p THEN Nobody ELSE lock[i]
      /\ Locks' /\ InStep(p)'
  BY <1>2, LeaveFacts
<1>6. TypeOK'
  BY <1>1, <1>2, <1>4, <1>5 DEF TypeOK
<1>7. HalfDone' /\ Books' /\ Undisturbed(p)
  BY <1>2, <1>4, <1>5, RefreshedWritten
<1>8. QED
  BY <1>5, <1>6, <1>7, OthersInStep DEF CInv

LEMMA SnapshotLoadsStep ==
  ASSUME CInv, NEW p \in Bystander, SnapshotLoads(p)
  PROVE  CInv'
<1>1. TypeOK /\ Locks /\ p \in Proc /\ p \notin Collector
  BY CollectionAssumption DEF CInv, Proc
<1>2. /\ pc[p] = "idle" /\ ~Dirty(journal)
      /\ mem' = [mem EXCEPT ![p] = journal.work] /\ pc' = [pc EXCEPT ![p] = "snapshot"]
      /\ UNCHANGED <<journal, minutes, scratch, lock, job, dispatched, faults>>
  BY DEF SnapshotLoads, Goto
<1>3. TypeOK'
  BY <1>1, <1>2, Parts DEF TypeOK, Pc
<1>4. /\ \A q \in Proc : q # p => pc'[q] = pc[q] /\ job'[q] = job[q] /\ mem'[q] = mem[q]
      /\ pc'[p] = "snapshot" /\ mem'[p] = journal.work
  BY <1>1, <1>2 DEF TypeOK
<1>5. Locks'
  BY <1>1, <1>2, <1>4, CollectionAssumption DEF Locks, TargetOf, TypeOK, Proc, InCommand
<1>6. HalfDone' /\ Books'
  BY <1>2, FilesAsBefore
<1>7. Undisturbed(p)
  BY <1>1, <1>2, <1>4, NothingWritten
<1>8. InStep(p)'
  <2>1. \A j \in Inv : Behind(mem'[p][j], journal.head'[j])
    BY <1>1, <1>2, <1>4, Parts, RecFields, SameIsBehind DEF Same, Dirty
  <2>2. QED
    BY <1>1, <2>1 DEF InStep
<1>9. QED
  BY <1>1, <1>3, <1>5, <1>6, <1>7, <1>8, OthersInStep DEF CInv

(* The new epoch is ahead of every copy of the record. *)
LEMMA ReopenedType ==
  ASSUME NEW r \in Rec
  PROVE  /\ Reopened(r) \in Rec /\ Reopened(r).state = "waiting"
         /\ Reopened(r).epoch = r.epoch + 1
<1>1. r.epoch \in Nat
  BY RecFields
<1>2. r.epoch + 1 \in Nat
  BY <1>1
<1>3. "waiting" \in State /\ "" \in Detail
  BY DEF State, Detail
<1>4. QED
  BY <1>2, <1>3 DEF Reopened, Rec

LEMMA ReopeningIsAhead ==
  ASSUME NEW h \in Rec, NEW r, Reopening(h, r)
  PROVE  r \in Rec /\ Behind(h, r) /\ h.state = "failed" /\ r.state = "waiting"
<1>1. r \in Rec /\ r.state = "waiting" /\ r.epoch = h.epoch + 1 /\ h.state = "failed"
  BY ReopenedType DEF Reopening, Reopenable
<1> QED
  BY <1>1, RecFields DEF Behind, NotNewer, Agree

LEMMA ReopensStep ==
  ASSUME CInv, NEW p \in Collector, CollectReopens(p)
  PROVE  CInv'
<1> DEFINE i == TargetOf(p)
           old == journal.work[i]
           new == Reopened(old)
           w == [journal.work EXCEPT ![i] = new]
<1>1. /\ pc[p] = "loaded" /\ pc[p] \in InCommand /\ pc[p] # "save" /\ ~Dirty(journal)
      /\ RecOf(p).state = "failed"
      /\ journal' = Committed(w)
      /\ mem' = [mem EXCEPT ![p] = journal'.work]
      /\ UNCHANGED <<minutes, scratch, lock, pc, job, dispatched, faults>>
  BY DEF CollectReopens, Loaded, InCommand
<1>2. /\ TypeOK /\ p \in Proc /\ i \in Inv /\ lock[i] = p /\ HolderKnows(p)
      /\ Same(RecOf(p), journal.head[i]) /\ journal.work = journal.head
      /\ Backed(journal.head[i], minutes.work[i], minutes.head[i])
  BY <1>1, AtPlace DEF Dirty
<1>3. old \in Rec /\ journal.work \in [Inv -> Rec] /\ old.state = "failed"
  BY <1>1, <1>2, Parts DEF Same
<1>4. /\ new \in Rec /\ new.state = "waiting" /\ new.epoch = old.epoch + 1
  BY <1>3, ReopenedType
<1>5. minutes.work[i] = <<>> /\ Backed(new, minutes.work[i], minutes.head[i])
  BY <1>2, <1>3, <1>4 DEF Backed
<1>6. Behind(old, new)
  BY <1>3, <1>4, RecFields DEF Behind, NotNewer, Agree
<1> HIDE DEF new, old
<1>7. /\ w \in [Inv -> Rec] /\ w[i] = new
      /\ \A j \in Inv : j # i => w[j] = journal.head[j]
      /\ old = journal.head[i]
  BY <1>2, <1>3, <1>4 DEF old
<1>8. /\ journal' \in File([Inv -> Rec]) /\ journal'.work = w /\ journal'.head = w
  BY <1>1, <1>7, CommittedType
<1> HIDE DEF w
<1>9. /\ \A q \in Proc : q # p => pc'[q] = pc[q] /\ job'[q] = job[q] /\ mem'[q] = mem[q]
      /\ mem'[p] = w /\ mem' \in [Proc -> [Inv -> Rec \cup {NoRec}]]
  BY <1>1, <1>2, <1>7, <1>8 DEF TypeOK
<1>10. TypeOK'
  BY <1>1, <1>2, <1>8, <1>9 DEF TypeOK
<1>11. Locks'
  BY <1>1 DEF CInv, Locks, TargetOf
<1>12. /\ \A j \in Inv : Same(w[j], w[j]) /\ Behind(w[j], w[j])
       /\ \A j \in Inv : j # i => Same(journal.head[j], w[j]) /\ Behind(journal.head[j], w[j])
  BY <1>7, RecFields, SameIsBehind DEF Same
<1>13. HalfDone' /\ Books'
  <2>1. \A j \in Inv : ~HalfSaved(j)' /\ (HalfMerged(j)' <=> HalfMerged(j))
    BY <1>1, <1>8, <1>12 DEF HalfSaved, HalfMerged
  <2>2. HalfDone'
    BY <1>1, <2>1 DEF CInv, HalfDone
  <2>3. Books'
    BY <1>1, <1>5, <1>7, <1>8 DEF CInv, Books
  <2>4. QED
    BY <2>2, <2>3
<1>14. Undisturbed(p)
  <2>1. \A j \in Inv : Behind(journal.head[j], journal.head'[j])
    BY <1>6, <1>7, <1>8, <1>12
  <2>2. \A j \in Inv : journal.head[j].state = "merged" => journal.head'[j].state = "merged"
    BY <1>3, <1>7, <1>8
  <2>3. \A j \in Inv : MinutesKept(j)
    BY <1>1 DEF MinutesKept, Kept
  <2>4. \A j \in Inv : lock[j] # p => Same(journal.head[j], journal.head'[j])
    BY <1>2, <1>8, <1>12
  <2>5. QED
    BY <1>9, <2>1, <2>2, <2>3, <2>4 DEF Undisturbed
<1>15. InStep(p)'
  <2>1. TargetOf(p)' = i /\ RecOf(p)' = w[i]
    BY <1>1, <1>9 DEF TargetOf, RecOf
  <2>2. HolderKnows(p)'
    BY <1>1, <1>2, <1>8, <1>12, <2>1 DEF HolderKnows, Knows
  <2>3. QED
    BY <1>1, <1>8, <1>9, <1>12, <2>2 DEF InStep
<1>16. QED
  BY <1>2, <1>10, <1>11, <1>13, <1>14, <1>15, OthersInStep DEF CInv

LEMMA SameHeads ==
  ASSUME TypeOK
  PROVE  \A i \in Inv : /\ Same(journal.head[i], journal.head[i])
                        /\ Behind(journal.head[i], journal.head[i])
                        /\ Same(journal.work[i], journal.work[i])
BY Parts, RecFields, SameIsBehind DEF Same

(* It dies between the write and the commit. *)
LEMMA DiesReopeningStep ==
  ASSUME CInv, NEW p \in Collector, DiesReopening(p)
  PROVE  CInv'
<1> DEFINE i == TargetOf(p)
           old == journal.work[i]
           new == Reopened(old)
           w == [journal.work EXCEPT ![i] = new]
<1>1. /\ pc[p] \in InCommand /\ pc[p] # "save" /\ ~Dirty(journal)
      /\ Reopenable(old) /\ journal' = Written(journal, w) /\ Leave(p, "idle")
      /\ UNCHANGED <<minutes, scratch, dispatched>>
  BY DEF DiesReopening, Loaded, InCommand
<1>2. /\ TypeOK /\ p \in Proc /\ i \in Inv /\ lock[i] = p /\ journal.work = journal.head
      /\ Backed(journal.head[i], minutes.work[i], minutes.head[i])
      /\ faults' \in 0..MaxFault
  <2>1. /\ TypeOK /\ p \in Proc /\ i \in Inv /\ lock[i] = p
        /\ Backed(journal.head[i], minutes.work[i], minutes.head[i])
    BY <1>1, AtPlace
  <2> QED
    BY <1>1, <2>1, CollectionAssumption DEF Dirty, TypeOK, DiesReopening, Fault
<1>3. old \in Rec /\ old = journal.head[i] /\ journal.work \in [Inv -> Rec]
  BY <1>2, Parts
<1>4. Reopening(old, new) /\ new \in Rec /\ new.state = "waiting" /\ old.state = "failed"
  BY <1>1, <1>3, ReopeningIsAhead DEF Reopening
<1>5. Backed(new, minutes.work[i], minutes.head[i])
  BY <1>2, <1>3, <1>4 DEF Backed
<1> HIDE DEF new, old
<1>6. /\ w \in [Inv -> Rec] /\ w[i] = new
      /\ \A j \in Inv : j # i => w[j] = journal.head[j]
  BY <1>2, <1>3, <1>4
<1>7. /\ journal' \in File([Inv -> Rec]) /\ journal'.work = w /\ journal'.head = journal.head
  <2> HIDE DEF w
  <2> QED
    BY <1>1, <1>2, <1>6 DEF TypeOK, Written, File
<1> HIDE DEF w
<1>8. /\ lock' \in [Inv -> Collector \cup {Nobody}]
      /\ mem' \in [Proc -> [Inv -> Rec \cup {NoRec}]]
      /\ pc' \in [Proc -> Pc]
      /\ job' \in [Proc -> [inv : Inv \cup {None}, cmd : Command, data : Content,
                            tmp : BOOLEAN, next : Pc]]
      /\ \A q \in Proc : q # p => pc'[q] = pc[q] /\ job'[q] = job[q] /\ mem'[q] = mem[q]
      /\ \A j \in Inv : lock'[j] = IF lock[j] = p THEN Nobody ELSE lock[j]
      /\ Locks' /\ InStep(p)'
  BY <1>1, <1>2, LeaveFacts
<1>9. TypeOK'
  BY <1>1, <1>2, <1>7, <1>8 DEF TypeOK
<1>10. \A j \in Inv : Same(journal.head[j], journal.head[j]) /\ Behind(journal.head[j], journal.head[j])
  BY <1>2, SameHeads
<1>11. HalfDone' /\ Books'
  <2>1. \A j \in Inv : HalfSaved(j)' =>
          /\ j = i /\ lock'[j] = Nobody /\ Reopening(journal'.head[j], journal'.work[j])
    BY <1>2, <1>3, <1>4, <1>6, <1>7, <1>8, <1>10 DEF HalfSaved
  <2>2. \A j \in Inv : HalfMerged(j)' <=> HalfMerged(j)
    BY <1>1 DEF HalfMerged
  <2>3. HalfDone'
    BY <1>1, <2>1, <2>2 DEF CInv, HalfDone
  <2>4. Books'
    BY <1>1, <1>5, <1>6, <1>7 DEF CInv, Books
  <2> QED
    BY <2>3, <2>4
<1>12. Undisturbed(p)
  BY <1>1, <1>7, <1>8, <1>10 DEF Undisturbed, MinutesKept, Kept
<1> QED
  BY <1>2, <1>8, <1>9, <1>11, <1>12, OthersInStep DEF CInv

(***************************************************************************)
(* The human and the seats                                                 *)
(***************************************************************************)
LEMMA NobodysStep ==
  ASSUME CInv, TypeOK', UNCHANGED <<lock, mem, pc, job>>, HalfDone', Books',
         \A i \in Inv :
           /\ Behind(journal.head[i], journal.head'[i])
           /\ journal.head[i].state = "merged" => journal.head'[i].state = "merged"
           /\ lock[i] # Nobody => Same(journal.head[i], journal.head'[i]) /\ MinutesKept(i)
  PROVE  CInv'
<1>1. Nobody \notin Proc
  BY CollectionAssumption
<1>2. Undisturbed(Nobody)
  BY DEF Undisturbed
<1>3. \A q \in Proc : InStep(q)'
  BY <1>1, <1>2, OthersInStep
<1>4. Locks'
  BY DEF CInv, Locks, TargetOf
<1>5. QED
  BY <1>3, <1>4 DEF CInv

LEMMA MinutesSteps ==
  ASSUME CInv, ForeignEdit \/ RepairMinutes
  PROVE  CInv'
<1>1. /\ UNCHANGED <<journal, scratch, lock, mem, pc, job, dispatched>>
      /\ faults' \in 0..MaxFault /\ TypeOK
  BY CollectionAssumption DEF CInv, TypeOK, ForeignEdit, RepairMinutes, Fault
<1>2. /\ minutes' \in File([Inv -> Seq(Digest)])
      /\ \/ minutes'.work = minutes.work /\ minutes'.head = minutes.head
         \/ minutes'.work = minutes.work /\ minutes'.head = minutes.work
         \/ minutes'.work = minutes.head /\ minutes'.head = minutes.head
  BY <1>1, Parts, CommittedType DEF ForeignEdit, RepairMinutes, File
<1>3. TypeOK'
  BY <1>1, <1>2 DEF TypeOK
<1>4. \A i \in Inv : minutes.head[i] # <<>> => minutes.work[i] = minutes.head[i]
  BY DEF CInv, HalfDone, HalfMerged
<1>5. HalfDone'
  <2>1. \A i \in Inv : HalfSaved(i)' <=> HalfSaved(i)
    BY <1>1 DEF HalfSaved
  <2>2. \A i \in Inv : HalfMerged(i)' => HalfMerged(i) /\ minutes.head'[i] = minutes.head[i]
    BY <1>2 DEF HalfMerged
  <2>3. QED
    BY <1>1, <2>1, <2>2 DEF CInv, HalfDone
<1>6. Books'
  <2>1. ASSUME NEW i \in Inv, NEW r, Backed(r, minutes.work[i], minutes.head[i])
        PROVE  Backed(r, minutes.work'[i], minutes.head'[i])
    <3>1. minutes.work[i] = minutes.head[i] \/ minutes.head[i] = <<>>
      BY <1>4
    <3>2. <<r.digest>> # <<>>
      OBVIOUS
    <3>3. CASE minutes'.work = minutes.work /\ minutes'.head = minutes.head
      BY <2>1, <3>3
    <3>4. CASE minutes'.work = minutes.work /\ minutes'.head = minutes.work
      BY <2>1, <3>1, <3>2, <3>4 DEF Backed
    <3>5. CASE minutes'.work = minutes.head /\ minutes'.head = minutes.head
      BY <2>1, <3>1, <3>2, <3>5 DEF Backed
    <3>6. QED
      BY <1>2, <3>3, <3>4, <3>5
  <2>2. QED
    BY <1>1, <2>1 DEF CInv, Books
<1>7. \A i \in Inv : MinutesKept(i)
  BY <1>2, <1>4 DEF MinutesKept, Kept
<1>8. QED
  BY <1>1, <1>3, <1>5, <1>6, <1>7, SameHeads, NobodysStep

LEMMA RepairJournalStep ==
  ASSUME CInv, RepairJournal
  PROVE  CInv'
<1>1. /\ UNCHANGED <<minutes, scratch, lock, mem, pc, job, dispatched, faults>>
      /\ TypeOK
  BY DEF CInv, RepairJournal
<1>2. \/ journal' = Committed(journal.work)
      \/ journal' = Committed(journal.head)
  BY DEF RepairJournal
<1>3. /\ journal' \in File([Inv -> Rec])
      /\ journal'.work = journal'.head
      /\ journal'.head \in {journal.work, journal.head}
  <2>1. journal.work \in [Inv -> Rec] /\ journal.head \in [Inv -> Rec]
    BY <1>1, Parts
  <2>2. CASE journal' = Committed(journal.work)
    BY <2>1, <2>2, CommittedType
  <2>3. CASE journal' = Committed(journal.head)
    BY <2>1, <2>3, CommittedType
  <2>4. QED
    BY <1>2, <2>2, <2>3
<1>4. TypeOK'
  BY <1>1, <1>3 DEF TypeOK
<1>5. /\ \A i \in Inv : journal.head[i] \in Rec /\ journal.work[i] \in Rec
      /\ \A i \in Inv : ~HalfSaved(i) => Same(journal.head[i], journal.work[i])
      /\ \A i \in Inv : HalfSaved(i) =>
           /\ lock[i] = Nobody
           /\ \/ Advanced(journal.head[i], journal.work[i])
              \/ Reopening(journal.head[i], journal.work[i])
  BY <1>1, Parts DEF CInv, HalfSaved, HalfDone
<1>6. HalfDone'
  <2>1. \A i \in Inv : ~HalfSaved(i)' /\ (HalfMerged(i)' <=> HalfMerged(i))
    BY <1>1, <1>3, SameHeads DEF HalfSaved, HalfMerged
  <2>2. QED
    BY <1>1, <2>1 DEF CInv, HalfDone
<1>7. Books'
  BY <1>1, <1>3 DEF CInv, Books
<1>8. ASSUME NEW i \in Inv
      PROVE  /\ Behind(journal.head[i], journal.head'[i])
             /\ journal.head[i].state = "merged" => journal.head'[i].state = "merged"
             /\ lock[i] # Nobody => Same(journal.head[i], journal.head'[i])
  <2>1. /\ Behind(journal.head[i], journal.work[i])
        /\ journal.head[i].state = "merged" => journal.work[i].state = "merged"
        /\ lock[i] # Nobody => Same(journal.head[i], journal.work[i])
    <3>1. CASE HalfSaved(i)
      BY <1>5, <3>1, AdvancedIsAhead, ReopeningIsAhead DEF Advanced, Terminal
    <3>2. CASE ~HalfSaved(i)
      BY <1>5, <3>2, SameIsBehind DEF Same
    <3>3. QED
      BY <3>1, <3>2
  <2>2. QED
    BY <1>1, <1>3, <2>1, SameHeads
<1>9. \A i \in Inv : MinutesKept(i)
  BY <1>1 DEF MinutesKept, Kept
<1>10. QED
  BY <1>1, <1>4, <1>6, <1>7, <1>8, <1>9, NobodysStep

LEMMA ScratchSteps ==
  ASSUME CInv, NEW i \in Inv, SeatWrites(i) \/ SeatRenames(i) \/ SeatAnswers(i) \/ ScratchFault(i)
  PROVE  CInv'
<1>1. TypeOK /\ scratch[i].json \in Content /\ scratch[i].tmp \in Content
  BY DEF CInv, TypeOK
<1>2. PICK j \in Content, t \in Content : Scratch(i, j, t)
  BY <1>1 DEF SeatWrites, SeatRenames, SeatAnswers, ScratchFault, Content
<1>3. /\ scratch' \in [Inv -> [json : Content, tmp : Content]]
      /\ UNCHANGED <<journal, minutes, lock, mem, pc, job, dispatched>>
  BY <1>1, <1>2 DEF Scratch, TypeOK
<1>4. faults' \in 0..MaxFault
  BY <1>1, CollectionAssumption
     DEF TypeOK, SeatWrites, SeatRenames, SeatAnswers, ScratchFault, Fault
<1>5. TypeOK'
  BY <1>1, <1>3, <1>4 DEF TypeOK
<1>6. HalfDone' /\ Books'
  BY <1>3, FilesAsBefore
<1>7. \A k \in Inv : MinutesKept(k)
  BY <1>3 DEF MinutesKept, Kept
<1>8. QED
  BY <1>1, <1>3, <1>5, <1>6, <1>7, SameHeads, NobodysStep

-----------------------------------------------------------------------------
LEMMA Initially == Init => CInv
<1> SUFFICES ASSUME Init
             PROVE  CInv
  OBVIOUS
<1>1. PICK r \in [Inv -> {Fresh, Legacy}] : journal = Committed(r)
  BY DEF Init
<1>2. /\ Fresh \in Rec /\ Fresh.state = "prepared"
      /\ Legacy \in Rec /\ Legacy.state = "failed"
  BY DEF Fresh, Legacy, Rec, State, Detail
<1>3. /\ r \in [Inv -> Rec]
      /\ journal \in File([Inv -> Rec]) /\ journal.work = r /\ journal.head = r
  BY <1>1, <1>2, CommittedType
<1> DEFINE none == [i \in Inv |-> <<>>]
<1>4. /\ none \in [Inv -> Seq(Digest)]
      /\ minutes \in File([Inv -> Seq(Digest)]) /\ minutes.work = none /\ minutes.head = none
  <2>1. none \in [Inv -> Seq(Digest)] /\ minutes = Committed(none)
    BY DEF Init
  <2> HIDE DEF none
  <2>2. QED
    BY <2>1, CommittedType
<1>5. TypeOK
  <2>1. mem \in [Proc -> [Inv -> Rec \cup {NoRec}]] /\ pc \in [Proc -> Pc]
    BY DEF Init, NoRecords, Pc
  <2>2. job \in [Proc -> [inv : Inv \cup {None}, cmd : Command, data : Content,
                          tmp : BOOLEAN, next : Pc]]
    BY DEF Init, NoJob, Command, Content, Pc
  <2>3. scratch \in [Inv -> [json : Content, tmp : Content]]
    BY DEF Init, Content
  <2>4. faults \in 0..MaxFault /\ dispatched \subseteq Inv
        /\ lock \in [Inv -> Collector \cup {Nobody}]
    BY CollectionAssumption DEF Init
  <2>5. QED
    BY <1>3, <1>4, <2>1, <2>2, <2>3, <2>4 DEF TypeOK
<1>6. /\ \A p \in Proc : pc[p] = "idle" /\ mem[p] = NoRecords
      /\ \A i \in Inv : lock[i] = Nobody
  BY DEF Init
<1>7. Locks
  BY <1>6 DEF Locks, InCommand, Proc
<1>8. HalfDone
  BY <1>3, <1>4, <1>5, SameHeads DEF HalfDone, HalfSaved, HalfMerged
<1>9. Books
  <2>1. \A i \in Inv : r[i].state \in {"prepared", "failed"}
    BY <1>2
  <2>2. \A i \in Inv : minutes.work[i] = <<>>
    BY <1>4
  <2>3. QED
    BY <1>3, <2>1, <2>2 DEF Books, Backed
<1>10. \A p \in Proc : InStep(p)
  BY <1>6 DEF InStep, Behind, NoRecords, InCommand
<1>11. QED
  BY <1>5, <1>7, <1>8, <1>9, <1>10 DEF CInv

LEMMA StutterKeeps ==
  ASSUME CInv, UNCHANGED vars
  PROVE  CInv'
BY DEF vars, CInv, TypeOK, Locks, HalfDone, HalfSaved, HalfMerged, Books, InStep, HolderKnows,
       TargetOf, RecOf

LEMMA NextStep ==
  ASSUME CInv, [Next]_vars
  PROVE  CInv'
<1>1. CASE \E p \in Collector : \E i \in Inv : \E c \in Command : Begin(p, i, c)
  BY <1>1, BeginStep
<1>2. CASE \E p \in Collector : Continue(p)
  <2>1. PICK p \in Collector : Continue(p)
    BY <1>2
  <2>2. p \in Proc
    BY DEF Proc
  <2>3. CASE DispatchReturns(p) \/ DispatchSends(p) \/ SendReturns(p)
    BY <2>3, DispatchSteps
  <2>4. CASE CancelReturns(p) \/ Cancels(p)
    BY <2>4, CancelSteps
  <2>5. CASE CollectReturns(p) \/ GivesUp(p)
    BY <2>5, CollectReturnsStep
  <2>6. CASE CollectReopens(p) \/ CollectRecovers(p)
    BY <2>6, ReopensStep, CollectRecoversStep
  <2>7. CASE TimesOut(p) \/ FindsJson(p) \/ ReadsTmp(p)
    BY <2>7, SearchSteps
  <2>8. CASE RereadsTmp(p) \/ NotesOutput(p) \/ Validates(p)
    BY <2>8, RereadsStep, NotesStep, ValidatesStep
  <2>9. CASE MergeRefuses(p) \/ Merges(p) \/ MarksMerged(p)
    BY <2>9, MergeRefusesStep, MergesStep, MarksMergedStep
  <2>10. CASE Saves(p)
    BY <2>10, SavesStep
  <2>11. CASE Aborts(p) \/ Finishes(p)
    BY <2>2, <2>11, LeavesSteps
  <2>12. QED
    BY <2>1, <2>3, <2>4, <2>5, <2>6, <2>7, <2>8, <2>9, <2>10, <2>11 DEF Continue
<1>3. CASE \E p \in Collector : DiesReopening(p) \/ DiesMerging(p)
  BY <1>3, DiesReopeningStep, DiesMergingStep
<1>4. CASE \E p \in Bystander : SnapshotLoads(p) \/ SnapshotSaves(p)
  BY <1>4, SnapshotLoadsStep, SnapshotSteps DEF Proc
<1>5. CASE \E p \in Proc : Dies(p) \/ DiesSaving(p)
  BY <1>5, LeavesSteps, SnapshotSteps
<1>6. CASE ForeignEdit \/ RepairMinutes \/ RepairJournal
  BY <1>6, MinutesSteps, RepairJournalStep
<1>7. CASE \E i \in Inv : SeatWrites(i) \/ SeatRenames(i) \/ SeatAnswers(i) \/ ScratchFault(i)
  BY <1>7, ScratchSteps
<1>8. CASE UNCHANGED vars
  BY <1>8, StutterKeeps
<1>9. QED
  BY <1>1, <1>2, <1>3, <1>4, <1>5, <1>6, <1>7, <1>8 DEF Next

(* The inductive invariant. *)
THEOREM CollectionInvariant == Spec => []CInv
<1>1. CInv /\ [Next]_vars => CInv'
  BY NextStep
<1> QED
  BY <1>1, Initially, PTL DEF Spec

(* The values collecting works with are of their types. *)
THEOREM CollectionTypes == Spec => []TypeOK
<1>1. CInv => TypeOK
  BY DEF CInv
<1> QED
  BY <1>1, CollectionInvariant, PTL

(***************************************************************************)
(* An answer in the minutes is one section that the journal knows, whatever *)
(* is collected, cancelled, saved late, killed or repaired after it.        *)
(***************************************************************************)
THEOREM AdoptedForGood == Spec => []AdoptedStays
<1>1. CInv => AdoptedStays
  <2> SUFFICES ASSUME CInv, NEW i \in Inv, minutes.work[i] # <<>>
               PROVE  /\ Len(minutes.work[i]) = 1
                      /\ journal.work[i].state \in {"validated", "merged"}
                      /\ journal.work[i].digest = minutes.work[i][1]
    BY DEF AdoptedStays
  <2>1. /\ minutes.work[i] = <<journal.work[i].digest>>
        /\ journal.work[i].state \in {"validated", "merged"}
    BY DEF CInv, Books, Backed
  <2> QED
    BY <2>1
<1> QED
  BY <1>1, CollectionInvariant, PTL

(* A record is merged only over a committed answer, and success is on record. *)
THEOREM MergedMeansCommitted == Spec => []MergedIsBacked
<1>1. CInv => MergedIsBacked
  BY DEF CInv, Books, Backed, InStep, Proc, MergedIsBacked
<1> QED
  BY <1>1, CollectionInvariant, PTL

(***************************************************************************)
(* The holder of an invocation lock works on a current record, although    *)
(* others save the journal meanwhile, and no refresh meets a clash.        *)
(***************************************************************************)
THEOREM HolderWorksOnCurrent == Spec => []HolderIsCurrent
<1>1. CInv => HolderIsCurrent
  <2> SUFFICES ASSUME CInv
               PROVE  HolderIsCurrent
    OBVIOUS
  <2>1. ASSUME NEW p \in Collector, NEW i \in Inv, lock[i] = p, pc[p] # "save", ~Dirty(journal)
        PROVE  /\ mem[p][i].state = journal.work[i].state
               /\ mem[p][i].epoch = journal.work[i].epoch
               /\ mem[p][i].digest = journal.work[i].digest
    <3>1. pc[p] \in InCommand /\ TargetOf(p) = i
      BY <2>1, CollectionAssumption DEF CInv, Locks, Proc
    <3>2. Same(mem[p][i], journal.head[i]) /\ journal.head = journal.work
      BY <2>1, <3>1, AtPlace DEF RecOf, Dirty
    <3> QED
      BY <3>2 DEF Same
  <2>2. ASSUME NEW p \in Proc, NEW i \in Inv, ~Dirty(journal)
        PROVE  ~Clash(journal.work[i], mem[p][i])
    <3>1. /\ journal.head = journal.work /\ TypeOK
          /\ journal.head[i] \in Rec /\ mem[p][i] \in Rec \cup {NoRec}
      BY <2>2, Parts DEF Dirty, CInv
    <3>2. CASE pc[p] = "save" /\ TargetOf(p) = i
      <4>1. pc[p] \in InCommand /\ p \in Collector
        BY <3>2 DEF InCommand, CInv, Locks, Proc
      <4>2. Advanced(journal.head[i], mem[p][i])
        BY <3>2, <4>1, AtPlace DEF HolderKnows, Knows, RecOf
      <4>3. mem[p][i] \in Rec
        BY <3>1, <4>2 DEF Advanced
      <4> QED
        BY <3>1, <4>2, <4>3, AdvancedIsAhead, NoRecAssumption DEF Behind, Clash
    <3>3. CASE ~(pc[p] = "save" /\ TargetOf(p) = i)
      <4>1. Behind(mem[p][i], journal.head[i])
        BY <3>3 DEF CInv, InStep
      <4> QED
        BY <3>1, <4>1 DEF Behind, Clash, NotNewer
    <3> QED
      BY <3>2, <3>3
  <2> QED
    BY <2>1, <2>2 DEF HolderIsCurrent
<1> QED
  BY <1>1, CollectionInvariant, PTL

(* A relay gets a packet only of an invocation that is on record as prepared. *)
THEOREM OnlyPreparedIsSent == Spec => []SendsOnlyPrepared
<1>1. CInv => SendsOnlyPrepared
  <2> SUFFICES ASSUME CInv, NEW p \in Collector, pc[p] = "sending"
               PROVE  journal.work[TargetOf(p)].state = "prepared"
    BY DEF SendsOnlyPrepared
  <2>1. pc[p] \in InCommand
    BY DEF InCommand
  <2>2. /\ RecOf(p).state = "prepared"
        /\ Same(RecOf(p), journal.head[TargetOf(p)])
        /\ Same(journal.head[TargetOf(p)], journal.work[TargetOf(p)])
    BY <2>1, AtPlace DEF HolderKnows, Knows
  <2> QED
    BY <2>2 DEF Same
<1> QED
  BY <1>1, CollectionInvariant, PTL

-----------------------------------------------------------------------------
(***************************************************************************)
(* The refinement.  A step commits a change of one record or of one        *)
(* section, and the phase of that invocation alone moves, as promised.     *)
(***************************************************************************)
LEMMA SamePhase ==
  ASSUME NEW r, NEW s, Same(r, s)
  PROVE  (Closed(r) <=> Closed(s)) /\ (r.state = "merged" <=> s.state = "merged")
BY DEF Same, Closed, Reopenable

Stays(i) == PhaseOf(i)' = PhaseOf(i) /\ AnswerIn(i)' = AnswerIn(i)

Moves(i) ==
  \/ PhaseOf(i) = "open" /\ PhaseOf(i)' = "adopted" /\ AnswerIn(i)' \in Digest
  \/ PhaseOf(i) = "adopted" /\ PhaseOf(i)' = "acknowledged" /\ AnswerIn(i)' = AnswerIn(i)
  \/ PhaseOf(i) = "open" /\ PhaseOf(i)' = "closed" /\ AnswerIn(i)' = AnswerIn(i)

LEMMA RecordSame ==
  ASSUME NEW i \in Inv, Same(journal.head[i], journal.head'[i]), minutes.head'[i] = minutes.head[i]
  PROVE  Stays(i)
BY SamePhase DEF Stays, PhaseOf, AnswerIn

LEMMA RecordAdvances ==
  ASSUME CInv, CInv', NEW i \in Inv, Advanced(journal.head[i], journal.head'[i]),
         minutes.head'[i] = minutes.head[i]
  PROVE  Stays(i) \/ Moves(i)
<1> DEFINE h == journal.head[i]
           k == journal.head'[i]
<1>1. AnswerIn(i)' = AnswerIn(i)
  BY DEF AnswerIn
<1>2. h.state # "merged" /\ ~Closed(h)
  BY DEF Advanced, Terminal, Closed
<1>3. CASE minutes.head[i] # <<>>
  BY <1>1, <1>2, <1>3 DEF Stays, Moves, PhaseOf
<1>4. CASE minutes.head[i] = <<>>
  BY <1>1, <1>2, <1>4 DEF Stays, Moves, PhaseOf
<1> QED
  BY <1>3, <1>4

LEMMA RecordReopens ==
  ASSUME NEW i \in Inv, journal.head[i].state = "failed", Reopenable(journal.head[i]),
         journal.head'[i].state = "waiting",
         minutes.head[i] = <<>>, minutes.head'[i] = <<>>
  PROVE  Stays(i)
BY DEF Stays, PhaseOf, AnswerIn, Closed, Reopenable

LEMMA SectionAdopted ==
  ASSUME CInv, CInv', NEW i \in Inv, journal.head'[i] = journal.head[i],
         minutes.head[i] = <<>>, minutes.head'[i] # <<>>
  PROVE  Moves(i)
<1> DEFINE h == journal.head[i]
           m == minutes.head'[i]
<1>1. /\ minutes.work'[i] = m /\ Backed(h, m, m) /\ Backed(h, minutes.work[i], minutes.head[i])
      /\ m \in Seq(Digest)
  <2>1. /\ HalfDone' /\ Books' /\ TypeOK' /\ Books
    BY DEF CInv
  <2>2. ~HalfMerged(i)'
    BY <2>1 DEF HalfDone
  <2>3. minutes.work'[i] = m
    BY <2>2 DEF HalfMerged
  <2>4. m \in Seq(Digest)
    BY <2>1 DEF TypeOK, File
  <2> QED
    BY <2>1, <2>3, <2>4 DEF Books
<1>2. m = <<h.digest>> /\ h.state \in {"validated", "merged"}
  BY <1>1 DEF Backed
<1>3. h.state # "merged"
  BY <1>1 DEF Backed
<1>4. PhaseOf(i) = "open" /\ PhaseOf(i)' = "adopted"
  BY <1>2, <1>3 DEF PhaseOf, Closed
<1>5. m[1] \in Digest
  BY <1>1, <1>2
<1>6. AnswerIn(i)' = m[1]
  BY DEF AnswerIn
<1> QED
  BY <1>4, <1>5, <1>6 DEF Moves

(* One invocation at a time. *)
OneMoves == \E i \in Inv : /\ Stays(i) \/ Moves(i)
                           /\ \A j \in Inv : j # i => Stays(j)

LEMMA OneIsPromised ==
  ASSUME OneMoves \/ \A i \in Inv : Stays(i)
  PROVE  [Promise!Next]_<<[i \in Inv |-> PhaseOf(i)], [i \in Inv |-> AnswerIn(i)]>>
<1> DEFINE phase == [i \in Inv |-> PhaseOf(i)]
           answer == [i \in Inv |-> AnswerIn(i)]
           phase2 == [i \in Inv |-> PhaseOf(i)']
           answer2 == [i \in Inv |-> AnswerIn(i)']
<1>1. CASE \A i \in Inv : Stays(i)
  BY <1>1 DEF Stays
<1>2. CASE OneMoves
  <2>1. PICK i \in Inv : (Stays(i) \/ Moves(i)) /\ \A j \in Inv : j # i => Stays(j)
    BY <1>2 DEF OneMoves
  <2>2. CASE Stays(i)
    BY <1>1, <2>1, <2>2
  <2>3. CASE Moves(i)
    <3>1. /\ phase2 = [phase EXCEPT ![i] = PhaseOf(i)']
          /\ answer2 = [answer EXCEPT ![i] = AnswerIn(i)']
          /\ phase[i] = PhaseOf(i) /\ answer[i] = AnswerIn(i)
      BY <2>1 DEF Stays
    <3>2. CASE PhaseOf(i) = "open" /\ PhaseOf(i)' = "adopted" /\ AnswerIn(i)' \in Digest
      <4>1. Promise!Adopt(i, AnswerIn(i)')
        BY <3>1, <3>2 DEF Promise!Adopt
      <4> QED
        BY <3>2, <4>1 DEF Promise!Next
    <3>3. CASE /\ PhaseOf(i) = "adopted" /\ PhaseOf(i)' = "acknowledged"
               /\ AnswerIn(i)' = AnswerIn(i)
      <4>1. answer2 = answer
        BY <3>1, <3>3
      <4>2. Promise!Acknowledge(i)
        BY <3>1, <3>3, <4>1 DEF Promise!Acknowledge
      <4> QED
        BY <4>2 DEF Promise!Next
    <3>4. CASE /\ PhaseOf(i) = "open" /\ PhaseOf(i)' = "closed"
               /\ AnswerIn(i)' = AnswerIn(i)
      <4>1. answer2 = answer
        BY <3>1, <3>4
      <4>2. Promise!Close(i)
        BY <3>1, <3>4, <4>1 DEF Promise!Close
      <4> QED
        BY <4>2 DEF Promise!Next
    <3> QED
      BY <2>3, <3>2, <3>3, <3>4 DEF Moves
  <2> QED
    BY <2>1, <2>2, <2>3
<1> QED
  BY <1>1, <1>2

(* Which steps write what is committed. *)
LEMMA HeadsStay ==
  ASSUME minutes'.head = minutes.head, journal'.head = journal.head
  PROVE  \A i \in Inv : Stays(i)
BY DEF Stays, PhaseOf, AnswerIn

LEMMA SavePromised ==
  ASSUME CInv, CInv', NEW p \in Proc, pc[p] \in {"save", "snapshot"}, ~Dirty(journal),
         journal' = Committed(Refreshed(p)), UNCHANGED minutes
  PROVE  OneMoves \/ \A i \in Inv : Stays(i)
<1>1. /\ Refreshed(p) \in [Inv -> Rec]
      /\ \A i \in Inv : SetStateOf(p, i) => Advanced(journal.head[i], Refreshed(p)[i])
      /\ \A i \in Inv : ~SetStateOf(p, i) => Same(journal.head[i], Refreshed(p)[i])
  BY RefreshedFacts
<1>2. journal'.head = Refreshed(p)
  BY <1>1, CommittedType
<1>3. \A i \in Inv : ~SetStateOf(p, i) => Stays(i)
  BY <1>1, <1>2, RecordSame
<1>4. \A i \in Inv : SetStateOf(p, i) => Stays(i) \/ Moves(i)
  BY <1>1, <1>2, RecordAdvances
<1>5. \A i, j \in Inv : SetStateOf(p, i) /\ SetStateOf(p, j) => i = j
  BY DEF SetStateOf
<1> QED
  BY <1>3, <1>4, <1>5 DEF OneMoves

LEMMA ReopenPromised ==
  ASSUME CInv, CInv', NEW p \in Collector, CollectReopens(p)
  PROVE  \A i \in Inv : Stays(i)
<1>1. /\ pc[p] \in InCommand /\ pc[p] # "save" /\ journal.work = journal.head
      /\ RecOf(p).state = "failed" /\ Reopenable(journal.work[TargetOf(p)])
      /\ UNCHANGED minutes
      /\ journal' = Committed([journal.work EXCEPT ![TargetOf(p)] =
                                 Reopened(journal.work[TargetOf(p)])])
  BY DEF CollectReopens, Loaded, InCommand, Dirty
<1>2. /\ TypeOK /\ TargetOf(p) \in Inv
      /\ Same(RecOf(p), journal.head[TargetOf(p)])
      /\ Backed(journal.head[TargetOf(p)], minutes.work[TargetOf(p)], minutes.head[TargetOf(p)])
  BY <1>1, AtPlace
<1>3. journal.work \in [Inv -> Rec] /\ Reopened(journal.work[TargetOf(p)]) \in Rec
      /\ Reopened(journal.work[TargetOf(p)]).state = "waiting"
  BY <1>2, Parts, ReopenedType
<1>4. /\ journal'.head[TargetOf(p)].state = "waiting"
      /\ \A j \in Inv : j # TargetOf(p) => journal'.head[j] = journal.head[j]
  <2> DEFINE w == [journal.work EXCEPT ![TargetOf(p)] = Reopened(journal.work[TargetOf(p)])]
  <2>1. /\ w \in [Inv -> Rec] /\ w[TargetOf(p)].state = "waiting"
        /\ \A j \in Inv : j # TargetOf(p) => w[j] = journal.work[j]
    BY <1>2, <1>3
  <2>2. journal'.head = w
    BY <1>1, <2>1, CommittedType
  <2> QED
    BY <1>1, <2>1, <2>2
<1>5. journal.head[TargetOf(p)].state = "failed" /\ minutes.work[TargetOf(p)] = <<>>
  BY <1>1, <1>2 DEF Same, Backed
<1>6. minutes.head[TargetOf(p)] = <<>>
  BY <1>2, <1>5 DEF CInv, HalfDone, HalfMerged
<1>7. Stays(TargetOf(p))
  BY <1>1, <1>2, <1>4, <1>5, <1>6, RecordReopens
<1>8. \A j \in Inv : j # TargetOf(p) => Stays(j)
  BY <1>1, <1>2, <1>4, SameHeads, RecordSame
<1> QED
  BY <1>7, <1>8

LEMMA MergePromised ==
  ASSUME CInv, CInv', NEW p \in Collector, Merges(p)
  PROVE  OneMoves \/ \A i \in Inv : Stays(i)
<1>1. /\ pc[p] = "merge" /\ ~MergeRefused(p) /\ pc[p] \in InCommand /\ UNCHANGED journal
  BY DEF Merges, InCommand
<1>2. /\ minutes.work[TargetOf(p)] = <<>> /\ minutes.work = minutes.head
      /\ Section(TargetOf(p), job[p].data) \in [Inv -> Seq(Digest)]
      /\ Section(TargetOf(p), job[p].data)[TargetOf(p)] = <<job[p].data>>
      /\ \A j \in Inv : j # TargetOf(p) =>
           Section(TargetOf(p), job[p].data)[j] = minutes.work[j]
  BY <1>1, MergeFacts
<1>3. minutes'.head = Section(TargetOf(p), job[p].data) /\ TypeOK /\ TargetOf(p) \in Inv
  <2>1. TypeOK /\ TargetOf(p) \in Inv
    BY <1>1, AtPlace
  <2>2. minutes' = Committed(Section(TargetOf(p), job[p].data))
    BY <1>2 DEF Merges
  <2> QED
    BY <2>1, <2>2 DEF Committed
<1>4. Moves(TargetOf(p))
  <2> DEFINE i == TargetOf(p)
  <2>1. <<job[p].data>> # <<>>
    OBVIOUS
  <2>2. minutes.head[i] = <<>> /\ minutes.head'[i] # <<>> /\ journal.head'[i] = journal.head[i]
    BY <1>1, <1>2, <1>3, <2>1
  <2>3. i \in Inv
    BY <1>3
  <2> HIDE DEF i
  <2>4. Moves(i)
    BY <2>2, <2>3, SectionAdopted
  <2> QED
    BY <2>4 DEF i
<1>5. \A j \in Inv : j # TargetOf(p) => Stays(j)
  BY <1>1, <1>2, <1>3, SameHeads, RecordSame
<1> QED
  BY <1>3, <1>4, <1>5 DEF OneMoves

LEMMA RepairMinutesPromised ==
  ASSUME CInv, CInv', RepairMinutes
  PROVE  OneMoves \/ \A i \in Inv : Stays(i)
<1>1. /\ UNCHANGED journal /\ TypeOK
      /\ minutes'.head \in {minutes.work, minutes.head}
  <2>1. TypeOK
    BY DEF CInv
  <2> QED
    BY <2>1, Parts, CommittedType DEF RepairMinutes
<1>2. CASE minutes'.head = minutes.head
  BY <1>1, <1>2, HeadsStay
<1>3. CASE minutes'.head = minutes.work
  <2>1. \A i \in Inv : ~HalfMerged(i) => Stays(i)
    BY <1>1, <1>3, SameHeads, RecordSame DEF HalfMerged
  <2>2. \A i \in Inv : HalfMerged(i) => Moves(i)
    BY <1>1, <1>3, SectionAdopted DEF HalfMerged, CInv, HalfDone
  <2>3. \A i, j \in Inv : HalfMerged(i) /\ HalfMerged(j) => i = j
    BY DEF CInv, HalfDone
  <2> QED
    BY <2>1, <2>2, <2>3 DEF OneMoves
<1> QED
  BY <1>1, <1>2, <1>3

LEMMA RepairJournalPromised ==
  ASSUME CInv, CInv', RepairJournal
  PROVE  OneMoves \/ \A i \in Inv : Stays(i)
<1>1. /\ UNCHANGED minutes /\ TypeOK
      /\ journal'.head \in {journal.work, journal.head}
  <2>1. TypeOK
    BY DEF CInv
  <2> QED
    BY <2>1, Parts, CommittedType DEF RepairJournal
<1>2. CASE journal'.head = journal.head
  BY <1>1, <1>2, HeadsStay
<1>3. CASE journal'.head = journal.work
  <2>1. \A i \in Inv : ~HalfSaved(i) => Stays(i)
    BY <1>1, <1>3, RecordSame DEF HalfSaved
  <2>2. ASSUME NEW i \in Inv, HalfSaved(i)
        PROVE  Stays(i) \/ Moves(i)
    <3>1. CASE Advanced(journal.head[i], journal.work[i])
      BY <1>1, <1>3, <3>1, RecordAdvances
    <3>2. CASE Reopening(journal.head[i], journal.work[i])
      <4>1. /\ journal.head[i] \in Rec /\ journal'.head[i].state = "waiting"
            /\ Reopenable(journal.head[i])
        BY <1>1, <1>3, <3>2, Parts, ReopeningIsAhead DEF Reopening
      <4>2. minutes.head[i] = <<>>
        <5>1. minutes.work[i] = <<>>
          BY <4>1 DEF CInv, Books, Backed, Reopenable
        <5> QED
          BY <5>1 DEF CInv, HalfDone, HalfMerged
      <4> QED
        BY <1>1, <4>1, <4>2, RecordReopens DEF Reopenable
    <3> QED
      BY <2>2, <3>1, <3>2 DEF CInv, HalfDone
  <2>3. \A i, j \in Inv : HalfSaved(i) /\ HalfSaved(j) => i = j
    BY DEF CInv, HalfDone
  <2> QED
    BY <2>1, <2>2, <2>3 DEF OneMoves
<1> QED
  BY <1>1, <1>2, <1>3

LEMMA StepIsPromised ==
  ASSUME CInv, CInv', [Next]_vars
  PROVE  OneMoves \/ \A i \in Inv : Stays(i)
<1>1. CASE \E p \in Collector : CollectReopens(p)
  BY <1>1, ReopenPromised
<1>2. CASE \E p \in Collector : Merges(p)
  BY <1>2, MergePromised
<1>3. CASE \E p \in Proc : Saves(p) \/ SnapshotSaves(p)
  BY <1>3, SavePromised DEF Saves, SnapshotSaves
<1>4. CASE RepairMinutes \/ RepairJournal
  BY <1>4, RepairMinutesPromised, RepairJournalPromised
<1>5. CASE \E p \in Collector : DiesMerging(p)
  <2>1. TypeOK /\ UNCHANGED journal
    BY <1>5 DEF CInv, DiesMerging
  <2>2. PICK w : minutes' = [minutes EXCEPT !.work = w]
    BY <1>5 DEF DiesMerging, Written
  <2>3. minutes'.head = minutes.head
    BY <2>1, <2>2 DEF TypeOK, File
  <2> QED
    BY <2>1, <2>3, HeadsStay
<1>6. CASE \E p \in Proc : DiesSaving(p)
  <2>1. TypeOK /\ UNCHANGED minutes
    BY <1>6 DEF CInv, DiesSaving
  <2>2. PICK w, b : journal' = [[journal EXCEPT !.work = w] EXCEPT !.foreign = b]
    BY <1>6 DEF DiesSaving, Written
  <2>3. journal'.head = journal.head
    BY <2>1, <2>2 DEF TypeOK, File
  <2> QED
    BY <2>1, <2>3, HeadsStay
<1>7. CASE ForeignEdit
  BY <1>7, HeadsStay DEF CInv, TypeOK, File, ForeignEdit
<1>8. CASE UNCHANGED <<journal, minutes>>
  BY <1>8, HeadsStay
<1>9. CASE \E p \in Collector : DiesReopening(p)
  <2>1. TypeOK /\ UNCHANGED minutes
    BY <1>9 DEF CInv, DiesReopening
  <2>2. PICK w : journal' = [journal EXCEPT !.work = w]
    BY <1>9 DEF DiesReopening, Written
  <2>3. journal'.head = journal.head
    BY <2>1, <2>2 DEF TypeOK, File
  <2> QED
    BY <2>1, <2>3, HeadsStay
<1> QED
  <2>1. CASE \E p \in Collector :
               (\E i \in Inv : \E c \in Command : Begin(p, i, c)) \/ Continue(p)
    <3>1. PICK p \in Collector :
            (\E i \in Inv : \E c \in Command : Begin(p, i, c)) \/ Continue(p)
      BY <2>1
    <3>2. p \in Proc
      BY DEF Proc
    <3>3. \/ CollectReopens(p) \/ Merges(p) \/ Saves(p)
          \/ UNCHANGED <<journal, minutes>>
      BY <3>1 DEF Continue, Begin, DispatchReturns, DispatchSends, SendReturns, CancelReturns,
                  Cancels, CollectReturns, CollectRecovers, GivesUp, TimesOut, FindsJson,
                  ReadsTmp, RereadsTmp, NotesOutput, Validates, MergeRefuses, MarksMerged,
                  Aborts, Finishes, Fail, Stage, Handle
    <3> QED
      BY <1>1, <1>2, <1>3, <1>8, <3>2, <3>3
  <2>2. CASE \E p \in Bystander : SnapshotLoads(p) \/ SnapshotSaves(p)
    BY <1>3, <1>8, <2>2 DEF Proc, SnapshotLoads
  <2>3. CASE \E p \in Proc : Dies(p) \/ DiesSaving(p)
    BY <1>6, <1>8, <2>3 DEF Dies
  <2>4. CASE \E i \in Inv : SeatWrites(i) \/ SeatRenames(i) \/ SeatAnswers(i) \/ ScratchFault(i)
    BY <1>8, <2>4 DEF SeatWrites, SeatRenames, SeatAnswers, ScratchFault, Scratch
  <2>5. CASE UNCHANGED vars
    BY <1>8, <2>5 DEF vars
  <2> QED
    BY <1>4, <1>5, <1>7, <1>9, <2>1, <2>2, <2>3, <2>4, <2>5 DEF Next

LEMMA InitIsPromised == Init => Promise!Init
<1> SUFFICES ASSUME Init
             PROVE  Promise!Init
  OBVIOUS
<1>1. PICK r \in [Inv -> {Fresh, Legacy}] : journal = Committed(r)
  BY DEF Init
<1>2. journal.head = r /\ minutes.head = [i \in Inv |-> <<>>]
  BY <1>1 DEF Init, Committed
<1>3. ~Closed(Fresh) /\ ~Closed(Legacy)
  BY DEF Closed, Reopenable, Fresh, Legacy
<1>4. \A i \in Inv : PhaseOf(i) = "open" /\ AnswerIn(i) = None
  BY <1>2, <1>3 DEF PhaseOf, AnswerIn
<1> QED
  BY <1>4 DEF Promise!Init

(***************************************************************************)
(* What is committed keeps the promise of Adoption: an invocation closes   *)
(* without an answer or adopts exactly one, and only an adopted answer is  *)
(* acknowledged -- with any number of processes, deaths and repairs.       *)
(***************************************************************************)
THEOREM AdoptionKept == Spec => ImplementsAdoption
<1>1. CInv /\ CInv' /\ [Next]_vars =>
        [Promise!Next]_<<[i \in Inv |-> PhaseOf(i)], [i \in Inv |-> AnswerIn(i)]>>
  BY StepIsPromised, OneIsPromised
<1> QED
  BY <1>1, InitIsPromised, CollectionInvariant, PTL DEF Spec, ImplementsAdoption, Promise!Spec
=============================================================================
