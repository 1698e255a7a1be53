--------------------------- MODULE Journal_proofs ---------------------------
(***************************************************************************)
(* Proofs about Journal: the transition relation of the state machine is a *)
(* partial order, the overlay is an upper bound in the order it induces,   *)
(* and so no save takes the disk back; and the round on disk is backed by  *)
(* merged answers.                                                         *)
(***************************************************************************)
EXTENDS Journal, TLAPS

(* How far a state is from "prepared": the reading the proofs use. *)
Rank(s) ==
  CASE s = "prepared" -> 0
    [] s = "delivered" -> 1
    [] s = "delivery-unknown" -> 2
    [] s = "waiting" -> 3
    [] s = "output-received" -> 4
    [] s = "validated" -> 5
    [] s \in Terminal -> 6

(***************************************************************************)
(* _transition_allowed lets a record move exactly to a later rank: its     *)
(* special cases for waiting, delivery-unknown and failed add up to one    *)
(* partial order with three incomparable ends.                             *)
(***************************************************************************)
LEMMA TransitionByRank ==
  ASSUME NEW a \in State, NEW b \in State
  PROVE  TransitionAllowed(a, b) <=> a = b \/ Rank(a) < Rank(b)
BY DEF TransitionAllowed, Rank, State, Terminal, ForwardIndex

(* Every state has one of seven ranks. *)
LEMMA RankType == ASSUME NEW a \in State PROVE Rank(a) \in 0..6
BY DEF Rank, State, Terminal

(* NotNewer is a preorder on records, the missing record below all. *)
LEMMA NotNewerReflexive ==
  ASSUME NEW a \in Rec \cup {NoRec}
  PROVE  NotNewer(a, a)
BY NoRecAssumption DEF NotNewer, TransitionAllowed, Rec

(* Being overtaken twice is being overtaken: epochs first, then ranks. *)
LEMMA NotNewerTransitive ==
  ASSUME NEW a \in Rec \cup {NoRec}, NEW b \in Rec \cup {NoRec}, NEW c \in Rec \cup {NoRec},
         NotNewer(a, b), NotNewer(b, c)
  PROVE  NotNewer(a, c)
<1>1. CASE a = NoRec
  BY <1>1 DEF NotNewer
<1>2. CASE a # NoRec
  <2>1. a \in Rec /\ b \in Rec /\ c \in Rec
    BY <1>2 DEF NotNewer
  <2>2. /\ a.epoch \in Nat /\ b.epoch \in Nat /\ c.epoch \in Nat
        /\ a.state \in State /\ b.state \in State /\ c.state \in State
    BY <2>1 DEF Rec
  <2>3. /\ a.epoch < b.epoch \/ (a.epoch = b.epoch /\ (a.state = b.state \/ Rank(a.state) < Rank(b.state)))
        /\ b.epoch < c.epoch \/ (b.epoch = c.epoch /\ (b.state = c.state \/ Rank(b.state) < Rank(c.state)))
    BY <1>2, <2>1, <2>2, NoRecAssumption, TransitionByRank DEF NotNewer
  <2>4. a.epoch < c.epoch \/ (a.epoch = c.epoch /\ (a.state = c.state \/ Rank(a.state) < Rank(c.state)))
    BY <2>2, <2>3, RankType
  <2>5. QED
    BY <2>1, <2>2, <2>4, NoRecAssumption, TransitionByRank DEF NotNewer
<1>3. QED
  BY <1>1, <1>2

(* The overlay of two copies is one of them, and never behind the disk's. *)
LEMMA MergeRecBounds ==
  ASSUME NEW d \in Rec \cup {NoRec}, NEW l \in Rec \cup {NoRec}
  PROVE  /\ MergeRec(d, l) \in {d, l}
         /\ NotNewer(d, MergeRec(d, l))
         /\ NotNewer(l, MergeRec(d, l)) \/ Clash(d, l)
         /\ NotNewer(l, d) => NotNewer(MergeRec(d, l), d)
         /\ MergeRec(d, l) = NoRec <=> d = NoRec /\ l = NoRec
BY NotNewerReflexive DEF MergeRec, Clash, NotNewer

-----------------------------------------------------------------------------
(* Below is a preorder on journals, and the overlay an upper bound of the disk. *)
LEMMA BelowReflexive == ASSUME NEW d \in JournalData PROVE Below(d, d)
BY NotNewerReflexive DEF Below, JournalData

(* Two overlays in a row still only take the journal forward. *)
LEMMA BelowTransitive ==
  ASSUME NEW a \in JournalData, NEW b \in JournalData, NEW c \in JournalData,
         Below(a, b), Below(b, c)
  PROVE  Below(a, c)
<1>1. \A i \in Inv : NotNewer(a.inv[i], c.inv[i])
  BY NotNewerTransitive DEF Below, JournalData
<1>2. QED
  BY <1>1 DEF Below, JournalData

(* _merge_data makes a well-formed journal of two well-formed copies. *)
LEMMA MergeDataType ==
  ASSUME NEW d \in JournalData, NEW l \in JournalData
  PROVE  MergeData(d, l) \in JournalData
<1>1. \A i \in Inv : MergeRec(d.inv[i], l.inv[i]) \in Rec \cup {NoRec}
  BY MergeRecBounds DEF JournalData
<1>2. \A i \in Inv : Clash(d.inv[i], l.inv[i]) => d.inv[i] \in Rec /\ l.inv[i] \in Rec
  BY DEF Clash, NotNewer, JournalData
<1>3. {[inv |-> i, kept |-> d.inv[i], dropped |-> l.inv[i]] :
         i \in {j \in Inv : Clash(d.inv[j], l.inv[j])}} \in SUBSET Conflict
  BY <1>2 DEF Conflict
<1>4. Larger(d.round, l.round) \in Nat \ {0}
  BY DEF Larger, JournalData
<1>5. QED
  BY <1>1, <1>3, <1>4 DEF MergeData, JournalData

(* _merge_data never falls behind the disk copy it was given. *)
LEMMA MergeDataAboveDisk ==
  ASSUME NEW d \in JournalData, NEW l \in JournalData
  PROVE  Below(d, MergeData(d, l))
<1>1. \A i \in Inv : NotNewer(d.inv[i], MergeRec(d.inv[i], l.inv[i]))
  BY MergeRecBounds DEF JournalData
<1>2. QED
  BY <1>1 DEF Below, MergeData, Larger, JournalData

(* Overlaying a copy that is already below the disk adds nothing, not even a conflict. *)
LEMMA MergeDataBelowDisk ==
  ASSUME NEW d \in JournalData, NEW l \in JournalData, Below(l, d)
  PROVE  Below(MergeData(d, l), d)
<1>1. \A i \in Inv : NotNewer(MergeRec(d.inv[i], l.inv[i]), d.inv[i])
  BY MergeRecBounds DEF JournalData, Below
<1>2. \A i \in Inv : ~Clash(d.inv[i], l.inv[i])
  BY DEF Clash, Below
<1>3. QED
  BY <1>1, <1>2 DEF Below, MergeData, Larger, JournalData

(* A reopened record is well-formed, newer than the failed one, and of the same origin. *)
LEMMA ReopenedRecType ==
  ASSUME NEW r \in Rec
  PROVE  /\ ReopenedRec(r) \in Rec
         /\ NotNewer(r, ReopenedRec(r))
         /\ SameOrigin(ReopenedRec(r), r)
         /\ r.epoch <= ReopenedRec(r).epoch
<1> DEFINE e == r.epoch + 1
<1>0. e \in Nat /\ "waiting" \in State /\ "other" \in Detail
  BY DEF Rec, State, Detail
<1>1. ReopenedRec(r) \in Rec
  <2>1. ReopenedRec(r) = [r EXCEPT !.state = "waiting", !.detail = "other", !.epoch = e]
    BY DEF ReopenedRec
  <2>2. QED
    BY <1>0, <2>1 DEF Rec
<1>2. r.epoch < ReopenedRec(r).epoch /\ r.epoch <= ReopenedRec(r).epoch
  BY DEF ReopenedRec, Rec
<1>3. SameOrigin(ReopenedRec(r), r)
  BY DEF ReopenedRec, SameOrigin, Rec
<1>4. QED
  BY <1>1, <1>2, <1>3, NoRecAssumption DEF NotNewer

(* Replacing one invocation record keeps the journal well-formed. *)
LEMMA PutType ==
  ASSUME NEW d \in JournalData, NEW i \in Inv, NEW r \in Rec
  PROVE  Put(d, i, r) \in JournalData
BY DEF Put, JournalData

-----------------------------------------------------------------------------
(***************************************************************************)
(* The calls of journal.py, whoever makes them and with whatever state,    *)
(* detail and route: what the steps below are proved for, so that they     *)
(* hold for the clients of Journal and for the collectors of Rounds.       *)
(***************************************************************************)
AnyCall(p) ==
  \/ \E i \in Inv : \E x \in Seat : NewInvocation(p, i, x)
  \/ \E i \in Inv : \E r \in Route : SetRoute(p, i, r)
  \/ \E a \in Act : RecordHumanAction(p, a)
  \/ \E i \in Inv : \E s \in State : \E det \in Detail : SetState(p, i, s, det)
  \/ AdvanceRound(p)
  \/ Settle(p)
  \/ \E i \in Inv : Reopen(p, i)

AnyNext == \E p \in Proc : Load(p) \/ AnyCall(p) \/ Save(p) \/ Exit(p)

(* The clients of Journal do nothing else. *)
LEMMA NextIsAny == [Next]_vars => [AnyNext]_vars
BY JournalAssumption DEF Next, ClientCall, SetStateRefused, AdvanceNothing, AnyNext, AnyCall

(* No call makes a malformed journal of well-formed ones. *)
LEMMA TypeStep == TypeOK /\ [AnyNext]_vars => TypeOK'
<1> SUFFICES ASSUME TypeOK, [AnyNext]_vars PROVE TypeOK'
  OBVIOUS
<1> USE DEF TypeOK
<1>1. \A p \in Proc : Refreshed(p) \in JournalData
  BY MergeDataType DEF Refreshed
<1>2. ASSUME NEW p \in Proc, NEW d \in JournalData, Stage(p, d) PROVE TypeOK'
  BY <1>2 DEF Stage
<1>3. ASSUME NEW p \in Proc, Settle(p) PROVE TypeOK'
  BY <1>1, <1>3 DEF Settle
<1>4. ASSUME NEW p \in Proc, Load(p) PROVE TypeOK'
  BY <1>4 DEF Load
<1>5. ASSUME NEW p \in Proc, NEW i \in Inv, NEW x \in Seat, NewInvocation(p, i, x)
      PROVE TypeOK'
  <2>1. [participant |-> x, round |-> mem[p].round, state |-> "prepared",
         detail |-> "other", epoch |-> 0, route |-> "unset"] \in Rec
    BY DEF JournalData, Rec, State, Detail, Route
  <2>2. QED
    BY <1>2, <1>5, <2>1, PutType DEF NewInvocation
<1>6. ASSUME NEW p \in Proc, NEW i \in Inv, NEW r \in Route, SetRoute(p, i, r) PROVE TypeOK'
  <2>1. mem[p].inv[i] \in Rec
    BY <1>6 DEF SetRoute, JournalData
  <2>2. [mem[p].inv[i] EXCEPT !.route = r] \in Rec
    BY <2>1 DEF Rec
  <2>3. QED
    BY <1>2, <1>6, <2>2, PutType DEF SetRoute
<1>7. ASSUME NEW p \in Proc, NEW a \in Act, RecordHumanAction(p, a) PROVE TypeOK'
  <2>1. [mem[p] EXCEPT !.acts = @ \cup {a}] \in JournalData
    BY DEF JournalData
  <2>2. QED
    BY <1>2, <1>7, <2>1 DEF RecordHumanAction
<1>8. ASSUME NEW p \in Proc, NEW i \in Inv, NEW s \in State, NEW det \in Detail,
             SetState(p, i, s, det)
      PROVE TypeOK'
  <2>1. Refreshed(p) \in JournalData /\ Refreshed(p).inv[i] \in Rec
    BY <1>1, <1>8 DEF SetState, JournalData
  <2>2. [Refreshed(p).inv[i] EXCEPT !.state = s, !.detail = det] \in Rec
    BY <2>1 DEF Rec
  <2>3. QED
    BY <1>2, <1>8, <2>1, <2>2, PutType DEF SetState
<1>9. ASSUME NEW p \in Proc, AdvanceRound(p) PROVE TypeOK'
  <2>1. Refreshed(p) \in JournalData
    BY <1>1
  <2>2. [Refreshed(p) EXCEPT !.round = @ + 1] \in JournalData
    BY <2>1 DEF JournalData
  <2>3. QED
    BY <1>2, <1>9, <2>2 DEF AdvanceRound
<1>10. ASSUME NEW p \in Proc, NEW i \in Inv, Reopen(p, i) PROVE TypeOK'
  <2>1. disk.inv[i] \in Rec
    BY <1>10 DEF Reopen, JournalData
  <2>2. disk' \in JournalData
    BY <1>10, <2>1, ReopenedRecType, PutType DEF Reopen
  <2>3. QED
    BY <1>10, <2>2 DEF Reopen
<1>11. ASSUME NEW p \in Proc, Save(p) PROVE TypeOK'
  BY <1>1, <1>11 DEF Save
<1>12. ASSUME NEW p \in Proc, Exit(p) PROVE TypeOK'
  BY <1>12 DEF Exit, EmptyJournal, JournalData
<1>13. CASE UNCHANGED vars
  BY <1>13 DEF vars
<1>14. QED
  BY <1>3, <1>4, <1>5, <1>6, <1>7, <1>8, <1>9, <1>10, <1>11, <1>12, <1>13
  DEF AnyNext, AnyCall

(* journal.json and every snapshot of it are well-formed whatever the clients do. *)
THEOREM TypeCorrect == Spec => []TypeOK
<1>1. Init => TypeOK
  BY DEF Init, TypeOK, JournalData, EmptyJournal
<1>2. QED
  BY <1>1, TypeStep, NextIsAny, PTL DEF Spec

-----------------------------------------------------------------------------
(* The order on journal.json: only Reopen and Save write it, and neither takes it back. *)
LEMMA StepMonotone == TypeOK /\ [AnyNext]_vars => Below(disk, disk')
<1> SUFFICES ASSUME TypeOK, [AnyNext]_vars PROVE Below(disk, disk')
  OBVIOUS
<1>1. Below(disk, disk)
  BY BelowReflexive DEF TypeOK
<1>2. ASSUME NEW p \in Proc, Save(p) PROVE Below(disk, disk')
  BY <1>2, MergeDataAboveDisk DEF Save, Refreshed, TypeOK
<1>3. ASSUME NEW p \in Proc, NEW i \in Inv, Reopen(p, i) PROVE Below(disk, disk')
  <2>1. disk.inv[i] \in Rec /\ disk \in JournalData
    BY <1>3 DEF Reopen, TypeOK, JournalData
  <2>2. NotNewer(disk.inv[i], ReopenedRec(disk.inv[i]))
    BY <2>1, ReopenedRecType
  <2>3. \A j \in Inv : NotNewer(disk.inv[j], disk'.inv[j])
    BY <1>1, <1>3, <2>1, <2>2 DEF Reopen, Put, Below, JournalData
  <2>4. disk'.round = disk.round /\ disk'.acts = disk.acts /\ disk'.conf = disk.conf
    BY <1>3, <2>1 DEF Reopen, Put, JournalData
  <2>5. QED
    BY <1>1, <2>3, <2>4 DEF Below
<1>4. QED
  BY <1>1, <1>2, <1>3
  DEF AnyNext, AnyCall, Load, NewInvocation, SetRoute, RecordHumanAction, SetState,
      AdvanceRound, Stage, Settle, Exit, vars

(* The order property of journal.json for any number of processes and invocations. *)
THEOREM DiskNeverGoesBack == Spec => DiskMonotone
BY StepMonotone, NextIsAny, TypeCorrect, PTL DEF Spec, DiskMonotone

(* A save that returns: each record is on disk, overtaken there, or logged. *)
LEMMA SaveStep ==
  ASSUME TypeOK, [AnyNext]_vars, NEW p \in Proc, pc[p] = "saving", pc'[p] = "ready"
  PROVE  /\ mem[p].acts \subseteq disk'.acts
         /\ \A i \in Inv :
              \/ NotNewer(mem[p].inv[i], disk'.inv[i])
              \/ [inv |-> i, kept |-> disk.inv[i], dropped |-> mem[p].inv[i]] \in disk'.conf
<1>1. Save(p)
  <2>1. PICK q \in Proc : Load(q) \/ AnyCall(q) \/ Save(q) \/ Exit(q)
    BY DEF AnyNext, vars
  <2>2. pc' = [pc EXCEPT ![q] = pc'[q]]
    BY <2>1 DEF Load, AnyCall, NewInvocation, SetRoute, RecordHumanAction, SetState, AdvanceRound,
       Reopen, Stage, Settle, Save, Exit, TypeOK
  <2>3. q = p
    BY <2>2 DEF TypeOK
  <2>4. ~Load(p) /\ ~AnyCall(p) /\ ~Exit(p)
    BY DEF Load, AnyCall, NewInvocation, SetRoute, RecordHumanAction, SetState, AdvanceRound,
       Reopen, Stage, Settle, Exit, TypeOK
  <2>5. QED
    BY <2>1, <2>3, <2>4
<1>2. disk' = MergeData(disk, mem[p])
  BY <1>1 DEF Save, Refreshed
<1>3. ASSUME NEW i \in Inv
      PROVE  \/ NotNewer(mem[p].inv[i], disk'.inv[i])
             \/ Clash(disk.inv[i], mem[p].inv[i])
  BY <1>2, MergeRecBounds DEF MergeData, TypeOK, JournalData
<1>4. QED
  BY <1>2, <1>3 DEF MergeData

(* No save drops a record silently, however many processes save over each other. *)
THEOREM NothingIsDropped == Spec => NothingDroppedSilently
<1>1. TypeOK /\ [Next]_vars =>
        [\A p \in Proc : pc[p] = "saving" /\ pc'[p] = "ready" =>
           /\ mem[p].acts \subseteq disk'.acts
           /\ \A i \in Inv :
                \/ NotNewer(mem[p].inv[i], disk'.inv[i])
                \/ [inv |-> i, kept |-> disk.inv[i], dropped |-> mem[p].inv[i]] \in disk'.conf]_vars
  BY SaveStep, NextIsAny
<1>2. QED
  BY <1>1, TypeCorrect, PTL DEF Spec, NothingDroppedSilently

(* No step of any process leaves a settled snapshot ahead of the disk. *)
LEMMA SettledStep ==
  TypeOK /\ TypeOK' /\ SettledBelowDisk /\ [AnyNext]_vars => SettledBelowDisk'
<1> SUFFICES ASSUME TypeOK, TypeOK', SettledBelowDisk, [AnyNext]_vars,
                    NEW q \in Proc, pc'[q] # "saving"
             PROVE  Below(mem'[q], disk')
  BY DEF SettledBelowDisk
<1>1. Below(disk, disk') /\ Below(disk', disk')
  BY StepMonotone, BelowReflexive DEF TypeOK
<1>2. CASE mem'[q] = mem[q] /\ pc[q] # "saving"
  BY <1>1, <1>2, BelowTransitive DEF SettledBelowDisk, TypeOK
<1>3. CASE mem'[q] = disk'
  BY <1>1, <1>3
<1>4. CASE mem'[q] = EmptyJournal
  BY <1>4 DEF Below, EmptyJournal, NotNewer, TypeOK, JournalData
<1>5. CASE mem'[q] = Refreshed(q) /\ pc[q] # "saving" /\ disk' = disk
  BY <1>5, MergeDataBelowDisk DEF SettledBelowDisk, Refreshed, TypeOK
<1>7. CASE UNCHANGED vars
  BY <1>2, <1>7 DEF vars
<1>8. ASSUME NEW p \in Proc, Load(p) PROVE Below(mem'[q], disk')
  BY <1>2, <1>3, <1>8 DEF Load, TypeOK
<1>9. ASSUME NEW p \in Proc, NEW d, Stage(p, d) PROVE Below(mem'[q], disk')
  BY <1>2, <1>9 DEF Stage, TypeOK
<1>10. ASSUME NEW p \in Proc, Settle(p) PROVE Below(mem'[q], disk')
  BY <1>2, <1>5, <1>10 DEF Settle, TypeOK
<1>11. ASSUME NEW p \in Proc, NEW i \in Inv, Reopen(p, i) PROVE Below(mem'[q], disk')
  BY <1>2, <1>3, <1>11 DEF Reopen, TypeOK
<1>12. ASSUME NEW p \in Proc, Save(p) PROVE Below(mem'[q], disk')
  BY <1>2, <1>3, <1>12 DEF Save, TypeOK
<1>13. ASSUME NEW p \in Proc, Exit(p) PROVE Below(mem'[q], disk')
  BY <1>2, <1>4, <1>13 DEF Exit, TypeOK
<1>14. QED
  BY <1>7, <1>8, <1>9, <1>10, <1>11, <1>12, <1>13
  DEF AnyNext, AnyCall, NewInvocation, SetRoute, RecordHumanAction, SetState,
      AdvanceRound

(* A returned call is durable: no snapshot is ahead of the disk between calls. *)
THEOREM ReturnedCallsAreOnDisk == Spec => []SettledBelowDisk
<1>1. Init => SettledBelowDisk
  <2> SUFFICES ASSUME Init PROVE Below(EmptyJournal, EmptyJournal)
    BY DEF Init, SettledBelowDisk
  <2>1. QED
    BY DEF Below, EmptyJournal, NotNewer
<1>2. QED
  BY <1>1, SettledStep, NextIsAny, TypeCorrect, PTL DEF Spec

-----------------------------------------------------------------------------
(* Each copy of an invocation, on disk or in memory, is a record or missing. *)
LEMMA CopyTypes ==
  ASSUME TypeOK, NEW i \in Inv
  PROVE  /\ disk.inv[i] \in Rec \cup {NoRec}
         /\ \A p \in Proc : mem[p].inv[i] \in Rec \cup {NoRec}
         /\ disk.inv[i] # NoRec => disk.inv[i].epoch \in Nat
         /\ \A p \in Proc : mem[p].inv[i] # NoRec => mem[p].inv[i].epoch \in Nat
<1>1. /\ disk.inv[i] \in Rec \cup {NoRec}
      /\ \A p \in Proc : mem[p].inv[i] \in Rec \cup {NoRec}
  BY DEF TypeOK, JournalData
<1>2. \A r \in Rec : r.epoch \in Nat
  BY DEF Rec
<1>3. QED
  BY <1>1, <1>2

(* The copies of one invocation: one origin, and no epoch the disk has not seen. *)
LEMMA RefreshedIsGood ==
  ASSUME TypeOK, CopiesAgree, NEW p \in Proc, NEW i \in Inv
  PROVE  /\ GoodCopy(i, disk.inv[i])
         /\ GoodCopy(i, Refreshed(p).inv[i])
<1>1. GoodCopy(i, disk.inv[i])
  BY DEF CopiesAgree, GoodCopy, SameOrigin, TypeOK, JournalData, Rec
<1>2. Refreshed(p).inv[i] \in {disk.inv[i], mem[p].inv[i]}
  <2>1. Refreshed(p).inv[i] = MergeRec(disk.inv[i], mem[p].inv[i])
    BY DEF Refreshed, MergeData
  <2>2. QED
    BY <2>1, CopyTypes, MergeRecBounds
<1>3. QED
  BY <1>1, <1>2 DEF CopiesAgree

(* A step that changes one snapshot and not the disk. *)
LEMMA OneSnapshotStep ==
  ASSUME TypeOK, CopiesAgree, NEW p \in Proc, NEW d \in JournalData,
         \A i \in Inv : GoodCopy(i, d.inv[i]),
         disk' = disk, mem' = [mem EXCEPT ![p] = d]
  PROVE  CopiesAgree'
<1>1. \A q \in Proc : mem'[q] = IF q = p THEN d ELSE mem[q]
  BY DEF TypeOK
<1>2. ASSUME NEW q \in Proc, NEW i \in Inv PROVE GoodCopy(i, mem'[q].inv[i])
  BY <1>1 DEF CopiesAgree
<1>3. ASSUME NEW q \in Proc, NEW o \in Proc, NEW i \in Inv,
             mem'[q].inv[i] # NoRec, mem'[o].inv[i] # NoRec
      PROVE  SameOrigin(mem'[q].inv[i], mem'[o].inv[i])
  <2>1. GoodCopy(i, mem'[q].inv[i]) /\ GoodCopy(i, mem'[o].inv[i])
    BY <1>2
  <2>2. CASE o = p /\ q = p
    BY <2>2 DEF SameOrigin
  <2>3. CASE o = p /\ q # p
    BY <1>1, <1>3, <2>1, <2>3 DEF GoodCopy, SameOrigin
  <2>4. CASE o # p
    BY <1>1, <1>3, <2>1, <2>4 DEF GoodCopy
  <2>5. QED
    BY <2>2, <2>3, <2>4
<1>4. ASSUME NEW q \in Proc, NEW i \in Inv PROVE GoodCopy(i, mem[q].inv[i])'
  BY <1>2, <1>3 DEF GoodCopy
<1>5. QED
  BY <1>4 DEF CopiesAgree

(* No step of any process makes two copies of an invocation disagree on their origin. *)
LEMMA CopiesStep ==
  TypeOK /\ TypeOK' /\ SettledBelowDisk /\ CopiesAgree /\ [AnyNext]_vars => CopiesAgree'
<1> SUFFICES ASSUME TypeOK, TypeOK', SettledBelowDisk, CopiesAgree, [AnyNext]_vars
             PROVE  CopiesAgree'
  OBVIOUS
<1>1. \A p \in Proc : Refreshed(p) \in JournalData
  BY MergeDataType DEF Refreshed, TypeOK
<1>2. ASSUME NEW p \in Proc, NEW d \in JournalData, Stage(p, d),
             \A i \in Inv : GoodCopy(i, d.inv[i])
      PROVE  CopiesAgree'
  BY <1>2, OneSnapshotStep DEF Stage
<1>3. ASSUME NEW p \in Proc, NEW d \in JournalData, NEW i \in Inv, NEW r \in Rec,
             \A j \in Inv : GoodCopy(j, d.inv[j]),
             GoodCopy(i, r), Stage(p, Put(d, i, r))
      PROVE  CopiesAgree'
  <2>1. Put(d, i, r) \in JournalData
    BY PutType
  <2>2. \A j \in Inv : GoodCopy(j, Put(d, i, r).inv[j])
    BY <1>3 DEF Put, JournalData
  <2>3. QED
    BY <1>2, <1>3, <2>1, <2>2
<1>4. ASSUME NEW i \in Inv, NEW r \in Rec, NEW s \in Rec, GoodCopy(i, r),
             SameOrigin(s, r), s.epoch = r.epoch
      PROVE  GoodCopy(i, s)
  BY <1>4, NoRecAssumption DEF GoodCopy, SameOrigin
<1>5. ASSUME NEW p \in Proc, NEW i \in Inv, NEW x \in Seat, NewInvocation(p, i, x)
      PROVE  CopiesAgree'
  <2> DEFINE r == [participant |-> x, round |-> mem[p].round, state |-> "prepared",
                   detail |-> "other", epoch |-> 0, route |-> "unset"]
  <2>1. r \in Rec
    BY DEF TypeOK, JournalData, Rec, State, Detail, Route
  <2>2. GoodCopy(i, r)
    BY <1>5 DEF NewInvocation, FreshInv, GoodCopy
  <2>3. mem[p] \in JournalData /\ \A j \in Inv : GoodCopy(j, mem[p].inv[j])
    BY DEF TypeOK, CopiesAgree
  <2>4. QED
    BY <1>3, <1>5, <2>1, <2>2, <2>3 DEF NewInvocation
<1>6. ASSUME NEW p \in Proc, NEW i \in Inv, NEW rt \in Route, SetRoute(p, i, rt)
      PROVE  CopiesAgree'
  <2> DEFINE s == [mem[p].inv[i] EXCEPT !.route = rt]
  <2>1. mem[p].inv[i] \in Rec /\ mem[p] \in JournalData
    BY <1>6 DEF SetRoute, TypeOK, JournalData
  <2>2. s \in Rec /\ SameOrigin(s, mem[p].inv[i]) /\ s.epoch = mem[p].inv[i].epoch
    BY <2>1 DEF Rec, SameOrigin
  <2>3. \A j \in Inv : GoodCopy(j, mem[p].inv[j])
    BY DEF CopiesAgree
  <2>4. QED
    BY <1>3, <1>4, <1>6, <2>1, <2>2, <2>3 DEF SetRoute
<1>7. ASSUME NEW p \in Proc, NEW a \in Act, RecordHumanAction(p, a) PROVE CopiesAgree'
  <2> DEFINE d == [mem[p] EXCEPT !.acts = @ \cup {a}]
  <2>1. d \in JournalData /\ d.inv = mem[p].inv
    BY DEF TypeOK, JournalData
  <2>2. QED
    BY <1>2, <1>7, <2>1 DEF RecordHumanAction, CopiesAgree
<1>8. ASSUME NEW p \in Proc, NEW i \in Inv, NEW st \in State, NEW det \in Detail,
             SetState(p, i, st, det)
      PROVE  CopiesAgree'
  <2> DEFINE d == Refreshed(p)
             s == [d.inv[i] EXCEPT !.state = st, !.detail = det]
  <2>1. d \in JournalData /\ \A j \in Inv : GoodCopy(j, d.inv[j])
    BY <1>1, RefreshedIsGood
  <2>2. d.inv[i] \in Rec
    BY <1>8, <2>1 DEF SetState, JournalData
  <2>3. s \in Rec /\ SameOrigin(s, d.inv[i]) /\ s.epoch = d.inv[i].epoch
    BY <2>2 DEF Rec, SameOrigin
  <2>4. GoodCopy(i, s)
    BY <1>4, <2>1, <2>2, <2>3
  <2>5. Stage(p, Put(d, i, s))
    BY <1>8 DEF SetState
  <2>6. QED
    BY <1>3, <2>1, <2>3, <2>4, <2>5
<1>9. ASSUME NEW p \in Proc, AdvanceRound(p) PROVE CopiesAgree'
  <2> DEFINE d == [Refreshed(p) EXCEPT !.round = @ + 1]
  <2>1. d \in JournalData /\ d.inv = Refreshed(p).inv
    BY <1>1 DEF JournalData
  <2>2. QED
    BY <1>2, <1>9, <2>1, RefreshedIsGood DEF AdvanceRound
<1>10. ASSUME NEW p \in Proc, Settle(p) PROVE CopiesAgree'
  BY <1>1, <1>10, OneSnapshotStep, RefreshedIsGood DEF Settle
<1>11. ASSUME NEW p \in Proc, Load(p) PROVE CopiesAgree'
  BY <1>11, OneSnapshotStep, RefreshedIsGood DEF Load, TypeOK
<1>12. ASSUME NEW p \in Proc, Exit(p) PROVE CopiesAgree'
  <2>1. EmptyJournal \in JournalData
    BY DEF EmptyJournal, JournalData
  <2>2. \A i \in Inv : GoodCopy(i, EmptyJournal.inv[i])
    BY DEF EmptyJournal, GoodCopy
  <2>3. QED
    BY <1>12, <2>1, <2>2, OneSnapshotStep DEF Exit
<1>13. ASSUME NEW p \in Proc, NEW i \in Inv, Reopen(p, i) PROVE CopiesAgree'
  <2>1. disk.inv[i] \in Rec /\ disk \in JournalData
    BY <1>13 DEF Reopen, TypeOK, JournalData
  <2>2. \A j \in Inv : /\ disk'.inv[j] = NoRec <=> disk.inv[j] = NoRec
                       /\ disk.inv[j] # NoRec =>
                            /\ SameOrigin(disk'.inv[j], disk.inv[j])
                            /\ disk.inv[j].epoch <= disk'.inv[j].epoch
    <3>1. /\ SameOrigin(ReopenedRec(disk.inv[i]), disk.inv[i])
          /\ disk.inv[i].epoch <= ReopenedRec(disk.inv[i]).epoch
          /\ ReopenedRec(disk.inv[i]) # NoRec
      BY <2>1, ReopenedRecType, NoRecAssumption
    <3>2. ASSUME NEW j \in Inv
          PROVE  disk'.inv[j] = IF j = i THEN ReopenedRec(disk.inv[i]) ELSE disk.inv[j]
      BY <1>13, <2>1 DEF Reopen, Put, JournalData
    <3>3. ASSUME NEW j \in Inv, disk.inv[j] # NoRec
          PROVE  SameOrigin(disk.inv[j], disk.inv[j]) /\ disk.inv[j].epoch <= disk.inv[j].epoch
      BY <3>3, CopyTypes DEF SameOrigin
    <3>4. QED
      BY <1>13, <3>1, <3>2, <3>3 DEF Reopen
  <2>3. \A q \in Proc : mem'[q] = IF q = p THEN disk' ELSE mem[q]
    BY <1>13 DEF Reopen, TypeOK
  <2>4. ASSUME NEW q \in Proc, NEW j \in Inv, mem'[q].inv[j] # NoRec
        PROVE  IF disk'.inv[j] = NoRec
                 THEN mem'[q].inv[j].epoch = 0
                 ELSE /\ SameOrigin(mem'[q].inv[j], disk'.inv[j])
                      /\ mem'[q].inv[j].epoch <= disk'.inv[j].epoch
    <3>1. CASE q = p
      <4>1. disk'.inv[j].epoch <= disk'.inv[j].epoch
        BY <2>3, <2>4, <3>1, <2>2, CopyTypes DEF TypeOK, JournalData, Rec
      <4>2. QED
        BY <2>3, <2>4, <3>1, <4>1 DEF SameOrigin
    <3>2. CASE q # p
      <4>1. mem[q].inv[j] # NoRec /\ GoodCopy(j, mem[q].inv[j])
        BY <2>3, <2>4, <3>2 DEF CopiesAgree
      <4>2. CASE disk.inv[j] = NoRec
        BY <2>2, <2>3, <3>2, <4>1, <4>2 DEF GoodCopy
      <4>3. CASE disk.inv[j] # NoRec
        <5>1. disk'.inv[j] # NoRec /\ disk'.inv[j].epoch \in Nat
          BY <2>2, <4>3 DEF TypeOK, JournalData, Rec
        <5>2. QED
          BY <2>2, <2>3, <3>2, <4>1, <4>3, <5>1, CopyTypes DEF GoodCopy, SameOrigin
      <4>4. QED
        BY <4>2, <4>3
    <3>3. QED
      BY <3>1, <3>2
  <2>5. ASSUME NEW q \in Proc, NEW o \in Proc, NEW j \in Inv,
               mem'[q].inv[j] # NoRec, mem'[o].inv[j] # NoRec
        PROVE  SameOrigin(mem'[q].inv[j], mem'[o].inv[j])
    <3>1. CASE q # p /\ o # p
      BY <2>3, <2>5, <3>1 DEF CopiesAgree, GoodCopy
    <3>2. CASE (q = p \/ o = p) /\ disk'.inv[j] # NoRec
      BY <2>3, <2>4, <2>5, <3>2 DEF SameOrigin
    <3>3. CASE (q = p \/ o = p) /\ disk'.inv[j] = NoRec
      BY <2>3, <2>5, <3>3
    <3>4. QED
      BY <3>1, <3>2, <3>3
  <2>6. QED
    BY <2>4, <2>5 DEF CopiesAgree, GoodCopy
<1>14. ASSUME NEW p \in Proc, Save(p) PROVE CopiesAgree'
  <2>1. \A j \in Inv : /\ disk'.inv[j] \in {disk.inv[j], mem[p].inv[j]}
                       /\ NotNewer(disk.inv[j], disk'.inv[j])
                       /\ disk'.inv[j] = NoRec <=> disk.inv[j] = NoRec /\ mem[p].inv[j] = NoRec
    BY <1>14, MergeRecBounds DEF Save, Refreshed, MergeData, TypeOK, JournalData
  <2>2. \A j \in Inv : disk.inv[j] # NoRec => disk.inv[j].epoch <= disk'.inv[j].epoch
    <3>1. ASSUME NEW j \in Inv, disk.inv[j] # NoRec
          PROVE  disk.inv[j].epoch <= disk'.inv[j].epoch
      <4>1. disk.inv[j].epoch \in Nat /\ disk'.inv[j].epoch \in Nat
        BY <2>1, <3>1, CopyTypes
      <4>2. QED
        BY <2>1, <3>1, <4>1 DEF NotNewer
    <3>2. QED
      BY <3>1
  <2>3. \A q \in Proc : mem'[q] = IF q = p THEN disk' ELSE mem[q]
    BY <1>14 DEF Save, TypeOK
  <2>4. ASSUME NEW j \in Inv, NEW q \in Proc, mem[q].inv[j] # NoRec, disk'.inv[j] # NoRec
        PROVE  /\ SameOrigin(mem[q].inv[j], disk'.inv[j])
               /\ mem[q].inv[j].epoch <= disk'.inv[j].epoch
    <3>1. GoodCopy(j, mem[q].inv[j]) /\ GoodCopy(j, mem[p].inv[j])
      BY DEF CopiesAgree
    <3>2. CASE disk.inv[j] = NoRec
      <4>1. disk'.inv[j] = mem[p].inv[j] /\ mem[p].inv[j] # NoRec
        BY <2>1, <2>4, <3>2
      <4>2. mem[q].inv[j].epoch = 0 /\ mem[p].inv[j].epoch = 0
        BY <2>4, <3>1, <3>2, <4>1 DEF GoodCopy
      <4>3. QED
        BY <2>4, <3>1, <4>1, <4>2 DEF GoodCopy
    <3>3. CASE disk.inv[j] # NoRec
      <4>1. SameOrigin(mem[q].inv[j], disk'.inv[j])
        BY <2>1, <2>4, <3>1, <3>3 DEF GoodCopy, SameOrigin
      <4>2. mem[q].inv[j].epoch <= disk.inv[j].epoch /\ disk.inv[j].epoch <= disk'.inv[j].epoch
        BY <2>2, <2>4, <3>1, <3>3 DEF GoodCopy
      <4>3. disk'.inv[j] \in {disk.inv[j], mem[p].inv[j]}
        BY <2>1
      <4>4. QED
        BY <2>4, <3>3, <4>1, <4>2, <4>3, CopyTypes
    <3>4. QED
      BY <3>2, <3>3
  <2>5. ASSUME NEW j \in Inv, NEW q \in Proc, mem'[q].inv[j] # NoRec
        PROVE  GoodCopy(j, mem[q].inv[j])'
    <3>1. CASE disk'.inv[j] = NoRec
      <4>1. disk.inv[j] = NoRec /\ q # p
        BY <2>1, <2>3, <2>5, <3>1
      <4>2. QED
        BY <2>3, <2>5, <3>1, <4>1 DEF CopiesAgree, GoodCopy
    <3>2. CASE disk'.inv[j] # NoRec
      <4>1. disk'.inv[j].epoch <= disk'.inv[j].epoch
        BY <2>1, <3>2, CopyTypes
      <4>2. \A o \in Proc : mem'[o].inv[j] # NoRec =>
              SameOrigin(mem'[o].inv[j], disk'.inv[j]) /\ mem'[o].inv[j].epoch <= disk'.inv[j].epoch
        BY <2>3, <2>4, <3>2, <4>1 DEF SameOrigin
      <4>3. QED
        BY <2>5, <3>2, <4>2 DEF GoodCopy, SameOrigin
    <3>3. QED
      BY <3>1, <3>2
  <2>6. QED
    BY <2>5 DEF CopiesAgree, GoodCopy
<1>15. CASE UNCHANGED vars
  BY <1>15 DEF vars, CopiesAgree, GoodCopy
<1>16. QED
  BY <1>5, <1>6, <1>7, <1>8, <1>9, <1>10, <1>11, <1>12, <1>13, <1>14, <1>15
  DEF AnyNext, AnyCall

-----------------------------------------------------------------------------
(* A record on disk stays, in its round, and merged if it is: nothing reopens it, *)
(* no save replaces it.                                                          *)
LEMMA RecordStays ==
  ASSUME TypeOK, CopiesAgree, [AnyNext]_vars, NEW i \in Inv, disk.inv[i] # NoRec
  PROVE  /\ disk'.inv[i] # NoRec
         /\ SameOrigin(disk'.inv[i], disk.inv[i])
         /\ disk.inv[i].state = "merged" => disk'.inv[i].state = "merged"
<1>0. SameOrigin(disk.inv[i], disk.inv[i])
  BY DEF SameOrigin
<1>1. ASSUME NEW p \in Proc, Save(p)
      PROVE  /\ disk'.inv[i] # NoRec
             /\ SameOrigin(disk'.inv[i], disk.inv[i])
             /\ disk.inv[i].state = "merged" => disk'.inv[i].state = "merged"
  <2>1. disk'.inv[i] = MergeRec(disk.inv[i], mem[p].inv[i])
    BY <1>1 DEF Save, Refreshed, MergeData
  <2>2. CASE disk'.inv[i] = disk.inv[i]
    BY <1>0, <2>2
  <2>3. CASE disk'.inv[i] # disk.inv[i]
    <3>1. /\ mem[p].inv[i] # NoRec /\ disk'.inv[i] = mem[p].inv[i]
          /\ NotNewer(disk.inv[i], mem[p].inv[i])
      BY <2>1, <2>3 DEF MergeRec
    <3>2. /\ SameOrigin(mem[p].inv[i], disk.inv[i])
          /\ mem[p].inv[i].epoch <= disk.inv[i].epoch
      BY <3>1 DEF CopiesAgree, GoodCopy
    <3>3. ~(disk.inv[i].epoch < mem[p].inv[i].epoch)
      BY <3>1, <3>2, CopyTypes
    <3>4. TransitionAllowed(disk.inv[i].state, mem[p].inv[i].state)
      BY <3>1, <3>3 DEF NotNewer
    <3>5. disk.inv[i].state = "merged" => mem[p].inv[i].state = "merged"
      BY <3>4 DEF TransitionAllowed, Terminal
    <3>6. QED
      BY <3>1, <3>2, <3>5
  <2>4. QED
    BY <2>2, <2>3
<1>2. ASSUME NEW p \in Proc, NEW j \in Inv, Reopen(p, j)
      PROVE  /\ disk'.inv[i] # NoRec
             /\ SameOrigin(disk'.inv[i], disk.inv[i])
             /\ disk.inv[i].state = "merged" => disk'.inv[i].state = "merged"
  <2>1. disk \in JournalData /\ disk.inv[j] \in Rec /\ disk.inv[j].state = "failed"
    BY <1>2 DEF Reopen, TypeOK, JournalData
  <2>2. disk'.inv[i] = IF i = j THEN ReopenedRec(disk.inv[j]) ELSE disk.inv[i]
    BY <1>2, <2>1 DEF Reopen, Put, JournalData
  <2>3. QED
    BY <1>0, <2>1, <2>2, ReopenedRecType, NoRecAssumption
<1>3. CASE disk' = disk
  BY <1>0, <1>3
<1>4. QED
  BY <1>1, <1>2, <1>3
  DEF AnyNext, AnyCall, Load, NewInvocation, SetRoute, RecordHumanAction, SetState,
      AdvanceRound, Stage, Settle, Exit, vars

(* And so a seat that has answered a round has answered it for good. *)
LEMMA MergedStays ==
  ASSUME TypeOK, CopiesAgree, [AnyNext]_vars, NEW x, NEW r, MergedBy(disk, x, r)
  PROVE  MergedBy(disk, x, r)'
<1>1. PICK i \in Inv : /\ disk.inv[i] # NoRec
                       /\ disk.inv[i].participant = x
                       /\ disk.inv[i].round = r
                       /\ disk.inv[i].state = "merged"
  BY DEF MergedBy
<1>2. QED
  BY <1>1, RecordStays DEF MergedBy, SameOrigin

(* A round that is backed by merged answers stays backed. *)
LEMMA BackedStays ==
  ASSUME TypeOK, TypeOK', CopiesAgree, [AnyNext]_vars, NEW n \in Nat, RoundsBacked(n)
  PROVE  \A r \in 1..(n - 1) : \A x \in Participant : MergedBy(disk, x, r)'
BY MergedStays DEF RoundsBacked, Complete

(* A settled snapshot, refreshed, has the records of the disk, each in its round, *)
(* and sees an answer as merged exactly if the disk does.                         *)
LEMMA RefreshedRecord ==
  ASSUME TypeOK, SettledBelowDisk, CopiesAgree, NEW p \in Proc, pc[p] # "saving", NEW i \in Inv
  PROVE  /\ Refreshed(p).inv[i] = NoRec <=> disk.inv[i] = NoRec
         /\ disk.inv[i] # NoRec =>
              /\ SameOrigin(Refreshed(p).inv[i], disk.inv[i])
              /\ Refreshed(p).inv[i].state = "merged" <=> disk.inv[i].state = "merged"
<1>1. Refreshed(p).inv[i] = MergeRec(disk.inv[i], mem[p].inv[i])
  BY DEF Refreshed, MergeData
<1>2. CASE Refreshed(p).inv[i] = disk.inv[i]
  BY <1>2 DEF SameOrigin
<1>3. CASE Refreshed(p).inv[i] # disk.inv[i]
  <2>1. /\ mem[p].inv[i] # NoRec /\ Refreshed(p).inv[i] = mem[p].inv[i]
        /\ NotNewer(disk.inv[i], mem[p].inv[i])
    BY <1>1, <1>3 DEF MergeRec
  <2>2. NotNewer(mem[p].inv[i], disk.inv[i])
    BY DEF SettledBelowDisk, Below
  <2>3. disk.inv[i] # NoRec
    BY <2>1, <2>2 DEF NotNewer
  <2>4. SameOrigin(mem[p].inv[i], disk.inv[i])
    BY <2>1, <2>3 DEF CopiesAgree, GoodCopy
  <2>5. /\ TransitionAllowed(mem[p].inv[i].state, disk.inv[i].state)
        /\ TransitionAllowed(disk.inv[i].state, mem[p].inv[i].state)
    BY <2>1, <2>2, <2>3, CopyTypes DEF NotNewer
  <2>6. mem[p].inv[i].state = "merged" <=> disk.inv[i].state = "merged"
    BY <2>5 DEF TransitionAllowed, Terminal
  <2>7. QED
    BY <2>1, <2>3, <2>4, <2>6
<1>4. QED
  BY <1>2, <1>3

(* So a round is complete for it exactly if it is complete on disk. *)
LEMMA RefreshedMergedBy ==
  ASSUME TypeOK, SettledBelowDisk, CopiesAgree, NEW p \in Proc, pc[p] # "saving", NEW x, NEW r
  PROVE  MergedBy(Refreshed(p), x, r) <=> MergedBy(disk, x, r)
BY RefreshedRecord DEF MergedBy, SameOrigin

(* Every step keeps the rounds counted on disk and in the snapshots backed. *)
LEMMA BackedStep ==
  /\ TypeOK /\ TypeOK' /\ SettledBelowDisk /\ CopiesAgree
  /\ SnapshotsBacked /\ RoundSound /\ [AnyNext]_vars
  => SnapshotsBacked' /\ RoundSound'
<1> SUFFICES ASSUME TypeOK, TypeOK', SettledBelowDisk, CopiesAgree,
                    SnapshotsBacked, RoundSound, [AnyNext]_vars
             PROVE  SnapshotsBacked' /\ RoundSound'
  OBVIOUS
<1> DEFINE BackedNext(n) == \A r \in 1..(n - 1) : \A x \in Participant : MergedBy(disk, x, r)'
<1>1. disk.round \in Nat /\ \A p \in Proc : mem[p].round \in Nat
  BY DEF TypeOK, JournalData
<1>2. BackedNext(disk.round) /\ \A p \in Proc : BackedNext(mem[p].round)
  BY <1>1, BackedStays DEF RoundSound, SnapshotsBacked
<1>3. BackedNext(1)
  OBVIOUS
<1>4. \A p \in Proc : Refreshed(p).round \in {disk.round, mem[p].round}
  BY DEF Refreshed, MergeData, Larger
<1>5. SUFFICES BackedNext(disk'.round) /\ \A p \in Proc : BackedNext(mem'[p].round)
  BY DEF RoundSound, SnapshotsBacked, RoundsBacked, Complete
<1>6. ASSUME NEW p \in Proc, NEW d \in JournalData, BackedNext(d.round),
             disk'.round = disk.round \/ disk' = d, mem' = [mem EXCEPT ![p] = d]
      PROVE  BackedNext(disk'.round) /\ \A q \in Proc : BackedNext(mem'[q].round)
  <2>1. \A q \in Proc : mem'[q] = IF q = p THEN d ELSE mem[q]
    BY <1>6 DEF TypeOK
  <2>2. QED
    BY <1>2, <1>6, <2>1
<1>7. \A p \in Proc : Refreshed(p) \in JournalData /\ BackedNext(Refreshed(p).round)
  BY <1>2, <1>4, MergeDataType DEF Refreshed, TypeOK
<1>8. ASSUME NEW p \in Proc, NEW i \in Inv, NEW d \in JournalData, NEW r \in Rec,
             BackedNext(d.round), Stage(p, Put(d, i, r))
      PROVE  BackedNext(disk'.round) /\ \A q \in Proc : BackedNext(mem'[q].round)
  <2>1. Put(d, i, r) \in JournalData /\ Put(d, i, r).round = d.round
    BY PutType DEF Put, JournalData
  <2>2. QED
    BY <1>6, <1>8, <2>1 DEF Stage
<1>9. ASSUME NEW p \in Proc, AdvanceRound(p)
      PROVE  BackedNext(disk'.round) /\ \A q \in Proc : BackedNext(mem'[q].round)
  <2> PICK n \in Nat : n = Refreshed(p).round
    BY <1>7 DEF JournalData
  <2> DEFINE d == [Refreshed(p) EXCEPT !.round = @ + 1]
  <2>1. d \in JournalData /\ d.round = n + 1 /\ n \in Nat
    BY <1>7 DEF JournalData
  <2>2. \A x \in Participant : MergedBy(disk, x, n)
    <3>1. pc[p] = "ready" /\ \A x \in Participant : MergedBy(Refreshed(p), x, n)
      BY <1>9 DEF AdvanceRound, Stage, Complete
    <3>2. QED
      BY <3>1, RefreshedMergedBy
  <2>3. \A x \in Participant : MergedBy(disk, x, n)'
    BY <2>2, MergedStays
  <2>4. BackedNext(n + 1)
    BY <1>7, <2>1, <2>3
  <2>5. QED
    BY <1>6, <1>9, <2>1, <2>4 DEF AdvanceRound, Stage
<1>10. ASSUME NEW p \in Proc, NEW i \in Inv, NEW x \in Seat, NewInvocation(p, i, x)
       PROVE  BackedNext(disk'.round) /\ \A q \in Proc : BackedNext(mem'[q].round)
  <2>1. [participant |-> x, round |-> mem[p].round, state |-> "prepared",
         detail |-> "other", epoch |-> 0, route |-> "unset"] \in Rec
    BY DEF TypeOK, JournalData, Rec, State, Detail, Route
  <2>2. mem[p] \in JournalData
    BY DEF TypeOK
  <2>3. QED
    BY <1>2, <1>8, <1>10, <2>1, <2>2 DEF NewInvocation
<1>11. ASSUME NEW p \in Proc, NEW i \in Inv, NEW rt \in Route, SetRoute(p, i, rt)
       PROVE  BackedNext(disk'.round) /\ \A q \in Proc : BackedNext(mem'[q].round)
  <2>1. mem[p].inv[i] \in Rec /\ mem[p] \in JournalData
    BY <1>11 DEF SetRoute, TypeOK, JournalData
  <2>2. [mem[p].inv[i] EXCEPT !.route = rt] \in Rec
    BY <2>1 DEF Rec
  <2>3. QED
    BY <1>2, <1>8, <1>11, <2>1, <2>2 DEF SetRoute
<1>12. ASSUME NEW p \in Proc, NEW a \in Act, RecordHumanAction(p, a)
       PROVE  BackedNext(disk'.round) /\ \A q \in Proc : BackedNext(mem'[q].round)
  <2> DEFINE d == [mem[p] EXCEPT !.acts = @ \cup {a}]
  <2>1. d \in JournalData /\ d.round = mem[p].round
    BY DEF TypeOK, JournalData
  <2>2. QED
    BY <1>2, <1>6, <1>12, <2>1 DEF RecordHumanAction, Stage
<1>13. ASSUME NEW p \in Proc, NEW i \in Inv, NEW s \in State, NEW det \in Detail,
              SetState(p, i, s, det)
       PROVE  BackedNext(disk'.round) /\ \A q \in Proc : BackedNext(mem'[q].round)
  <2>1. Refreshed(p).inv[i] \in Rec
    BY <1>7, <1>13 DEF SetState, JournalData
  <2>2. [Refreshed(p).inv[i] EXCEPT !.state = s, !.detail = det] \in Rec
    BY <2>1 DEF Rec
  <2>3. QED
    BY <1>7, <1>8, <1>13, <2>2 DEF SetState
<1>14. ASSUME NEW p \in Proc, Settle(p)
       PROVE  BackedNext(disk'.round) /\ \A q \in Proc : BackedNext(mem'[q].round)
  BY <1>6, <1>7, <1>14 DEF Settle
<1>15. ASSUME NEW p \in Proc, Load(p)
       PROVE  BackedNext(disk'.round) /\ \A q \in Proc : BackedNext(mem'[q].round)
  BY <1>2, <1>6, <1>15 DEF Load, TypeOK
<1>16. ASSUME NEW p \in Proc, Exit(p)
       PROVE  BackedNext(disk'.round) /\ \A q \in Proc : BackedNext(mem'[q].round)
  <2>1. EmptyJournal \in JournalData /\ EmptyJournal.round = 1
    BY DEF EmptyJournal, JournalData
  <2>2. QED
    BY <1>3, <1>6, <1>16, <2>1 DEF Exit
<1>17. ASSUME NEW p \in Proc, NEW i \in Inv, Reopen(p, i)
       PROVE  BackedNext(disk'.round) /\ \A q \in Proc : BackedNext(mem'[q].round)
  <2>1. disk'.round = disk.round
    BY <1>17 DEF Reopen, Put, TypeOK, JournalData
  <2>2. disk' \in JournalData /\ mem' = [mem EXCEPT ![p] = disk']
    BY <1>17 DEF Reopen, TypeOK
  <2>3. QED
    BY <1>2, <1>6, <2>1, <2>2
<1>18. ASSUME NEW p \in Proc, Save(p)
       PROVE  BackedNext(disk'.round) /\ \A q \in Proc : BackedNext(mem'[q].round)
  BY <1>6, <1>7, <1>18 DEF Save
<1>19. CASE UNCHANGED vars
  BY <1>2, <1>19 DEF vars
<1>20. QED
  BY <1>9, <1>10, <1>11, <1>12, <1>13, <1>14, <1>15, <1>16, <1>17, <1>18, <1>19
  DEF AnyNext, AnyCall

(* The invariant the round property rests on holds at first ... *)
LEMMA InvariantAtFirst == Init => IInv
<1> SUFFICES ASSUME Init PROVE IInv
  OBVIOUS
<1>1. TypeOK
  BY DEF Init, TypeOK, JournalData, EmptyJournal
<1>2. Below(EmptyJournal, EmptyJournal)
  BY DEF Below, EmptyJournal, NotNewer
<1>3. EmptyJournal.round = 1 /\ \A i \in Inv : EmptyJournal.inv[i] = NoRec
  BY DEF EmptyJournal
<1>4. SettledBelowDisk /\ CopiesAgree /\ SnapshotsBacked /\ RoundSound
  BY <1>2, <1>3
  DEF Init, SettledBelowDisk, CopiesAgree, GoodCopy, SnapshotsBacked, RoundSound, RoundsBacked
<1>5. QED
  BY <1>1, <1>4 DEF IInv

(* ... and after every call. *)
LEMMA InvariantStep == IInv /\ [AnyNext]_vars => IInv'
BY TypeStep, SettledStep, CopiesStep, BackedStep DEF IInv

(* It holds in every reachable state. *)
THEOREM JournalInvariant == Spec => []IInv
BY InvariantAtFirst, InvariantStep, NextIsAny, PTL DEF Spec

(* No stale snapshot, concurrent advance or recovery moves the round past one that *)
(* some participant has not answered.                                              *)
THEOREM RoundIsBacked == Spec => []RoundSound
<1>1. IInv => RoundSound
  BY DEF IInv
<1>2. QED
  BY <1>1, JournalInvariant, PTL

=============================================================================
