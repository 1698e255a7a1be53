---------------------------- MODULE Rounds_proofs ----------------------------
(***************************************************************************)
(* The end of a collect for any number of collectors, invocations, seats   *)
(* and rounds: minutes.md stays in order, its line shows no round that was *)
(* not reached, and a round that is complete is going to be advanced.      *)
(***************************************************************************)
EXTENDS Rounds, Journal_proofs

Section == [round : Nat \ {0}, answers : SUBSET Inv]
Minutes == [round : Nat \ {0}, body : Seq(Section)]

RoundsTypes ==
  /\ work \in Minutes /\ head \in Minutes
  /\ stage \in [Proc -> {"free", "adopted", "marking", "merged",
                         "advancing", "syncing", "closing", "acknowledging"}]
  /\ cur \in [Proc -> Inv \cup {Nothing}]

(* Which of its critical sections a collector is in, and what it has adopted. *)
Places(p) ==
  /\ stage[p] \in {"adopted", "merged", "syncing"} => pc[p] = "ready"
  /\ stage[p] \in {"marking", "advancing", "closing", "acknowledging"} => pc[p] = "saving"
  /\ stage[p] \in {"adopted", "marking", "acknowledging"} =>
       cur[p] \in Inv /\ InMinutes(head, cur[p])

(* The sections of m ascend, and hold the answers that d has on record for them. *)
Ordered(m, d) ==
  /\ \A k, l \in DOMAIN m.body : k < l => m.body[k].round < m.body[l].round
  /\ \A k \in DOMAIN m.body :
       /\ m.body[k].round <= d.round
       /\ \A i \in m.body[k].answers : d.inv[i] # NoRec /\ d.inv[i].round = m.body[k].round

MergedIn(d, i) == d.inv[i] # NoRec /\ d.inv[i].state = "merged"

(* The collect or the cancel in p is about to save that i is merged. *)
Marks(p, i) == stage[p] \in {"marking", "acknowledging"} /\ cur[p] = i

(* What anybody takes for merged stands in the minutes, whichever way they are *)
(* repaired, and only the command that marks it is ahead of the disk.          *)
Standing(i) ==
  /\ InMinutes(head, i) => InMinutes(work, i)
  /\ MergedIn(disk, i) => InMinutes(head, i)
  /\ \A p \in Proc : MergedIn(mem[p], i) =>
       /\ InMinutes(head, i)
       /\ MergedIn(disk, i) \/ Marks(p, i)

(* The records of d are of rounds up to n. *)
Reached(d, n) == \A i \in Inv : d.inv[i] # NoRec => d.inv[i].round <= n

RInv ==
  /\ IInv /\ RoundsTypes
  /\ \A p \in Proc : Places(p)
  /\ Ordered(work, disk) /\ Ordered(head, disk)
  /\ \A i \in Inv : Standing(i)
  /\ Reached(disk, disk.round) /\ \A p \in Proc : Reached(mem[p], disk.round)
  /\ DisplayNotAhead
  /\ NoAdvanceIsLost

-----------------------------------------------------------------------------
(* The journal's part of a collector's step is a call of journal.py. *)
LEMMA CollectorCalls ==
  ASSUME \A p \in Proc : Places(p), [NextRounds]_roundVars
  PROVE  [AnyNext]_vars
<1>1. ASSUME NEW p \in Proc, CollectorStep(p)
      PROVE  AnyNext
  <2>1. ASSUME Settle(p) PROVE AnyNext
    BY <2>1 DEF AnyNext, AnyCall
  <2>2. ASSUME Exit(p) PROVE AnyNext
    BY <2>2 DEF AnyNext
  <2>3. ASSUME NEW i \in Inv, NEW s \in State, SetState(p, i, s, "other") PROVE AnyNext
    BY <2>3 DEF AnyNext, AnyCall, Detail
  <2>4. ASSUME NEW i \in Inv, NEW s \in NewStates, Closes(p, i, s) PROVE AnyNext
    BY <2>3, <2>4, JournalAssumption DEF Closes
  <2>5. ASSUME MarksMerged(p) \/ \E i \in Inv : Acknowledges(p, i) PROVE AnyNext
    <3>1. "merged" \in State
      BY DEF State
    <3>2. CASE MarksMerged(p)
      BY <2>3, <3>1, <3>2 DEF MarksMerged, Places
    <3>3. ASSUME NEW i \in Inv, Acknowledges(p, i) PROVE AnyNext
      BY <2>3, <3>1, <3>3 DEF Acknowledges
    <3>4. QED
      BY <2>5, <3>2, <3>3
  <2>6. ASSUME Loads(p) \/ SavesIt(p) \/ SavesAndReturns(p) PROVE AnyNext
    BY <2>6 DEF Loads, SavesIt, SavesAndReturns, AnyNext
  <2>7. ASSUME NEW i \in Inv, NEW x \in Seat, Dispatches(p, i, x) PROVE AnyNext
    BY <2>7 DEF Dispatches, AnyNext, AnyCall
  <2>8. ASSUME Advances(p) PROVE AnyNext
    BY <2>1, <2>8 DEF Advances, AdvanceNothing, AnyNext, AnyCall
  <2>9. ASSUME NEW i \in Inv, Adopts(p, i) \/ CollectsAgain(p, i) PROVE AnyNext
    BY <2>1, <2>9 DEF Adopts, CollectsAgain
  <2>10. ASSUME NEW i \in Inv, DiesAdopting(p, i) PROVE AnyNext
    BY <2>2, <2>10 DEF DiesAdopting, Ends
  <2>11. ASSUME Syncs(p) \/ EndsOrDies(p) \/ DiesSyncing(p) PROVE AnyNext
    BY <2>2, <2>11 DEF Syncs, EndsOrDies, DiesSyncing, Ends
  <2>12. QED
    BY <1>1, <2>4, <2>5, <2>6, <2>7, <2>8, <2>9, <2>10, <2>11 DEF CollectorStep
<1>2. CASE Repairs \/ UNCHANGED roundVars
  BY <1>2 DEF Repairs, roundVars, vars
<1>3. QED
  BY <1>1, <1>2 DEF NextRounds

-----------------------------------------------------------------------------
(* A function on 1..n is a sequence. *)
LEMMA IsASeq ==
  ASSUME NEW S, NEW n \in Nat, NEW f \in [1..n -> S]
  PROVE  f \in Seq(S)
OBVIOUS

(* What Joined does to one section. *)
LEMMA JoinedSection ==
  ASSUME NEW b \in Seq(Section), NEW i \in Inv, NEW r \in Nat \ {0}, NEW k \in DOMAIN b
  PROVE  /\ Joined(b, i, r)[k] \in Section
         /\ Joined(b, i, r)[k].round = b[k].round
         /\ b[k].answers \subseteq Joined(b, i, r)[k].answers
         /\ b[k].round = r => i \in Joined(b, i, r)[k].answers
         /\ \A j \in Joined(b, i, r)[k].answers :
              j \in b[k].answers \/ (j = i /\ b[k].round = r)
<1>1. b[k] \in Section
  OBVIOUS
<1>2. Joined(b, i, r)[k] = IF b[k].round = r THEN [b[k] EXCEPT !.answers = @ \cup {i}] ELSE b[k]
  BY DEF Joined
<1>3. QED
  BY <1>1, <1>2 DEF Section

(* And it makes no other sections. *)
LEMMA JoinedSections ==
  ASSUME NEW b \in Seq(Section), NEW i \in Inv, NEW r \in Nat \ {0}
  PROVE  Joined(b, i, r) \in Seq(Section) /\ DOMAIN Joined(b, i, r) = DOMAIN b
<1> DEFINE J(k) == IF b[k].round = r THEN [b[k] EXCEPT !.answers = @ \cup {i}] ELSE b[k]
<1>1. Joined(b, i, r) = [k \in DOMAIN b |-> J(k)]
  BY DEF Joined
<1>2. DOMAIN b = 1..Len(b) /\ Len(b) \in Nat
  OBVIOUS
<1>3. \A k \in DOMAIN b : J(k) \in Section
  <2>1. \A k \in DOMAIN b : b[k] \in Section
    OBVIOUS
  <2>2. QED
    BY <2>1 DEF Section
<1> HIDE DEF J
<1>4. DOMAIN Joined(b, i, r) = DOMAIN b
  BY <1>1
<1>5. Joined(b, i, r) \in [1..Len(b) -> Section]
  BY <1>1, <1>2, <1>3
<1>6. QED
  BY <1>2, <1>4, <1>5, IsASeq

(* merge_opinion: the answer is in, under its round, and everything else is where it was. *)
LEMMA AddedHolds ==
  ASSUME NEW m \in Minutes, NEW i \in Inv, NEW r \in Nat \ {0}
  PROVE  /\ Added(m, i, r) \in Minutes
         /\ Added(m, i, r).round = m.round
         /\ InMinutes(Added(m, i, r), i)
         /\ \A j \in Inv : InMinutes(m, j) => InMinutes(Added(m, i, r), j)
<1> DEFINE Here == \E k \in DOMAIN m.body : m.body[k].round = r
<1>1. m.body \in Seq(Section) /\ m.round \in Nat \ {0}
  BY DEF Minutes
<1>2. CASE InMinutes(m, i)
  BY <1>2 DEF Added
<1>3. CASE ~InMinutes(m, i) /\ ~Here
  <2> DEFINE s == [round |-> r, answers |-> {i}]
             b == Append(m.body, s)
  <2>1. Added(m, i, r) = [m EXCEPT !.body = b]
    BY <1>3 DEF Added
  <2>2. s \in Section /\ i \in s.answers
    BY DEF Section
  <2>3. b \in Seq(Section) /\ b[Len(m.body) + 1] = s /\ Len(m.body) + 1 \in DOMAIN b
        /\ \A k \in DOMAIN m.body : k \in DOMAIN b /\ b[k] = m.body[k]
    BY <1>1, <2>2
  <2>4. Added(m, i, r) \in Minutes /\ Added(m, i, r).body = b /\ Added(m, i, r).round = m.round
    BY <2>1, <2>3 DEF Minutes
  <2>5. QED
    BY <2>2, <2>3, <2>4 DEF InMinutes
<1>4. CASE ~InMinutes(m, i) /\ Here
  <2> PICK b \in Seq(Section) : b = m.body
    BY <1>1
  <2>1. Added(m, i, r) = [m EXCEPT !.body = Joined(b, i, r)]
    BY <1>4 DEF Added
  <2>2. Joined(b, i, r) \in Seq(Section) /\ DOMAIN Joined(b, i, r) = DOMAIN b
    BY JoinedSections
  <2>3. Added(m, i, r) \in Minutes /\ Added(m, i, r).body = Joined(b, i, r)
        /\ Added(m, i, r).round = m.round
    BY <2>1, <2>2 DEF Minutes
  <2>4. ASSUME NEW k \in DOMAIN b
        PROVE  /\ b[k].answers \subseteq Joined(b, i, r)[k].answers
               /\ b[k].round = r => i \in Joined(b, i, r)[k].answers
    BY JoinedSection
  <2>5. QED
    BY <1>4, <2>2, <2>3, <2>4 DEF InMinutes
<1>5. QED
  BY <1>2, <1>3, <1>4

(***************************************************************************)
(* It keeps the order: a section that is missing is that of the current    *)
(* round, since every earlier one has its section.                         *)
(***************************************************************************)
LEMMA AddedInOrder ==
  ASSUME NEW m \in Minutes, NEW d \in JournalData, NEW i \in Inv, NEW r \in Nat \ {0},
         Ordered(m, d),
         d.inv[i] # NoRec, d.inv[i].round = r, r <= d.round,
         \A n \in 1..(d.round - 1) : \E k \in DOMAIN m.body : m.body[k].round = n
  PROVE  Ordered(Added(m, i, r), d)
<1> DEFINE Here == \E k \in DOMAIN m.body : m.body[k].round = r
<1>1. m.body \in Seq(Section) /\ d.round \in Nat
  BY DEF Minutes, JournalData
<1>2. CASE InMinutes(m, i)
  BY <1>2 DEF Added
<1>3. CASE ~InMinutes(m, i) /\ ~Here
  <2> DEFINE s == [round |-> r, answers |-> {i}]
             b == Append(m.body, s)
             n == Len(m.body)
  <2>1. Added(m, i, r).body = b
    BY <1>3 DEF Added, Minutes
  <2>2. n \in Nat /\ DOMAIN m.body = 1..n /\ DOMAIN b = 1..(n + 1) /\ b[n + 1] = s
        /\ \A k \in 1..n : b[k] = m.body[k]
    BY <1>1
  <2>3. \A k \in 1..n : m.body[k] \in Section /\ m.body[k].round < r
    <3>1. ASSUME NEW k \in 1..n PROVE m.body[k] \in Section
      BY <1>1
    <3>2. r = d.round
      BY <1>1, <1>3
    <3>3. ASSUME NEW k \in 1..n PROVE m.body[k].round <= r /\ m.body[k].round # r
      BY <1>3, <2>2, <3>2 DEF Ordered
    <3>4. QED
      BY <3>1, <3>3 DEF Section
  <2>4. \A k, l \in 1..(n + 1) : k < l => b[k].round < b[l].round
    <3>1. ASSUME NEW k \in 1..(n + 1), NEW l \in 1..(n + 1), k < l
          PROVE  b[k].round < b[l].round
      <4>1. k \in 1..n
        BY <2>2, <3>1
      <4>2. CASE l = n + 1
        BY <2>2, <2>3, <4>1, <4>2
      <4>3. CASE l \in 1..n
        BY <2>2, <4>1, <4>3, <3>1 DEF Ordered
      <4>4. QED
        BY <2>2, <4>2, <4>3
    <3>2. QED
      BY <3>1
  <2>5. \A k \in 1..(n + 1) :
          /\ b[k].round <= d.round
          /\ \A j \in b[k].answers : d.inv[j] # NoRec /\ d.inv[j].round = b[k].round
    <3>1. ASSUME NEW k \in 1..n
          PROVE  /\ b[k].round <= d.round
                 /\ \A j \in b[k].answers : d.inv[j] # NoRec /\ d.inv[j].round = b[k].round
      BY <2>2 DEF Ordered
    <3>2. /\ b[n + 1].round <= d.round
          /\ \A j \in b[n + 1].answers : d.inv[j] # NoRec /\ d.inv[j].round = b[n + 1].round
      BY <2>2
    <3>3. QED
      BY <2>2, <3>1, <3>2
  <2>6. QED
    BY <2>1, <2>2, <2>4, <2>5 DEF Ordered
<1>4. CASE ~InMinutes(m, i) /\ Here
  <2> PICK b \in Seq(Section) : b = m.body
    BY <1>1
  <2>1. Added(m, i, r).body = Joined(b, i, r) /\ DOMAIN Joined(b, i, r) = DOMAIN b
    BY <1>4, JoinedSections DEF Added, Minutes
  <2>2. ASSUME NEW k \in DOMAIN b
        PROVE  /\ Joined(b, i, r)[k].round = b[k].round
               /\ \A j \in Joined(b, i, r)[k].answers :
                    j \in b[k].answers \/ (j = i /\ b[k].round = r)
    BY JoinedSection
  <2>3. QED
    BY <2>1, <2>2 DEF Ordered
<1>5. QED
  BY <1>2, <1>3, <1>4

(* The order stays while the journal grows. *)
LEMMA OrderedStays ==
  ASSUME NEW m \in Minutes, NEW d \in JournalData, NEW e \in JournalData, Ordered(m, d),
         d.round <= e.round,
         \A i \in Inv : d.inv[i] # NoRec => e.inv[i] # NoRec /\ e.inv[i].round = d.inv[i].round
  PROVE  Ordered(m, e)
<1>1. \A k \in DOMAIN m.body : m.body[k] \in Section
  BY DEF Minutes
<1>2. QED
  BY <1>1 DEF Ordered, Section, JournalData

-----------------------------------------------------------------------------
(* What a step of a collector does to the journal on disk: it only grows. *)
LEMMA JournalGrows ==
  ASSUME RInv, [NextRounds]_roundVars
  PROVE  /\ IInv' /\ disk \in JournalData /\ disk' \in JournalData
         /\ disk.round <= disk'.round
         /\ \A i \in Inv : disk.inv[i] # NoRec =>
              /\ disk'.inv[i] # NoRec
              /\ disk'.inv[i].round = disk.inv[i].round
              /\ disk'.inv[i].participant = disk.inv[i].participant
              /\ MergedIn(disk, i) => MergedIn(disk', i)
<1>1. [AnyNext]_vars /\ IInv
  BY CollectorCalls DEF RInv
<1>2. IInv' /\ TypeOK /\ TypeOK' /\ CopiesAgree
  BY <1>1, InvariantStep DEF IInv
<1>3. disk.round <= disk'.round
  BY <1>1, <1>2, StepMonotone DEF Below
<1>4. QED
  BY <1>1, <1>2, <1>3, RecordStays DEF TypeOK, SameOrigin, MergedIn

(* Every round before the current one has its section at HEAD: somebody answered it. *)
LEMMA PassedHaveSections ==
  ASSUME RInv, NEW n \in 1..(disk.round - 1)
  PROVE  \E k \in DOMAIN head.body : head.body[k].round = n
<1>1. PICK x \in Participant : MergedBy(disk, x, n)
  BY RoundsAssumption DEF RInv, IInv, RoundSound, RoundsBacked, Complete
<1>2. PICK i \in Inv : MergedIn(disk, i) /\ disk.inv[i].round = n
  BY <1>1 DEF MergedBy, MergedIn
<1>3. InMinutes(head, i)
  BY <1>2 DEF RInv, Standing
<1>4. QED
  BY <1>2, <1>3 DEF InMinutes, RInv, Ordered

(* Who has no save to make is not ahead of the disk. *)
LEMMA SettledRound ==
  ASSUME RInv, NEW p \in Proc, pc[p] # "saving"
  PROVE  /\ mem[p].round <= disk.round
         /\ Refreshed(p).round = disk.round
         /\ mem[p].round \in Nat \ {0} /\ disk.round \in Nat \ {0}
<1>1. mem[p].round <= disk.round
  BY DEF RInv, IInv, SettledBelowDisk, Below
<1>2. mem[p].round \in Nat \ {0} /\ disk.round \in Nat \ {0}
  BY DEF RInv, IInv, TypeOK, JournalData
<1>3. QED
  BY <1>1, <1>2 DEF Refreshed, MergeData, Larger

(* The invocation that is collected is on record at disk, in the same round. *)
LEMMA CollectedRecord ==
  ASSUME RInv, NEW p \in Proc, NEW i \in Inv, pc[p] = "ready", Refreshed(p).inv[i] # NoRec
  PROVE  /\ disk.inv[i] # NoRec
         /\ Refreshed(p).inv[i].round = disk.inv[i].round
         /\ disk.inv[i].round <= disk.round
         /\ MergedIn(Refreshed(p), i) => MergedIn(disk, i)
<1>1. TypeOK /\ SettledBelowDisk /\ CopiesAgree /\ Reached(disk, disk.round)
  BY DEF RInv, IInv
<1>2. QED
  BY <1>1, RefreshedRecord DEF SameOrigin, Reached, MergedIn

-----------------------------------------------------------------------------
(* The ways minutes.md is written: an answer is added, the line is synced, or a *)
(* human repairs it.                                                            *)
Adding(p, i) ==
  /\ Collectable(p, i) /\ Clean
  /\ work' = Added(work, i, Refreshed(p).inv[i].round)
  /\ head' \in {head, work'}

Syncing(p) ==
  /\ pc[p] = "ready" /\ Clean
  /\ work' = [work EXCEPT !.round = mem[p].round]
  /\ head' \in {head, work'}

LEMMA MinutesWritten ==
  ASSUME RInv, [NextRounds]_roundVars
  PROVE  \/ UNCHANGED <<work, head>>
         \/ \E p \in Proc : \E i \in Inv : Adding(p, i)
         \/ \E p \in Proc : Syncing(p)
         \/ Repairs
<1>1. ASSUME NEW p \in Proc, CollectorStep(p)
      PROVE  \/ UNCHANGED <<work, head>>
             \/ \E i \in Inv : Adding(p, i)
             \/ Syncing(p)
  <2>1. ASSUME NEW i \in Inv, Adopts(p, i) \/ DiesAdopting(p, i) PROVE Adding(p, i)
    BY <2>1 DEF Adopts, DiesAdopting, Adding
  <2>2. ASSUME Syncs(p) \/ DiesSyncing(p) PROVE Syncing(p)
    BY <2>2 DEF Syncs, DiesSyncing, Syncing, RInv, Places
  <2>3. QED
    BY <1>1, <2>1, <2>2 DEF CollectorStep, Loads, Dispatches, Closes, Acknowledges, CollectsAgain,
       MarksMerged, Advances, SavesIt, SavesAndReturns, EndsOrDies
<1>2. QED
  BY <1>1 DEF NextRounds, roundVars

(* What a writer leaves holds what was there, is in order and not ahead. *)
Grown(w) ==
  /\ w \in Minutes /\ w.round <= disk.round
  /\ Ordered(w, disk)
  /\ \A j \in Inv : InMinutes(head, j) => InMinutes(w, j)

LEMMA AddingGrows ==
  ASSUME RInv, NEW p \in Proc, NEW i \in Inv, Adding(p, i)
  PROVE  Grown(work') /\ InMinutes(work', i)
<1> PICK r : r = Refreshed(p).inv[i].round
  OBVIOUS
<1>1. /\ work = head /\ work \in Minutes /\ Ordered(work, disk) /\ work.round <= disk.round
      /\ disk \in JournalData
  BY DEF RInv, Adding, Clean, RoundsTypes, DisplayNotAhead, IInv, TypeOK
<1>2. disk.inv[i] # NoRec /\ disk.inv[i].round = r /\ r <= disk.round
  BY CollectedRecord DEF Adding, Collectable
<1>3. r \in Nat \ {0}
  BY <1>2 DEF RInv, IInv, TypeOK, JournalData, Rec
<1>4. work' = Added(work, i, r)
  BY DEF Adding
<1>5. \A n \in 1..(disk.round - 1) : \E k \in DOMAIN work.body : work.body[k].round = n
  BY <1>1, PassedHaveSections
<1>6. Ordered(Added(work, i, r), disk)
  BY <1>1, <1>2, <1>3, <1>5, AddedInOrder
<1>7. QED
  BY <1>1, <1>3, <1>4, <1>6, AddedHolds DEF Grown

LEMMA SyncingGrows ==
  ASSUME RInv, NEW p \in Proc, Syncing(p)
  PROVE  Grown(work')
<1>1. work = head /\ work \in Minutes /\ Ordered(work, disk)
  BY DEF RInv, Syncing, Clean, RoundsTypes
<1>2. mem[p].round <= disk.round /\ mem[p].round \in Nat \ {0}
  BY SettledRound DEF Syncing
<1>3. work'.body = work.body /\ work'.round = mem[p].round /\ work' \in Minutes
  BY <1>1, <1>2 DEF Syncing, Minutes
<1>4. QED
  BY <1>1, <1>2, <1>3 DEF Grown, Ordered, InMinutes

(* minutes.md after any step: in order, not ahead, and nothing has gone from it. *)
LEMMA MinutesStep ==
  ASSUME RInv, [NextRounds]_roundVars
  PROVE  /\ work' \in Minutes /\ head' \in Minutes
         /\ Ordered(work', disk') /\ Ordered(head', disk')
         /\ DisplayNotAhead'
         /\ \A i \in Inv : /\ InMinutes(head, i) => InMinutes(head', i)
                           /\ InMinutes(head', i) => InMinutes(work', i)
<1>1. /\ work \in Minutes /\ head \in Minutes
      /\ Ordered(work, disk) /\ Ordered(head, disk)
      /\ work.round <= disk.round /\ head.round <= disk.round
      /\ \A i \in Inv : InMinutes(head, i) => InMinutes(work, i)
  BY DEF RInv, RoundsTypes, DisplayNotAhead, Standing
<1>2. SUFFICES /\ work' \in Minutes /\ head' \in Minutes
               /\ Ordered(work', disk) /\ Ordered(head', disk)
               /\ work'.round <= disk.round /\ head'.round <= disk.round
               /\ \A i \in Inv : /\ InMinutes(head, i) => InMinutes(head', i)
                                 /\ InMinutes(head', i) => InMinutes(work', i)
  <2>1. /\ disk \in JournalData /\ disk' \in JournalData /\ disk.round <= disk'.round
        /\ \A i \in Inv : disk.inv[i] # NoRec =>
             disk'.inv[i] # NoRec /\ disk'.inv[i].round = disk.inv[i].round
    BY JournalGrows
  <2>2. Ordered(work', disk') /\ Ordered(head', disk')
    BY <1>2, <2>1, OrderedStays
  <2>3. work'.round <= disk'.round /\ head'.round <= disk'.round
    BY <1>2, <2>1 DEF Minutes, JournalData
  <2>4. QED
    BY <1>2, <2>2, <2>3 DEF DisplayNotAhead
<1>3. CASE UNCHANGED <<work, head>>
  BY <1>1, <1>3
<1>4. CASE Repairs
  BY <1>1, <1>4 DEF Repairs
<1>5. ASSUME NEW p \in Proc, Syncing(p) \/ \E i \in Inv : Adding(p, i)
      PROVE  /\ work' \in Minutes /\ head' \in Minutes
             /\ Ordered(work', disk) /\ Ordered(head', disk)
             /\ work'.round <= disk.round /\ head'.round <= disk.round
             /\ \A j \in Inv : /\ InMinutes(head, j) => InMinutes(head', j)
                               /\ InMinutes(head', j) => InMinutes(work', j)
  <2>1. head' \in {head, work'}
    BY <1>5 DEF Adding, Syncing
  <2>2. QED
    BY <1>1, <1>5, <2>1, AddingGrows, SyncingGrows DEF Grown
<1>6. QED
  BY <1>3, <1>4, <1>5, MinutesWritten

-----------------------------------------------------------------------------
(* A collector's step is its own: the others' snapshots and places stay. *)
LEMMA OnlyOwn ==
  ASSUME RInv, NEW p \in Proc, CollectorStep(p), NEW q \in Proc, q # p
  PROVE  mem'[q] = mem[q] /\ pc'[q] = pc[q] /\ stage'[q] = stage[q] /\ cur'[q] = cur[q]
<1>1. /\ mem \in [Proc -> JournalData] /\ pc \in [Proc -> {"out", "ready", "saving"}]
      /\ stage \in [Proc -> {"free", "adopted", "marking", "merged",
                             "advancing", "syncing", "closing", "acknowledging"}]
      /\ cur \in [Proc -> Inv \cup {Nothing}]
  BY DEF RInv, IInv, TypeOK, RoundsTypes
<1>2. mem'[q] = mem[q] /\ pc'[q] = pc[q]
  BY <1>1 DEF CollectorStep, Loads, Dispatches, Closes, Adopts, Acknowledges, CollectsAgain,
     DiesAdopting, MarksMerged, Advances, SavesIt, SavesAndReturns, Syncs, EndsOrDies, DiesSyncing, Ends, Load, NewInvocation,
     SetState, Settle, AdvanceRound, AdvanceNothing, Stage, Save, Exit
<1>3. stage'[q] = stage[q] /\ cur'[q] = cur[q]
  BY <1>1 DEF CollectorStep, Loads, Dispatches, Closes, Adopts, Acknowledges, CollectsAgain,
     DiesAdopting, MarksMerged, Advances, SavesIt, SavesAndReturns, Syncs, EndsOrDies, DiesSyncing, Ends, At
<1>4. QED
  BY <1>2, <1>3

(* A collector goes through its critical sections in order. *)
LEMMA PlacesStep ==
  ASSUME RInv, [NextRounds]_roundVars
  PROVE  RoundsTypes' /\ \A q \in Proc : Places(q)'
<1>1. /\ pc \in [Proc -> {"out", "ready", "saving"}]
      /\ stage \in [Proc -> {"free", "adopted", "marking", "merged",
                             "advancing", "syncing", "closing", "acknowledging"}]
      /\ cur \in [Proc -> Inv \cup {Nothing}]
      /\ \A q \in Proc : Places(q)
  BY DEF RInv, IInv, TypeOK, RoundsTypes
<1>2. /\ work' \in Minutes /\ head' \in Minutes
      /\ \A i \in Inv : InMinutes(head, i) => InMinutes(head', i)
  BY MinutesStep
<1>3. CASE UNCHANGED <<pc, stage, cur>>
  BY <1>1, <1>2, <1>3 DEF RoundsTypes, Places
<1>4. ASSUME NEW p \in Proc, CollectorStep(p)
      PROVE  RoundsTypes' /\ \A q \in Proc : Places(q)'
  <2>1. ASSUME NEW q \in Proc, q # p PROVE Places(q)'
    BY <1>1, <1>2, <1>4, <2>1, OnlyOwn DEF Places
  <2>2. SUFFICES RoundsTypes' /\ Places(p)'
    BY <2>1
  <2> USE DEF RoundsTypes, Places, At
  <2>3. CASE Loads(p)
    BY <1>1, <1>2, <2>3 DEF Loads, Load
  <2>4. ASSUME NEW i \in Inv, NEW x \in Seat, Dispatches(p, i, x) PROVE RoundsTypes' /\ Places(p)'
    BY <1>1, <1>2, <2>4 DEF Dispatches, NewInvocation, Stage
  <2>5. ASSUME NEW i \in Inv, NEW s \in NewStates, Closes(p, i, s) PROVE RoundsTypes' /\ Places(p)'
    BY <1>1, <1>2, <2>5 DEF Closes, SetState, Stage
  <2>6. ASSUME NEW i \in Inv, Adopts(p, i) PROVE RoundsTypes' /\ Places(p)'
    <3>1. InMinutes(head', i)
      BY <2>6, AddingGrows DEF Adopts, Adding
    <3>2. QED
      BY <1>1, <1>2, <2>6, <3>1 DEF Adopts, Collectable, Settle
  <2>7. ASSUME NEW i \in Inv, CollectsAgain(p, i) PROVE RoundsTypes' /\ Places(p)'
    BY <1>1, <1>2, <2>7 DEF CollectsAgain, Settle
  <2>8. CASE MarksMerged(p)
    BY <1>1, <1>2, <2>8 DEF MarksMerged, SetState, Stage
  <2>9. CASE Advances(p)
    BY <1>1, <1>2, <2>9 DEF Advances, AdvanceRound, AdvanceNothing, Stage, Settle
  <2>10. CASE SavesIt(p)
    BY <1>1, <1>2, <2>10 DEF SavesIt, Save
  <2>11. CASE Ends(p)
    BY <1>1, <1>2, <2>11 DEF Ends, Exit
  <2>12. ASSUME NEW i \in Inv, Acknowledges(p, i) PROVE RoundsTypes' /\ Places(p)'
    BY <1>1, <1>2, <2>12 DEF Acknowledges, Collectable, SetState, Stage
  <2>13. CASE SavesAndReturns(p)
    BY <1>1, <1>2, <2>13 DEF SavesAndReturns, Save
  <2>14. QED
    BY <1>4, <2>3, <2>4, <2>5, <2>6, <2>7, <2>8, <2>9, <2>10, <2>11, <2>12, <2>13
       DEF CollectorStep, DiesAdopting, Syncs, EndsOrDies, DiesSyncing
<1>5. QED
  BY <1>3, <1>4 DEF NextRounds, Repairs, roundVars

(* The journal on disk is written by the saves alone. *)
LEMMA OnlySavesWrite ==
  ASSUME [NextRounds]_roundVars
  PROVE  disk' = disk \/ \E p \in Proc : SavesIt(p) \/ SavesAndReturns(p)
<1>1. ASSUME NEW p \in Proc, Loads(p) \/ MarksMerged(p) \/ Advances(p)
      PROVE  disk' = disk
  BY <1>1 DEF Loads, Load, MarksMerged, SetState, Advances, AdvanceRound, AdvanceNothing, Stage, Settle
<1>2. ASSUME NEW p \in Proc, NEW i \in Inv,
             \/ \E x \in Seat : Dispatches(p, i, x)
             \/ \E s \in NewStates : Closes(p, i, s)
             \/ Adopts(p, i) \/ Acknowledges(p, i) \/ CollectsAgain(p, i)
      PROVE  disk' = disk
  BY <1>2 DEF Dispatches, NewInvocation, Closes, SetState, Adopts, Acknowledges, CollectsAgain,
     Stage, Settle
<1>3. ASSUME NEW p \in Proc, Syncs(p) \/ EndsOrDies(p) \/ DiesSyncing(p)
                            \/ \E i \in Inv : DiesAdopting(p, i)
      PROVE  disk' = disk
  BY <1>3 DEF Syncs, EndsOrDies, DiesSyncing, DiesAdopting, Ends, Exit
<1>4. CASE Repairs \/ UNCHANGED roundVars
  BY <1>4 DEF Repairs, roundVars
<1>5. QED
  BY <1>1, <1>2, <1>3, <1>4 DEF NextRounds, CollectorStep

(* What a save leaves on disk is of rounds that were reached, and merged only if it stands. *)
LEMMA DiskStep ==
  ASSUME RInv, [NextRounds]_roundVars, NEW i \in Inv
  PROVE  /\ disk'.inv[i] # NoRec =>
              disk'.inv[i].round <= disk.round /\ disk'.inv[i].round <= disk'.round
         /\ MergedIn(disk', i) => InMinutes(head', i)
<1>1. /\ Reached(disk, disk.round) /\ \A q \in Proc : Reached(mem[q], disk.round)
      /\ Standing(i) /\ TypeOK
  BY DEF RInv, IInv
<1>2. disk.round <= disk'.round /\ disk' \in JournalData /\ disk \in JournalData
  BY JournalGrows
<1>3. InMinutes(head, i) => InMinutes(head', i)
  BY MinutesStep
<1>4. disk' = disk \/ \E p \in Proc : disk'.inv[i] \in {disk.inv[i], mem[p].inv[i]}
  <2>1. ASSUME NEW p \in Proc, Save(p) PROVE disk'.inv[i] \in {disk.inv[i], mem[p].inv[i]}
    BY <2>1 DEF Save, Refreshed, MergeData, MergeRec
  <2>2. QED
    BY <2>1, OnlySavesWrite DEF SavesIt, SavesAndReturns
<1>5. disk'.inv[i] # NoRec => disk'.inv[i].round <= disk.round
  BY <1>1, <1>4 DEF Reached
<1>6. MergedIn(disk', i) => InMinutes(head, i)
  BY <1>1, <1>4 DEF Standing, MergedIn
<1>7. disk'.inv[i] # NoRec => disk'.inv[i].round \in Nat
  BY <1>2 DEF JournalData, Rec
<1>8. QED
  BY <1>2, <1>3, <1>5, <1>6, <1>7 DEF JournalData

(* What a collector has in its snapshot is of rounds that were reached, and what it takes *)
(* for merged is merged on disk, or the answer it is about to mark.                       *)
Founded(p, i) ==
  mem[p].inv[i] # NoRec =>
    /\ mem[p].inv[i].round <= disk.round
    /\ mem[p].inv[i].state = "merged" =>
         \/ MergedIn(disk, i)
         \/ Marks(p, i) /\ InMinutes(head, i)

LEMMA FoundedAtFirst ==
  ASSUME RInv, NEW p \in Proc, NEW i \in Inv
  PROVE  Founded(p, i)
BY DEF RInv, Standing, Reached, Founded, MergedIn

(* It is so after each of its steps ... *)
LEMMA SnapshotStep ==
  ASSUME RInv, NEW p \in Proc, CollectorStep(p), NEW i \in Inv
  PROVE  Founded(p, i)'
<1>1. [NextRounds]_roundVars
  BY DEF NextRounds
<1>2. /\ mem \in [Proc -> JournalData] /\ pc \in [Proc -> {"out", "ready", "saving"}]
      /\ stage \in [Proc -> {"free", "adopted", "marking", "merged",
                             "advancing", "syncing", "closing", "acknowledging"}]
      /\ cur \in [Proc -> Inv \cup {Nothing}]
      /\ disk \in JournalData /\ disk' \in JournalData /\ Places(p)
      /\ TypeOK /\ SettledBelowDisk /\ CopiesAgree
  BY <1>1, JournalGrows DEF RInv, IInv, TypeOK, RoundsTypes
<1>3. /\ disk.round <= disk'.round
      /\ MergedIn(disk, i) => MergedIn(disk', i)
      /\ InMinutes(head, i) => InMinutes(head', i)
  BY <1>1, JournalGrows, MinutesStep DEF MergedIn
<1>4. Founded(p, i)
  BY FoundedAtFirst
<1>5. disk'.inv[i] # NoRec => disk'.inv[i].round <= disk'.round
  BY <1>1, DiskStep
<1>6. ASSUME mem'[p] = disk' PROVE Founded(p, i)'
  BY <1>5, <1>6 DEF Founded, MergedIn
<1> DEFINE R == Refreshed(p).inv[i]
<1>7. pc[p] = "ready" =>
        /\ R # NoRec => R.round <= disk.round
        /\ MergedIn(Refreshed(p), i) => MergedIn(disk, i)
        /\ Refreshed(p) \in JournalData
  BY <1>2, CollectedRecord, MergeDataType DEF Refreshed, MergedIn
<1>8. ASSUME pc[p] = "ready", mem'[p].inv[i] = R PROVE Founded(p, i)'
  <2> PICK r : r = R
    OBVIOUS
  <2>1. CASE r = NoRec
    BY <1>8, <2>1 DEF Founded
  <2>2. CASE r # NoRec
    <3>1. r \in Rec /\ r.round <= disk.round /\ (r.state = "merged" => MergedIn(disk, i))
      BY <1>7, <1>8, <2>2 DEF JournalData, MergedIn
    <3>2. r.round \in Nat /\ disk.round \in Nat /\ disk'.round \in Nat
      BY <1>2, <3>1 DEF JournalData, Rec
    <3>3. r.round <= disk'.round
      BY <1>3, <3>1, <3>2
    <3>4. r.state = "merged" => MergedIn(disk', i)
      BY <1>3, <3>1
    <3>5. QED
      BY <1>8, <2>2, <3>3, <3>4 DEF Founded, MergedIn
  <2>3. QED
    BY <2>1, <2>2
<1>9. CASE Loads(p)
  BY <1>2, <1>6, <1>9 DEF Loads, Load
<1>10. ASSUME NEW j \in Inv, NEW x \in Seat, Dispatches(p, j, x) PROVE Founded(p, i)'
  <2>1. pc[p] = "ready" /\ ~Marks(p, i) /\ disk' = disk
    BY <1>10 DEF Dispatches, NewInvocation, Stage, Marks
  <2>2. CASE i # j
    <3>1. mem'[p].inv[i] = mem[p].inv[i]
      BY <1>2, <1>10, <2>2 DEF Dispatches, NewInvocation, Stage, Put, JournalData
    <3>2. QED
      BY <1>4, <2>1, <3>1 DEF Founded, MergedIn
  <2>3. CASE i = j
    <3>1. mem'[p].inv[i] = [participant |-> x, round |-> mem[p].round, state |-> "prepared",
                            detail |-> "other", epoch |-> 0, route |-> "unset"]
      BY <1>2, <1>10, <2>3 DEF Dispatches, NewInvocation, Stage, Put, JournalData
    <3>2. mem[p].round <= disk.round
      BY <2>1, SettledRound
    <3>3. QED
      BY <2>1, <3>1, <3>2 DEF Founded
  <2>4. QED
    BY <2>2, <2>3
<1>11. ASSUME NEW j \in Inv, NEW s \in State, SetState(p, j, s, "other"),
              s = "merged" => Marks(p, j)' /\ InMinutes(head', j)
       PROVE  Founded(p, i)'
  <2>1. pc[p] = "ready" /\ disk' = disk /\ Refreshed(p) \in JournalData
    BY <1>7, <1>11 DEF SetState, Stage
  <2>2. CASE i # j
    <3>1. mem'[p].inv[i] = R
      BY <1>2, <1>11, <2>1, <2>2 DEF SetState, Stage, Put, JournalData
    <3>2. QED
      BY <1>8, <2>1, <3>1
  <2>3. CASE i = j
    <3>1. R \in Rec
      BY <1>11, <2>1, <2>3 DEF SetState, JournalData
    <3>2. mem'[p].inv[i] = [R EXCEPT !.state = s, !.detail = "other"]
      BY <1>2, <1>11, <2>1, <2>3 DEF SetState, Stage, Put, JournalData
    <3>3. R # NoRec /\ mem'[p].inv[i].round = R.round /\ mem'[p].inv[i].state = s
      BY <3>1, <3>2, NoRecAssumption DEF Rec
    <3>4. QED
      BY <1>7, <1>11, <2>1, <2>3, <3>3 DEF Founded
  <2>4. QED
    BY <2>2, <2>3
<1>12. ASSUME NEW j \in Inv, NEW s \in NewStates, Closes(p, j, s) PROVE Founded(p, i)'
  BY <1>11, <1>12, JournalAssumption DEF Closes
<1>13. CASE MarksMerged(p)
  <2>1. PICK j \in Inv : j = cur[p] /\ InMinutes(head, j)
    <3>1. stage[p] = "adopted"
      BY <1>13 DEF MarksMerged
    <3>2. cur[p] \in Inv /\ InMinutes(head, cur[p])
      BY <1>2, <3>1 DEF Places
    <3>3. QED
      BY <3>2
  <2>2. SetState(p, j, "merged", "other") /\ InMinutes(head', j) /\ Marks(p, j)'
    BY <1>2, <1>13, <2>1 DEF MarksMerged, At, InMinutes, Marks
  <2>3. QED
    BY <1>11, <2>2 DEF State
<1>14. CASE Settle(p)
  BY <1>2, <1>8, <1>14 DEF Settle
<1>15. CASE Advances(p)
  <2>1. CASE AdvanceRound(p)
    <3>1. pc[p] = "ready" /\ mem'[p] = [Refreshed(p) EXCEPT !.round = @ + 1]
      BY <1>2, <2>1 DEF AdvanceRound, Stage
    <3>2. mem'[p].inv = Refreshed(p).inv
      BY <1>7, <3>1 DEF JournalData
    <3>3. QED
      BY <1>8, <3>1, <3>2
  <2>2. QED
    BY <1>14, <1>15, <2>1 DEF Advances, AdvanceNothing
<1>16. CASE SavesIt(p)
  BY <1>2, <1>6, <1>16 DEF SavesIt, Save
<1>17. CASE Ends(p)
  <2>1. mem'[p].inv[i] = NoRec
    BY <1>2, <1>17 DEF Ends, Exit, EmptyJournal
  <2>2. QED
    BY <2>1 DEF Founded
<1>18. ASSUME NEW j \in Inv, Acknowledges(p, j) PROVE Founded(p, i)'
  <2>1. SetState(p, j, "merged", "other") /\ InMinutes(head', j) /\ Marks(p, j)'
    BY <1>2, <1>18 DEF Acknowledges, At, InMinutes, Marks
  <2>2. QED
    BY <1>11, <2>1 DEF State
<1>19. CASE SavesAndReturns(p)
  BY <1>2, <1>6, <1>19 DEF SavesAndReturns, Save
<1>20. QED
  BY <1>9, <1>10, <1>12, <1>13, <1>14, <1>15, <1>16, <1>17, <1>18, <1>19
     DEF CollectorStep, Adopts, CollectsAgain, DiesAdopting, Syncs, EndsOrDies, DiesSyncing

(* ... and of everybody. *)
LEMMA FoundedStep ==
  ASSUME RInv, [NextRounds]_roundVars, NEW q \in Proc, NEW i \in Inv
  PROVE  Founded(q, i)'
<1>1. /\ disk.round <= disk'.round /\ disk \in JournalData /\ disk' \in JournalData
      /\ MergedIn(disk, i) => MergedIn(disk', i)
      /\ InMinutes(head, i) => InMinutes(head', i)
  BY JournalGrows, MinutesStep DEF MergedIn
<1>2. Founded(q, i) /\ mem[q] \in JournalData
  BY FoundedAtFirst DEF RInv, IInv, TypeOK
<1>3. CASE mem'[q] = mem[q] /\ stage'[q] = stage[q] /\ cur'[q] = cur[q]
  <2>1. mem[q].inv[i] # NoRec => mem[q].inv[i].round \in Nat
    BY <1>2 DEF JournalData, Rec
  <2>2. QED
    BY <1>1, <1>2, <1>3, <2>1 DEF Founded, JournalData, Marks
<1>4. ASSUME NEW p \in Proc, CollectorStep(p) PROVE Founded(q, i)'
  BY <1>3, <1>4, SnapshotStep, OnlyOwn
<1>5. QED
  BY <1>3, <1>4 DEF NextRounds, Repairs, roundVars

(* So what is merged stands, and no record is of a round to come. *)
LEMMA StandingStep ==
  ASSUME RInv, [NextRounds]_roundVars
  PROVE  /\ \A i \in Inv : Standing(i)'
         /\ Reached(disk, disk.round)' /\ \A p \in Proc : Reached(mem[p], disk.round)'
<1>1. ASSUME NEW i \in Inv PROVE Standing(i)'
  <2>1. ASSUME NEW p \in Proc, MergedIn(mem'[p], i)
        PROVE  /\ InMinutes(head', i)
               /\ MergedIn(disk', i) \/ Marks(p, i)'
    BY <2>1, DiskStep, FoundedStep DEF Founded, MergedIn
  <2>2. QED
    BY <2>1, DiskStep, MinutesStep DEF Standing
<1>2. QED
  BY <1>1, DiskStep, FoundedStep DEF Reached, Founded

-----------------------------------------------------------------------------
(* A round that has just been reached is nobody's answered one yet. *)
LEMMA NewRoundIsOpen ==
  ASSUME RInv, [NextRounds]_roundVars, disk.round < disk'.round
  PROVE  ~Complete(disk', disk'.round)
<1>1. PICK x \in Participant : TRUE
  BY RoundsAssumption
<1>2. disk.round \in Nat /\ disk'.round \in Nat
  BY JournalGrows DEF JournalData
<1>3. ASSUME NEW i \in Inv, disk'.inv[i] # NoRec PROVE disk'.inv[i].round # disk'.round
  BY <1>2, <1>3, DiskStep
<1>4. QED
  BY <1>1, <1>3 DEF Complete, MergedBy

(***************************************************************************)
(* A save that completes the round is the one of a collector that goes on  *)
(* to advance it, unless its command returns with the merge.               *)
(***************************************************************************)
LEMMA SaveAdvances ==
  ASSUME RInv, [NextRounds]_roundVars, NEW p \in Proc, SavesIt(p),
         disk'.round = disk.round, Complete(disk', disk'.round),
         disk.round < MaxRound, lost # disk.round
  PROVE  \E q \in Proc : WillAdvance(q)'
<1>1. /\ stage \in [Proc -> {"free", "adopted", "marking", "merged",
                             "advancing", "syncing", "closing", "acknowledging"}]
      /\ cur \in [Proc -> Inv \cup {Nothing}] /\ pc[p] = "saving" /\ disk' = Refreshed(p)
  BY DEF RInv, RoundsTypes, SavesIt, Save
<1>2. CASE stage[p] = "marking"
  BY <1>1, <1>2 DEF SavesIt, At, WillAdvance
<1>3. CASE stage[p] # "marking"
  <2>1. ASSUME NEW i \in Inv, MergedIn(disk', i)
        PROVE  MergedIn(disk, i)
    <3>1. disk'.inv[i] \in {disk.inv[i], mem[p].inv[i]}
      BY <1>1 DEF Refreshed, MergeData, MergeRec
    <3>2. ~Marks(p, i)
      BY <1>3 DEF SavesIt, Marks
    <3>3. QED
      BY <2>1, <3>1, <3>2 DEF MergedIn, RInv, Standing
  <2>2. ASSUME NEW x \in Participant PROVE MergedBy(disk, x, disk.round)
    <3>1. PICK i \in Inv : /\ MergedIn(disk', i) /\ disk'.inv[i].participant = x
                           /\ disk'.inv[i].round = disk.round
      BY DEF Complete, MergedBy, MergedIn
    <3>2. QED
      BY <2>1, <3>1, JournalGrows DEF MergedBy, MergedIn
  <2>3. PICK q \in Proc : WillAdvance(q)
    BY <2>2 DEF RInv, NoAdvanceIsLost, Complete
  <2>4. CASE q = p
    <3>1. mem[p].round > disk.round
      BY <1>1, <2>3, <2>4 DEF WillAdvance, RInv, Places
    <3>2. disk'.round = mem[p].round
      BY <1>1, <3>1 DEF Refreshed, MergeData, Larger, RInv, IInv, TypeOK, JournalData
    <3>3. QED
      BY <3>1, <3>2 DEF RInv, IInv, TypeOK, JournalData
  <2>5. CASE q # p
    <3>1. mem'[q] = mem[q] /\ stage'[q] = stage[q]
      BY <2>5, OnlyOwn DEF CollectorStep
    <3>2. QED
      BY <2>3, <3>1 DEF WillAdvance
  <2>6. QED
    BY <2>4, <2>5
<1>4. QED
  BY <1>2, <1>3

(* Nobody who is going to advance a complete round does anything else, but end. *)
LEMMA AdvancerAdvances ==
  ASSUME RInv, NEW p \in Proc, CollectorStep(p), ~SavesIt(p), ~SavesAndReturns(p), WillAdvance(p),
         Complete(disk, disk.round), disk.round < MaxRound
  PROVE  WillAdvance(p)' \/ lost' = disk.round
<1>1. /\ stage \in [Proc -> {"free", "adopted", "marking", "merged",
                             "advancing", "syncing", "closing", "acknowledging"}]
      /\ cur \in [Proc -> Inv \cup {Nothing}] /\ mem \in [Proc -> JournalData]
      /\ Places(p) /\ TypeOK /\ SettledBelowDisk /\ CopiesAgree
  BY DEF RInv, RoundsTypes, IInv, TypeOK
<1>2. stage[p] \in {"merged", "advancing"} /\ pc[p] # "out"
  BY <1>1 DEF WillAdvance, Places
<1>3. CASE Ends(p)
  BY <1>2, <1>3 DEF Ends
<1>4. CASE Advances(p)
  <2>1. pc[p] = "ready" /\ Refreshed(p).round = disk.round /\ disk.round \in Nat
    BY <1>1, <1>4, SettledRound DEF Advances, Places
  <2>2. Complete(Refreshed(p), Refreshed(p).round)
    BY <1>1, <2>1, RefreshedMergedBy DEF Complete
  <2>3. AdvanceRound(p) /\ At(p, "advancing", Nothing)
    BY <1>4, <2>2 DEF Advances, AdvanceNothing
  <2>4. disk' = disk /\ mem'[p] = [Refreshed(p) EXCEPT !.round = @ + 1]
    BY <1>1, <2>3 DEF AdvanceRound, Stage
  <2>5. Refreshed(p) \in JournalData
    BY <1>1, MergeDataType DEF TypeOK, Refreshed
  <2>6. mem'[p].round = disk.round + 1
    BY <2>1, <2>4, <2>5 DEF JournalData
  <2>7. QED
    BY <1>1, <2>1, <2>3, <2>4, <2>6 DEF WillAdvance, At
<1>5. QED
  BY <1>2, <1>3, <1>4
     DEF CollectorStep, Loads, Load, Dispatches, Closes, Adopts, Acknowledges, Collectable,
         CollectsAgain, DiesAdopting, MarksMerged, Syncs, EndsOrDies, DiesSyncing

(* No step loses the advance of the round, but those that `lost' records. *)
LEMMA AdvanceStep ==
  ASSUME RInv, [NextRounds]_roundVars
  PROVE  NoAdvanceIsLost'
<1> SUFFICES ASSUME Complete(disk', disk'.round), disk'.round < MaxRound, lost' # disk'.round
             PROVE  \E p \in Proc : WillAdvance(p)'
  BY DEF NoAdvanceIsLost
<1>1. disk'.round = disk.round
  BY NewRoundIsOpen, JournalGrows DEF JournalData
<1>2. ASSUME NEW p \in Proc, SavesIt(p) \/ SavesAndReturns(p) PROVE \E q \in Proc : WillAdvance(q)'
  <2>1. CASE SavesIt(p)
    BY <1>1, <2>1, SaveAdvances DEF SavesIt
  <2>2. CASE SavesAndReturns(p)
    BY <2>2 DEF SavesAndReturns
  <2>3. QED
    BY <1>2, <2>1, <2>2
<1>3. CASE disk' = disk /\ lost = disk.round
  BY <1>1, <1>3 DEF NextRounds, CollectorStep, Loads, Dispatches, Closes, Adopts, Acknowledges,
     CollectsAgain, DiesAdopting, MarksMerged, Advances, SavesIt, SavesAndReturns, Syncs, EndsOrDies, DiesSyncing, Ends, Repairs,
     roundVars
<1>4. CASE disk' = disk /\ lost # disk.round
  <2>1. PICK q \in Proc : WillAdvance(q)
    BY <1>4 DEF RInv, NoAdvanceIsLost
  <2>2. ASSUME NEW p \in Proc, CollectorStep(p), ~SavesIt(p), ~SavesAndReturns(p)
        PROVE  \E o \in Proc : WillAdvance(o)'
    <3>1. CASE q = p
      BY <1>1, <1>4, <2>1, <2>2, <3>1, AdvancerAdvances
    <3>2. CASE q # p
      <4>1. mem'[q] = mem[q] /\ stage'[q] = stage[q]
        BY <2>2, <3>2, OnlyOwn
      <4>2. QED
        BY <1>4, <2>1, <4>1 DEF WillAdvance
    <3>3. QED
      BY <3>1, <3>2
  <2>3. CASE Repairs \/ UNCHANGED roundVars
    BY <2>1, <2>3 DEF Repairs, roundVars, WillAdvance
  <2>4. QED
    BY <1>2, <2>2, <2>3 DEF NextRounds
<1>5. disk' = disk \/ \E p \in Proc : SavesIt(p) \/ SavesAndReturns(p)
  BY OnlySavesWrite
<1>6. QED
  BY <1>2, <1>3, <1>4, <1>5

-----------------------------------------------------------------------------
(* A new topic: nothing asked, nothing in the minutes. *)
LEMMA NewTopic == InitRounds => RInv
<1> SUFFICES ASSUME InitRounds PROVE RInv
  OBVIOUS
<1>1. /\ disk = EmptyJournal /\ mem = [p \in Proc |-> EmptyJournal]
      /\ EmptyJournal.round = 1 /\ \A i \in Inv : EmptyJournal.inv[i] = NoRec
      /\ work = [round |-> 1, body |-> <<>>] /\ head = work
      /\ stage = [p \in Proc |-> "free"] /\ cur = [p \in Proc |-> Nothing]
  BY DEF InitRounds, Init, EmptyJournal
<1>2. IInv
  BY InvariantAtFirst DEF InitRounds
<1>3. RoundsTypes /\ \A p \in Proc : Places(p)
  <2>1. <<>> \in Seq(Section)
    OBVIOUS
  <2>2. QED
    BY <1>1, <2>1 DEF RoundsTypes, Minutes, Places
<1>4. Ordered(work, disk) /\ Ordered(head, disk) /\ DisplayNotAhead
  <2>1. DOMAIN work.body = {} /\ work.round = 1 /\ disk.round = 1
    BY <1>1
  <2>2. QED
    BY <1>1, <2>1 DEF Ordered, DisplayNotAhead
<1>5. /\ \A i \in Inv : Standing(i)
      /\ Reached(disk, disk.round) /\ \A p \in Proc : Reached(mem[p], disk.round)
  BY <1>1 DEF Standing, MergedIn, Reached
<1>6. NoAdvanceIsLost
  BY <1>1, RoundsAssumption DEF NoAdvanceIsLost, Complete, MergedBy
<1>7. QED
  BY <1>2, <1>3, <1>4, <1>5, <1>6 DEF RInv

(* The invariant of the end of a collect, for any number of collectors. *)
THEOREM RoundsInvariant == SpecRounds => []RInv
<1>1. RInv /\ [NextRounds]_roundVars => RInv'
  BY JournalGrows, PlacesStep, MinutesStep, StandingStep, AdvanceStep DEF RInv
<1>2. QED
  BY <1>1, NewTopic, PTL DEF SpecRounds

(***************************************************************************)
(* A complete round is going to be advanced, unless a command that merged  *)
(* an answer in it was a cancel or a socket-collect, or ended before the   *)
(* advance.                                                                *)
(***************************************************************************)
THEOREM AdvanceNotLost == SpecRounds => []NoAdvanceIsLost
<1>1. RInv => NoAdvanceIsLost
  BY DEF RInv
<1>2. QED
  BY <1>1, RoundsInvariant, PTL

(* minutes.md at HEAD has its rounds in order, and every answer under its own. *)
THEOREM MinutesInOrder == SpecRounds => []AnswersStandInOrder
<1>1. RInv => AnswersStandInOrder
  BY DEF RInv, Ordered, AnswersStandInOrder
<1>2. QED
  BY <1>1, RoundsInvariant, PTL

(* The line of minutes.md shows no round that was not reached. *)
THEOREM LineNotAhead == SpecRounds => []DisplayNotAhead
<1>1. RInv => DisplayNotAhead
  BY DEF RInv
<1>2. QED
  BY <1>1, RoundsInvariant, PTL

(* With whole collectors for clients, too, a round is passed only when everybody answered it. *)
THEOREM PassedRoundsAnswered == SpecRounds => []RoundSound
<1>1. RInv => RoundSound
  BY DEF RInv, IInv
<1>2. QED
  BY <1>1, RoundsInvariant, PTL

=============================================================================
