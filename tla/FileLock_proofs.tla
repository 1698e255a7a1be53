--------------------------- MODULE FileLock_proofs ---------------------------
(***************************************************************************)
(* The lock of filelock.FileLock is exclusive as long as no section lasts  *)
(* as long as a residue and no file is left behind, and nobody gives up on *)
(* a residue it could reclaim, for any number of processes and any timing  *)
(* constants related as FileLockAssumption says.                           *)
(***************************************************************************)
EXTENDS FileLock, TLAPS

(***************************************************************************)
(* What makes exclusion inductive until something is upset: the lock file  *)
(* is there exactly while its maker is inside, as old as the maker's stay, *)
(* hence too young to be judged a residue.                                 *)
(***************************************************************************)
NobodyJudges == \A p \in Proc : pc[p] # "judged"

HolderOwnsFile ==
  \A p \in In : /\ file # NoFile
                /\ file.owner = p
                /\ file.age = clock[p]
                /\ clock[p] < Stale

FileIsHeld == file # NoFile => file.owner \in In

Calm == NobodyJudges /\ HolderOwnsFile /\ FileIsHeld

LockInv == TypeOK /\ (upset = {} => Calm)

(* A clock or an age that has not reached the deadline stays within it. *)
LEMMA CappedType == ASSUME NEW n \in 0..Timeout PROVE Capped(n) \in 0..Timeout
BY FileLockAssumption DEF Capped

(* Every variable keeps its type: no age or clock runs past the deadline. *)
THEOREM LockTypeCorrect == Spec => []TypeOK
<1>1. Init => TypeOK
  BY FileLockAssumption DEF Init, TypeOK
<1>2. TypeOK /\ [Next]_vars => TypeOK'
  <2> SUFFICES ASSUME TypeOK, [Next]_vars PROVE TypeOK'
    OBVIOUS
  <2> USE DEF TypeOK
  <2>1. ASSUME NEW p \in Proc, Begins(p) PROVE TypeOK'
    BY <2>1, FileLockAssumption DEF Begins, Goes
  <2>2. ASSUME NEW p \in Proc, Acquires(p) PROVE TypeOK'
    BY <2>2, FileLockAssumption DEF Acquires, Goes
  <2>3. ASSUME NEW p \in Proc, Judges(p) PROVE TypeOK'
    BY <2>3 DEF Judges
  <2>4. ASSUME NEW p \in Proc, TurnEnds(p)
        PROVE  /\ pc' \in [Proc -> {"idle", "trying", "judged", "in", "dead"}]
               /\ clock' \in [Proc -> 0..Timeout]
               /\ polled' \subseteq Proc
               /\ deaths' \in 0..MaxDeaths
               /\ upset' \subseteq {"left", "slow"}
    BY <2>4, FileLockAssumption DEF TurnEnds, Goes
  <2>5. ASSUME NEW p \in Proc, Reclaims(p) \/ Waits(p) PROVE TypeOK'
    BY <2>4, <2>5 DEF Reclaims, Waits
  <2>6. ASSUME NEW p \in Proc, TurnFails(p) PROVE TypeOK'
    <3>1. file' \in [owner : Proc, age : 0..Timeout, kept : BOOLEAN] \cup {NoFile}
      <4>1. (file.kept \/ TooOld) \in BOOLEAN
        BY DEF TooOld
      <4>2. CASE file = NoFile
        BY <2>6, <4>2 DEF TurnFails
      <4>3. CASE file # NoFile
        BY <2>6, <4>1, <4>3 DEF TurnFails
      <4>4. QED
        BY <4>2, <4>3
    <3>2. QED
      BY <2>4, <2>6, <3>1 DEF TurnFails
  <2>7. ASSUME NEW p \in Proc, Releases(p) \/ ReleaseFails(p) PROVE TypeOK'
    <3>1. CASE Releases(p)
      BY <3>1, FileLockAssumption DEF Releases, Goes
    <3>2. CASE ReleaseFails(p)
      BY <3>2, FileLockAssumption DEF ReleaseFails, Goes
    <3>3. QED
      BY <2>7, <3>1, <3>2
  <2>8. ASSUME NEW p \in Proc, Dies(p) PROVE TypeOK'
    BY <2>8, FileLockAssumption DEF Dies, Goes
  <2>9. CASE Tick
    <3>1. file' \in [owner : Proc, age : 0..Timeout, kept : BOOLEAN] \cup {NoFile}
      BY <2>9, CappedType DEF Tick
    <3>2. clock' \in [Proc -> 0..Timeout]
      BY <2>9, CappedType DEF Tick
    <3>3. QED
      BY <2>9, <3>1, <3>2 DEF Tick
  <2>10. CASE UNCHANGED vars
    BY <2>10 DEF vars
  <2>11. QED
    BY <2>1, <2>2, <2>3, <2>5, <2>6, <2>7, <2>8, <2>9, <2>10 DEF Next, Step
<1>3. QED
  BY <1>1, <1>2, PTL DEF Spec

(* Until something is upset nobody finds the lock file too old. *)
LEMMA NoFileIsTooOld ==
  ASSUME TypeOK, Calm, file # NoFile
  PROVE  ~TooOld
BY FileLockAssumption DEF Calm, HolderOwnsFile, FileIsHeld, TypeOK, TooOld

(* What was upset stays on record. *)
LEMMA UpsetStays == [Next]_vars => upset \subseteq upset'
BY DEF Next, Step, Tick, Begins, Acquires, Judges, Reclaims, Waits, TurnFails, Releases,
       ReleaseFails, Dies, TurnEnds, vars

(* Only what upsets the lock breaks the hold of the maker on its file. *)
LEMMA LockStep == LockInv /\ TypeOK' /\ [Next]_vars => LockInv'
<1> SUFFICES ASSUME LockInv, TypeOK', [Next]_vars, upset' = {} PROVE Calm'
  BY DEF LockInv
<1>0. upset = {}
  BY UpsetStays
<1>a. TypeOK /\ Calm
  BY <1>0 DEF LockInv
<1>b. file # NoFile => ~TooOld
  BY <1>a, NoFileIsTooOld
<1> USE <1>a DEF TypeOK, Calm, NobodyJudges, HolderOwnsFile, FileIsHeld, In
<1>1. ASSUME NEW p \in Proc, Begins(p) PROVE Calm'
  BY <1>1 DEF Begins, Goes
<1>2. ASSUME NEW p \in Proc, Acquires(p) PROVE Calm'
  <2>1. file = NoFile /\ file' = [owner |-> p, age |-> 0, kept |-> FALSE]
    BY <1>2 DEF Acquires
  <2>2. file' # NoFile /\ file'.owner = p /\ file'.age = 0
    <3>1. [owner |-> p, age |-> 0, kept |-> FALSE] \in [owner : Proc, age : 0..Timeout, kept : BOOLEAN]
      BY FileLockAssumption
    <3>2. [owner |-> p, age |-> 0, kept |-> FALSE] # NoFile
      BY <3>1, FileLockAssumption
    <3>3. QED
      BY <2>1, <3>2
  <2>3. \A q \in Proc : /\ (pc'[q] = "in") = (q = p)
                        /\ pc'[q] # "judged"
    BY <1>2, <2>1 DEF Acquires, Goes
  <2>4. clock'[p] = 0
    BY <1>2 DEF Acquires, Goes
  <2>5. QED
    BY <2>2, <2>3, <2>4, FileLockAssumption
<1>3. ASSUME NEW p \in Proc, Judges(p) PROVE FALSE
  BY <1>3, <1>b DEF Judges
<1>4. ASSUME NEW p \in Proc, Reclaims(p) PROVE FALSE
  BY <1>4 DEF Reclaims
<1>5. ASSUME NEW p \in Proc, Waits(p) PROVE Calm'
  BY <1>5 DEF Waits, TurnEnds, Goes
<1>6. ASSUME NEW p \in Proc, TurnFails(p) PROVE Calm'
  <2>1. pc[p] = "trying" /\ (file # NoFile => file' = [file EXCEPT !.kept = file.kept \/ TooOld])
        /\ (file = NoFile => file' = NoFile)
    BY <1>6 DEF TurnFails
  <2>2. ASSUME file # NoFile
        PROVE  file' # NoFile /\ file'.owner = file.owner /\ file'.age = file.age
    <3>1. file' = [file EXCEPT !.kept = file.kept \/ TooOld]
      BY <2>1, <2>2
    <3>2. (file.kept \/ TooOld) \in BOOLEAN
      BY DEF TooOld
    <3>3. file' \in [owner : Proc, age : 0..Timeout, kept : BOOLEAN]
      BY <2>2, <3>1, <3>2
    <3>4. QED
      BY <2>2, <3>1, <3>3, FileLockAssumption
  <2>3. \A q \in Proc : /\ (pc'[q] = "in") = (pc[q] = "in")
                        /\ pc'[q] # "judged"
                        /\ pc[q] = "in" => clock'[q] = clock[q]
    BY <1>6, <2>1 DEF TurnFails, TurnEnds, Goes
  <2>4. QED
    BY <2>1, <2>2, <2>3
<1>7. ASSUME NEW p \in Proc, Releases(p) PROVE Calm'
  BY <1>7 DEF Releases, Goes
<1>8. ASSUME NEW p \in Proc, ReleaseFails(p) PROVE FALSE
  BY <1>8 DEF ReleaseFails
<1>9. ASSUME NEW p \in Proc, Dies(p) PROVE Calm'
  BY <1>9 DEF Dies, Goes
<1>10. CASE Tick
  <2>1. ASSUME NEW p \in In PROVE clock'[p] = Capped(clock[p]) /\ clock'[p] < Stale
    <3>1. clock'[p] = Capped(clock[p])
      BY <1>10 DEF Tick
    <3>2. ~(clock'[p] >= Stale)
      BY <1>10 DEF Tick
    <3>3. QED
      BY <3>1, <3>2, CappedType, FileLockAssumption
  <2>2. HolderOwnsFile'
    <3> SUFFICES ASSUME NEW p \in In PROVE file' # NoFile /\ file'.owner = p
                                         /\ file'.age = clock'[p] /\ clock'[p] < Stale
      BY <1>10 DEF Tick
    <3>1. file # NoFile /\ file.owner = p /\ file.age = clock[p]
      OBVIOUS
    <3>2. file' = [file EXCEPT !.age = Capped(file.age)]
      BY <1>10, <3>1 DEF Tick
    <3>3. file'.owner = p /\ file'.age = Capped(clock[p])
      BY <3>1, <3>2
    <3>4. file' # NoFile
      BY <3>1, <3>2, CappedType, FileLockAssumption
    <3>5. QED
      BY <2>1, <3>3, <3>4
  <2>3. QED
    BY <1>10, <2>2 DEF Tick
<1>11. CASE UNCHANGED vars
  BY <1>11 DEF vars
<1>12. QED
  BY <1>1, <1>2, <1>3, <1>4, <1>5, <1>6, <1>7, <1>8, <1>9, <1>10, <1>11 DEF Next, Step

(***************************************************************************)
(* Two processes are never inside at once, unless a section has lasted     *)
(* Stale ticks or a lock file has been left behind: whatever waiters do,   *)
(* die or fail at.                                                         *)
(***************************************************************************)
THEOREM ExclusionUnlessUpset == Spec => []ExclusiveUnlessUpset
<1>1. Init => LockInv
  BY FileLockAssumption DEF Init, LockInv, Calm, TypeOK, NobodyJudges, HolderOwnsFile, FileIsHeld, In
<1>2. LockInv => ExclusiveUnlessUpset
  BY DEF LockInv, Calm, HolderOwnsFile, ExclusiveUnlessUpset, AtMostOneIn
<1>3. QED
  BY <1>1, <1>2, LockStep, LockTypeCorrect, PTL DEF Spec

-----------------------------------------------------------------------------
(***************************************************************************)
(* Why no residue makes a waiter give up, unless it could not be removed:  *)
(* a file that is too old has been so since this tick began, so whoever    *)
(* polls in it removes it or fails to; hence time passes over an old file  *)
(* that nobody failed on only when nobody waits, and who finds it older    *)
(* still has only just begun.                                              *)
(***************************************************************************)
Waiting(p) == pc[p] \in {"trying", "judged"}

OldUnpolled == file # NoFile /\ TooOld /\ ~file.kept => polled = {}

OldForNewcomers ==
  \A p \in Proc : file # NoFile /\ file.age > Stale /\ ~file.kept /\ Waiting(p) => clock[p] = 0

AgeInv == TypeOK /\ OldUnpolled /\ OldForNewcomers

LEMMA AgeStep == AgeInv /\ TypeOK' /\ [Next]_vars => AgeInv'
<1> SUFFICES ASSUME AgeInv, TypeOK', [Next]_vars PROVE (OldUnpolled /\ OldForNewcomers)'
  BY DEF AgeInv
<1> USE DEF AgeInv, TypeOK, OldUnpolled, OldForNewcomers, Waiting, TooOld
<1>1. ASSUME NEW p \in Proc, Begins(p) PROVE (OldUnpolled /\ OldForNewcomers)'
  BY <1>1 DEF Begins, Goes
<1>2. ASSUME NEW p \in Proc, Acquires(p) PROVE (OldUnpolled /\ OldForNewcomers)'
  <2>1. file' = [owner |-> p, age |-> 0, kept |-> FALSE]
    BY <1>2 DEF Acquires
  <2>2. file'.age = 0
    BY <2>1
  <2>3. QED
    BY <2>2, FileLockAssumption
<1>3. ASSUME NEW p \in Proc, Judges(p) PROVE (OldUnpolled /\ OldForNewcomers)'
  BY <1>3 DEF Judges
<1>4. ASSUME NEW p \in Proc, Reclaims(p) \/ Releases(p) PROVE (OldUnpolled /\ OldForNewcomers)'
  BY <1>4 DEF Reclaims, Releases
<1>5. ASSUME NEW p \in Proc, Waits(p) PROVE (OldUnpolled /\ OldForNewcomers)'
  BY <1>5, FileLockAssumption DEF Waits, TurnEnds, Goes
<1>6. ASSUME NEW p \in Proc, TurnFails(p) PROVE (OldUnpolled /\ OldForNewcomers)'
  <2>1. CASE file = NoFile \/ TooOld
    <3>1. file' = NoFile \/ file'.kept
      BY <1>6, <2>1 DEF TurnFails
    <3>2. QED
      BY <3>1
  <2>2. CASE file # NoFile /\ ~TooOld
    <3>1. file'.age = file.age
      BY <1>6, <2>2 DEF TurnFails
    <3>2. QED
      BY <2>2, <3>1, FileLockAssumption
  <2>3. QED
    BY <2>1, <2>2
<1>7. ASSUME NEW p \in Proc, ReleaseFails(p) PROVE (OldUnpolled /\ OldForNewcomers)'
  BY <1>7 DEF ReleaseFails, Goes
<1>8. ASSUME NEW p \in Proc, Dies(p) PROVE (OldUnpolled /\ OldForNewcomers)'
  BY <1>8 DEF Dies, Goes
<1>9. CASE Tick
  <2>1. OldUnpolled'
    BY <1>9 DEF Tick
  <2>2. OldForNewcomers'
    <3> SUFFICES ASSUME NEW p \in Proc, file' # NoFile, file'.age > Stale, ~file'.kept, Waiting(p)'
                 PROVE  FALSE
      OBVIOUS
    <3>1. file # NoFile /\ file' = [file EXCEPT !.age = Capped(file.age)]
      BY <1>9 DEF Tick
    <3>2. file'.age = Capped(file.age) /\ ~file.kept
      BY <3>1
    <3>3. TooOld
      BY <3>1, <3>2, FileLockAssumption DEF Capped
    <3>4. polled = {}
      BY <3>1, <3>2, <3>3
    <3>5. pc[p] = "trying" /\ p \in polled
      BY <1>9 DEF Tick
    <3>6. QED
      BY <3>4, <3>5
  <2>3. QED
    BY <2>1, <2>2
<1>10. CASE UNCHANGED vars
  BY <1>10 DEF vars
<1>11. QED
  BY <1>1, <1>2, <1>3, <1>4, <1>5, <1>6, <1>7, <1>8, <1>9, <1>10 DEF Next, Step

(* Who gives up had begun before the file was made. *)
LEMMA GivesUpOnTurnover ==
  ASSUME AgeInv, [Next]_vars, NEW p \in Proc, Waiting(p), pc'[p] = "idle"
  PROVE  file = NoFile \/ file.kept \/ file.age < clock[p]
<1> USE DEF AgeInv, TypeOK, Waiting
<1>1. Waits(p) \/ Reclaims(p) \/ TurnFails(p)
  BY DEF Next, Step, Tick, Begins, Acquires, Judges, Reclaims, Waits, TurnFails, Releases,
         ReleaseFails, Dies, TurnEnds, Goes, vars
<1>2. clock[p] = Timeout
  BY <1>1, FileLockAssumption DEF Waits, Reclaims, TurnFails, TurnEnds
<1>3. file # NoFile /\ ~file.kept => file.age <= Stale
  BY <1>2, FileLockAssumption DEF OldForNewcomers
<1>4. QED
  BY <1>2, <1>3, FileLockAssumption

(* A LockTimeout means turnover or a reclaim that failed, whoever died or was slow. *)
THEOREM NobodyGivesUpOnResidue == Spec => TimeoutMeansTurnover
<1>1. Init => AgeInv
  BY FileLockAssumption DEF Init, AgeInv, TypeOK, OldUnpolled, OldForNewcomers
<1>2. AgeInv /\ [Next]_vars =>
        [\A p \in Proc : pc[p] \in {"trying", "judged"} /\ pc'[p] = "idle" =>
           file = NoFile \/ file.kept \/ file.age < clock[p]]_vars
  BY GivesUpOnTurnover DEF Waiting
<1>3. QED
  BY <1>1, <1>2, AgeStep, LockTypeCorrect, PTL DEF Spec, TimeoutMeansTurnover
=============================================================================
