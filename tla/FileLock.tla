------------------------------ MODULE FileLock ------------------------------
(***************************************************************************)
(* filelock.FileLock: the lock file of minutes.md, journal.json or         *)
(* seats.json, with the reclaim of a residue by its age.                   *)
(*                                                                         *)
(* Time is counted in ticks.  Waiters poll many times a tick, so a tick    *)
(* passes only when each of them has polled.  A holder may take as long as *)
(* it likes: its section runs git, and nothing in the source bounds it.    *)
(* Opening, looking at and removing the file may each fail with an OSError *)
(* (a permission, a sharing violation), which the source passes over.      *)
(***************************************************************************)
EXTENDS Integers, FiniteSets

CONSTANTS Proc,
          Stale,       \* STALE_AFTER_S
          Timeout,     \* LOCK_TIMEOUT_S
          MaxDeaths,   \* bound on deaths
          NoFile       \* there is no lock file

(* The two constants of the source are related as its comments require. *)
ASSUME FileLockAssumption ==
  /\ Stale \in Nat /\ Timeout \in Nat /\ MaxDeaths \in Nat
  /\ 0 < Stale /\ Stale < Timeout
  /\ NoFile \notin [owner : Proc, age : 0..Timeout, kept : BOOLEAN]

VARIABLES
  file,     \* the lock file: how long ago it was made and (history) by
            \* whom, and whether a waiter failed to reclaim it
  pc,       \* "idle", "trying", "judged" (found it stale), "in", "dead"
  clock,    \* clock[p]: ticks since p began to wait, or entered; else 0
  polled,   \* the waiters that have polled in this tick
  deaths,
  upset     \* history: "left", a file has outlived its maker's section;
            \* "slow", somebody's section has taken Stale ticks

vars == <<file, pc, clock, polled, deaths, upset>>

In == {p \in Proc : pc[p] = "in"}

Init ==
  /\ file = NoFile
  /\ pc = [p \in Proc |-> "idle"]
  /\ clock = [p \in Proc |-> 0]
  /\ polled = {}
  /\ deaths = 0
  /\ upset = {}

Goes(p, where) ==
  /\ pc' = [pc EXCEPT ![p] = where]
  /\ clock' = [clock EXCEPT ![p] = 0]
  /\ polled' = polled \ {p}

Begins(p) ==
  /\ pc[p] = "idle"
  /\ Goes(p, "trying")
  /\ UNCHANGED <<file, deaths, upset>>

(* os.open(O_CREAT | O_EXCL) *)
Acquires(p) ==
  /\ pc[p] = "trying"
  /\ file = NoFile
  /\ file' = [owner |-> p, age |-> 0, kept |-> FALSE]
  /\ Goes(p, "in")
  /\ UNCHANGED <<deaths, upset>>

\* Mutants: waiters give up before a residue is stale; the age is not looked at.
TooOldLate == file.age >= Timeout
TooOldAtOnce == file.age >= 0

TooOld == file.age >= Stale

(* stat says the file is a residue; the unlink comes later. *)
Judges(p) ==
  /\ pc[p] = "trying"
  /\ file # NoFile /\ TooOld
  /\ pc' = [pc EXCEPT ![p] = "judged"]
  /\ UNCHANGED <<file, clock, polled, deaths, upset>>

(* The end of a turn of the loop: give up at the deadline, or sleep. *)
TurnEnds(p) ==
  /\ \/ /\ clock[p] >= Timeout
        /\ Goes(p, "idle")
     \/ /\ clock[p] < Timeout
        /\ pc' = [pc EXCEPT ![p] = "trying"]
        /\ polled' = polled \cup {p}
        /\ UNCHANGED clock
  /\ UNCHANGED <<deaths, upset>>

(* Mutant: the residue stays where it is. *)
ReclaimsNothing(p) ==
  /\ pc[p] = "judged"
  /\ UNCHANGED file
  /\ TurnEnds(p)

(* os.unlink removes whatever file has the name by now. *)
Reclaims(p) ==
  /\ pc[p] = "judged"
  /\ file' = NoFile
  /\ TurnEnds(p)

Waits(p) ==
  /\ pc[p] = "trying"
  /\ file # NoFile /\ ~TooOld
  /\ UNCHANGED file
  /\ TurnEnds(p)

(* open, stat or unlink fails: the turn ends and the file stays. *)
TurnFails(p) ==
  /\ pc[p] \in {"trying", "judged"}
  /\ file' = IF file = NoFile THEN NoFile ELSE [file EXCEPT !.kept = @ \/ TooOld]
  /\ TurnEnds(p)

(* release unlinks by name too, without a look at whose file it is. *)
Releases(p) ==
  /\ pc[p] = "in"
  /\ file' = NoFile
  /\ Goes(p, "idle")
  /\ UNCHANGED <<deaths, upset>>

(* The unlink of release fails, and the section is over all the same. *)
ReleaseFails(p) ==
  /\ pc[p] = "in"
  /\ Goes(p, "idle")
  /\ upset' = upset \cup {"left"}
  /\ UNCHANGED <<file, deaths>>

Dies(p) ==
  /\ deaths < MaxDeaths
  /\ pc[p] \notin {"idle", "dead"}
  /\ Goes(p, "dead")
  /\ deaths' = deaths + 1
  /\ upset' = IF pc[p] = "in" THEN upset \cup {"left"} ELSE upset
  /\ UNCHANGED file

(* The bound on ages and clocks: nothing tells those past Timeout apart. *)
Capped(n) == IF n < Timeout THEN n + 1 ELSE n

Tick ==
  /\ \A p \in Proc : /\ pc[p] # "judged"
                     /\ pc[p] = "trying" => p \in polled
  /\ file' = IF file = NoFile THEN file ELSE [file EXCEPT !.age = Capped(@)]
  /\ clock' = [p \in Proc |-> IF pc[p] \in {"trying", "in"} THEN Capped(clock[p]) ELSE clock[p]]
  /\ polled' = {}
  /\ upset' = IF \E p \in In : clock'[p] >= Stale THEN upset \cup {"slow"} ELSE upset
  /\ UNCHANGED <<pc, deaths>>

Step(p) ==
  \/ Acquires(p) \/ Judges(p) \/ Reclaims(p) \/ Waits(p) \/ TurnFails(p)
  \/ Releases(p) \/ ReleaseFails(p)

Next == Tick \/ \E p \in Proc : Begins(p) \/ Step(p) \/ Dies(p)

Spec == Init /\ [][Next]_vars

(* A process in acquire or in its section goes on, time passes, the topic *)
(* stays in use, and stat and unlink do not fail for ever.                *)
FairSpec ==
  /\ Spec
  /\ WF_vars(Tick)
  /\ \A p \in Proc : /\ WF_vars(Step(p)) /\ WF_vars(Begins(p))
                     /\ SF_vars(Judges(p)) /\ SF_vars(Reclaims(p))

-----------------------------------------------------------------------------
TypeOK ==
  /\ file \in [owner : Proc, age : 0..Timeout, kept : BOOLEAN] \cup {NoFile}
  /\ pc \in [Proc -> {"idle", "trying", "judged", "in", "dead"}]
  /\ clock \in [Proc -> 0..Timeout]
  /\ polled \subseteq Proc
  /\ deaths \in 0..MaxDeaths
  /\ upset \subseteq {"left", "slow"}

AtMostOneIn == \A p, q \in In : p = q

(***************************************************************************)
(* filelock.py:57: an exclusive lock, as long as no section lasts as long  *)
(* as a residue (filelock.py:46-49).  It is not, once a file is left       *)
(* behind: two waiters that judged it unlink one after the other, and the  *)
(* second removes the file of the first.                                   *)
(***************************************************************************)
Exclusive == "slow" \notin upset => AtMostOneIn

(***************************************************************************)
(* The lock is exclusive as long as no section has lasted Stale ticks and  *)
(* no lock file has been left behind, by a death in the section or by a    *)
(* release that could not remove it.  Waiters may die, and fail to open,   *)
(* as they like: until then no reclaim touches a holder's file although it *)
(* does not look at the owner.                                             *)
(***************************************************************************)
ExclusiveUnlessUpset == upset = {} => AtMostOneIn

(***************************************************************************)
(* A LockTimeout means turnover: the file the waiter gave up on was not    *)
(* there when it began to wait, so no residue makes waiters give up        *)
(* (LOCK_TIMEOUT_S includes the reclaim window), unless an attempt to      *)
(* reclaim this very file has failed.                                      *)
(***************************************************************************)
TimeoutMeansTurnover ==
  [][\A p \in Proc : pc[p] \in {"trying", "judged"} /\ pc'[p] = "idle" =>
       file = NoFile \/ file.kept \/ file.age < clock[p]]_vars

(***************************************************************************)
(* A residue does not stop the topic: it is reclaimed in the end, although *)
(* attempts may fail.                                                      *)
(***************************************************************************)
Residue == file # NoFile /\ pc[file.owner] # "in"

ResidueIsReclaimed == Residue ~> ~Residue
=============================================================================
