--------------------------- MODULE Handoff_proofs ---------------------------
(***************************************************************************)
(* Proofs about Handoff: nothing is handed over twice, nothing is sent for *)
(* an invocation that is over, and the receipt is a one-shot.  Then about  *)
(* Followup: the coordinator is told once, and of a merged answer.  Last,  *)
(* about the transcript: what is collected answers the request.            *)
(***************************************************************************)
EXTENDS Followup, TLAPS

(* Where socket-collect is with a reply in hand. *)
HasRead == {"read", "looked", "placing"}

Held == {"resolving", "sending"} \cup HasRead \cup Outcomes

PcState == {"idle", "collect"} \cup Held

(* The types the argument needs. *)
Typed ==
  /\ receipt \in [work : Record \cup {None}, head : Record \cup {None}]
  /\ pc \in [Proc -> PcState]
  /\ job \in [Proc -> Reading]
  /\ handed \in Nat

(* Who is in the middle of a command has the lock. *)
Locked == \A p \in Proc : pc[p] \in Held => lock = p

(* What the holder of the lock knows of the receipt and the journal. *)
Knows(p) ==
  /\ pc[p] \in Held => ~Dirty(receipt) /\ receipt.work # None
  /\ pc[p] = "resolving" => receipt.work.state = "prepared" /\ journal \notin Terminal
  /\ pc[p] = "sending" => receipt.work.state = "sending" /\ journal \notin Terminal /\ handed = 0
  /\ pc[p] \in Outcomes => receipt.work.state = "sending"
  /\ pc[p] \in HasRead => receipt.work.state # "prepared" /\ journal \notin Terminal

HolderKnows == \A p \in Proc : Knows(p)

(* A receipt that waits for repair is at most one stage ahead of HEAD. *)
Ahead ==
  \/ StageOf(receipt.work) = StageOf(receipt.head)
  \/ StageOf(receipt.head) = "none" /\ StageOf(receipt.work) = "prepared"
  \/ StageOf(receipt.head) = "prepared" /\ StageOf(receipt.work) = "claimed"
  \/ StageOf(receipt.head) = "claimed" /\ StageOf(receipt.work) = "settled"

HInv == Typed /\ Locked /\ HolderKnows /\ Ahead /\ RetryIsSafe

-----------------------------------------------------------------------------
(* Where Leave and Enter take a process, and what they leave alone. *)
LEMMA Leaving ==
  ASSUME Typed, Locked, NEW p \in Proc, NEW l \in {"idle", "collect"}, Leave(p, l)
  PROVE  /\ pc' \in [Proc -> PcState] /\ job' \in [Proc -> Reading]
         /\ Locked'
         /\ \A q \in Proc : pc'[q] \in Held => q # p /\ pc'[q] = pc[q]
<1>1. pc' \in [Proc -> PcState] /\ job' \in [Proc -> Reading]
  BY DEF Typed, Leave, PcState, Reading, NoReading
<1>2. \A q \in Proc : pc'[q] \in Held => q # p /\ pc'[q] = pc[q]
  BY DEF Typed, Leave, Held, HasRead, Outcomes
<1>3. Locked'
  BY <1>2 DEF Locked, Leave
<1> QED
  BY <1>1, <1>2, <1>3

(* With the lock held by p, nobody else is in the middle of a command. *)
LEMMA Alone ==
  ASSUME Locked, NEW p \in Proc, pc[p] \in Held
  PROVE  lock = p /\ \A q \in Proc : pc[q] \in Held => q = p
  BY DEF Locked

(* With the lock free, nobody is. *)
LEMMA Nobody ==
  ASSUME HandoffAssumption, Locked, lock = None
  PROVE  \A q \in Proc : pc[q] \notin Held
  BY DEF Locked, HandoffAssumption

(* A receipt in hand, with another state or another reading noted, is one still. *)
LEMMA Edited ==
  ASSUME HandoffAssumption, Typed, receipt.work # None
  PROVE  /\ receipt.work \in Record
         /\ \A s \in RecordState :
              /\ [receipt.work EXCEPT !.state = s] \in Record
              /\ [receipt.work EXCEPT !.state = s] # None
              /\ [receipt.work EXCEPT !.state = s].state = s
         /\ \A n \in Nat :
              /\ [receipt.work EXCEPT !.seen = n] \in Record
              /\ [receipt.work EXCEPT !.seen = n] # None
              /\ [receipt.work EXCEPT !.seen = n].state = receipt.work.state
  BY DEF Typed, Record, HandoffAssumption

(* The invariant holds before any command has run. *)
LEMMA Initially ==
  ASSUME HandoffAssumption, Init
  PROVE  HInv
<1>1. Typed
  BY DEF Init, Typed, Committed, PcState, Reading, NoReading
<1>2. Locked /\ HolderKnows
  BY DEF Init, Locked, HolderKnows, Knows, Held, HasRead, Outcomes
<1>3. Ahead /\ RetryIsSafe
  BY DEF Init, Ahead, RetryIsSafe, Committed, StageOf, Unclaimed
<1> QED
  BY <1>1, <1>2, <1>3 DEF HInv

-----------------------------------------------------------------------------
(* A step that leaves the receipt alone and puts nobody in a new place. *)
LEMMA Quiet ==
  ASSUME HInv, UNCHANGED <<receipt, handed>>, pc' \in [Proc -> PcState],
         job' \in [Proc -> Reading], Locked',
         \A q \in Proc : pc'[q] \in Held => pc'[q] = pc[q] /\ journal' = journal
  PROVE  HInv'
<1>1. Typed'
  BY DEF HInv, Typed
<1>2. HolderKnows'
  <2> SUFFICES ASSUME NEW q \in Proc PROVE Knows(q)'
    BY DEF HolderKnows
  <2>1. Knows(q) /\ (pc'[q] \in Held => pc'[q] = pc[q] /\ journal' = journal)
    BY DEF HInv, HolderKnows
  <2> QED
    BY <2>1 DEF Knows, Held, HasRead, Outcomes, Dirty, Terminal
<1>3. Ahead' /\ RetryIsSafe'
  BY DEF HInv, Ahead, RetryIsSafe, StageOf, Unclaimed
<1> QED
  BY <1>1, <1>2, <1>3 DEF HInv

(* A command that leaves, or dies, without a write. *)
LEMMA QuietLeaving ==
  ASSUME HInv, UNCHANGED <<receipt, handed, journal>>,
         NEW p \in Proc, NEW l \in {"idle", "collect"}, Leave(p, l)
  PROVE  HInv'
<1>1. Typed /\ Locked
  BY DEF HInv
<1> QED
  BY <1>1, Leaving, Quiet

(* Everybody but p keeps its place, and p goes to l with the lock. *)
LEMMA Going ==
  ASSUME Typed, Locked, NEW p \in Proc, NEW l \in PcState,
         pc' = [pc EXCEPT ![p] = l], UNCHANGED <<lock, job>>, lock = p
  PROVE  /\ pc' \in [Proc -> PcState] /\ job' \in [Proc -> Reading]
         /\ Locked'
         /\ \A q \in Proc : pc'[q] \in Held => q = p
         /\ pc'[p] = l
  BY DEF Typed, Locked

(* Whoever takes the lock is then alone in the middle of a command. *)
LEMMA Entering ==
  ASSUME HandoffAssumption, Typed, Locked, NEW p \in Proc, NEW l \in Held, Enter(p, l)
  PROVE  /\ pc' \in [Proc -> PcState]
         /\ Locked'
         /\ \A q \in Proc : pc'[q] \in Held => q = p
         /\ pc'[p] = l
<1>1. \A q \in Proc : pc[q] \notin Held
  BY Nobody DEF Enter
<1> QED
  BY <1>1 DEF Typed, Locked, Enter, PcState

-----------------------------------------------------------------------------
(* prepare keeps the invariant, and so does a death halfway through its write. *)
LEMMA PreparesStep ==
  ASSUME HandoffAssumption, HInv, NEW p \in Proc, NEW transport \in Transport,
         Prepares(p, transport) \/ DiesPreparing(p, transport)
  PROVE  HInv'
<1> DEFINE r == [state |-> "prepared", transport |-> transport, seen |-> 0]
<1>1. /\ receipt = Committed(None) /\ UNCHANGED <<lock, pc, job, handed>> /\ lock = None
      /\ receipt' = Committed(r) \/ receipt' = [receipt EXCEPT !.work = r]
  BY DEF Prepares, DiesPreparing
<1>2. r \in Record /\ r # None /\ StageOf(r) = "prepared" /\ Unclaimed(r)
  BY DEF Record, RecordState, HandoffAssumption, StageOf, Unclaimed
<1>3. /\ receipt.work = None /\ receipt.head = None
      /\ receipt'.work = r /\ receipt'.head \in {r, None}
  BY <1>1 DEF Committed
<1>4. Typed'
  BY <1>1, <1>2 DEF HInv, Typed, Committed
<1>5. Locked' /\ HolderKnows'
  <2>1. \A q \in Proc : pc'[q] \notin Held
    BY <1>1, Nobody DEF HInv
  <2> QED
    BY <2>1 DEF Locked, HolderKnows, Knows, Held, HasRead, Outcomes
<1>6. Ahead' /\ RetryIsSafe'
  <2>1. handed' = 0
    BY <1>1, <1>3 DEF HInv, RetryIsSafe, Unclaimed
  <2>2. StageOf(receipt'.work) = "prepared" /\ StageOf(receipt'.head) \in {"prepared", "none"}
    BY <1>2, <1>3 DEF StageOf
  <2> QED
    BY <2>1, <2>2 DEF Ahead, RetryIsSafe
<1> QED
  BY <1>4, <1>5, <1>6 DEF HInv

(* deliver's checks establish what it knows while it resolves the target. *)
LEMMA DeliverChecksStep ==
  ASSUME HandoffAssumption, HInv, NEW p \in Proc, DeliverChecks(p)
  PROVE  HInv'
<1>1. /\ pc' \in [Proc -> PcState] /\ Locked'
      /\ \A q \in Proc : pc'[q] \in Held => q = p
      /\ pc'[p] = "resolving"
  BY Entering DEF HInv, DeliverChecks, Held, HasRead
<1>2. Typed'
  BY <1>1 DEF HInv, Typed, DeliverChecks
<1>3. HolderKnows'
  BY <1>1 DEF HolderKnows, Knows, DeliverChecks, Blocked, Held, HasRead, Outcomes, Dirty
<1>4. Ahead' /\ RetryIsSafe'
  BY DEF HInv, DeliverChecks, Ahead, RetryIsSafe, StageOf, Unclaimed
<1> QED
  BY <1>1, <1>2, <1>3, <1>4 DEF HInv

(* The durable "sending" keeps the invariant: nothing has left before it. *)
LEMMA ClaimsStep ==
  ASSUME HandoffAssumption, HInv, NEW p \in Proc, Claims(p)
  PROVE  HInv'
<1> DEFINE r == [receipt.work EXCEPT !.state = "sending"]
<1>1. pc[p] \in Held /\ lock = p /\ receipt.work # None /\ journal \notin Terminal
  BY DEF HInv, Claims, Locked, HolderKnows, Knows, Held, HasRead
<1>2. r \in Record /\ r # None /\ r.state = "sending"
  BY <1>1, Edited DEF HInv, RecordState
<1>3. /\ pc' \in [Proc -> PcState] /\ job' \in [Proc -> Reading] /\ Locked'
      /\ \A q \in Proc : pc'[q] \in Held => q = p
      /\ pc'[p] = "sending"
  BY <1>1, Going DEF HInv, Claims, PcState, Held, HasRead
<1>4. receipt' = Committed(r) /\ receipt'.work = r /\ receipt'.head = r
  BY DEF Claims, Committed
<1>5. Typed'
  BY <1>2, <1>3, <1>4 DEF HInv, Typed, Claims, Committed
<1>6. handed = 0 /\ handed' = 0
  BY DEF HInv, HolderKnows, Knows, Claims, RetryIsSafe, Unclaimed
<1>7. HolderKnows'
  BY <1>1, <1>2, <1>3, <1>4, <1>6 DEF HolderKnows, Knows, Claims, Held, HasRead, Outcomes, Dirty
<1>8. Ahead' /\ RetryIsSafe'
  BY <1>4, <1>6 DEF Ahead, RetryIsSafe
<1> QED
  BY <1>3, <1>5, <1>7, <1>8 DEF HInv

(* What leaves does so under the claim, for the first time. *)
LEMMA SendsStep ==
  ASSUME HandoffAssumption, HInv, NEW p \in Proc, Sends(p) \/ FailsToSend(p)
  PROVE  HInv'
<1>1. PICK l \in Outcomes : pc' = [pc EXCEPT ![p] = l]
  BY DEF Sends, FailsToSend, Accepted, Outcomes
<1>2. /\ pc[p] = "sending" /\ UNCHANGED <<receipt, lock, job>>
      /\ handed' \in {handed, handed + 1}
  BY DEF Sends, FailsToSend
<1>3. /\ lock = p /\ receipt.work.state = "sending" /\ receipt.work # None
      /\ ~Dirty(receipt) /\ handed = 0
  BY <1>2 DEF HInv, Locked, HolderKnows, Knows, Held, HasRead
<1>4. /\ pc' \in [Proc -> PcState] /\ job' \in [Proc -> Reading] /\ Locked'
      /\ \A q \in Proc : pc'[q] \in Held => q = p
      /\ pc'[p] = l
  BY <1>1, <1>2, <1>3, Going DEF HInv, PcState, Held, HasRead
<1>5. Typed'
  BY <1>2, <1>3, <1>4 DEF HInv, Typed
<1>6. HolderKnows'
  BY <1>2, <1>3, <1>4 DEF HolderKnows, Knows, Held, HasRead, Outcomes, Dirty
<1>7. Ahead' /\ RetryIsSafe'
  BY <1>2, <1>3 DEF HInv, Ahead, RetryIsSafe, StageOf, Unclaimed, Dirty
<1> QED
  BY <1>4, <1>5, <1>6, <1>7 DEF HInv

(* After the holder of the lock has left, nobody is in the middle of a command. *)
LEMMA Gone ==
  ASSUME HInv, NEW p \in Proc, pc[p] \in Held, NEW l \in {"idle", "collect"}, Leave(p, l)
  PROVE  /\ pc' \in [Proc -> PcState] /\ job' \in [Proc -> Reading]
         /\ Locked' /\ HolderKnows'
<1>1. /\ pc' \in [Proc -> PcState] /\ job' \in [Proc -> Reading] /\ Locked'
      /\ \A q \in Proc : pc'[q] \in Held => q # p /\ pc'[q] = pc[q]
  BY Leaving DEF HInv
<1>2. \A q \in Proc : pc[q] \in Held => q = p
  BY Alone DEF HInv
<1>3. \A q \in Proc : pc'[q] \notin Held
  BY <1>1, <1>2
<1> QED
  BY <1>1, <1>3 DEF HolderKnows, Knows, Held, HasRead, Outcomes

(* Recording an outcome settles the claim and gives the lock back. *)
LEMMA RecordsOutcomeStep ==
  ASSUME HandoffAssumption, HInv, NEW p \in Proc, RecordsOutcome(p)
  PROVE  HInv'
<1> DEFINE r == [receipt.work EXCEPT !.state = pc[p]]
<1>1. pc[p] \in Outcomes /\ pc[p] \in Held /\ pc[p] \in RecordState
  BY DEF RecordsOutcome, Held, HasRead, Outcomes, RecordState
<1>2. receipt.work # None /\ receipt.work.state = "sending"
  BY <1>1 DEF HInv, HolderKnows, Knows
<1>3. r \in Record /\ r # None /\ r.state = pc[p]
  BY <1>1, <1>2, Edited DEF HInv
<1>4. /\ pc' \in [Proc -> PcState] /\ job' \in [Proc -> Reading]
      /\ Locked' /\ HolderKnows'
  BY <1>1, Gone DEF RecordsOutcome
<1>5. receipt' = Committed(r) /\ receipt'.work = r /\ receipt'.head = r /\ handed' = handed
  BY DEF RecordsOutcome, Committed
<1>6. Typed'
  BY <1>3, <1>4, <1>5 DEF HInv, Typed, Committed
<1>7. Ahead' /\ RetryIsSafe'
  BY <1>1, <1>3, <1>5 DEF HInv, Ahead, RetryIsSafe, Unclaimed, Outcomes
<1> QED
  BY <1>4, <1>6, <1>7 DEF HInv

(* socket-collect reads only what was handed over. *)
LEMMA SocketReadsStep ==
  ASSUME HandoffAssumption, HInv, NEW p \in Proc, SocketReads(p)
  PROVE  HInv'
<1>1. /\ pc' \in [Proc -> PcState] /\ Locked'
      /\ \A q \in Proc : pc'[q] \in Held => q = p
      /\ pc'[p] = "read"
  BY Entering DEF HInv, SocketReads, Held, HasRead
<1>2. job' \in [Proc -> Reading]
  <2>1. PICK n \in 1..Len(transcript) :
          job' = [job EXCEPT ![p] = [at |-> n, upto |-> Len(transcript)]]
    BY DEF SocketReads
  <2>2. Len(transcript) \in Nat
    OBVIOUS
  <2> QED
    BY <2>1 DEF HInv, Typed, Reading
<1>3. Typed'
  BY <1>1, <1>2 DEF HInv, Typed, SocketReads
<1>4. HolderKnows'
  BY <1>1 DEF HolderKnows, Knows, SocketReads, Collectable, Held, HasRead, Outcomes, Dirty
<1>5. Ahead' /\ RetryIsSafe'
  BY DEF HInv, SocketReads, Ahead, RetryIsSafe, StageOf, Unclaimed
<1> QED
  BY <1>1, <1>3, <1>4, <1>5 DEF HInv

(* Noting a reply in the receipt leaves its stage alone. *)
LEMMA SocketNotesStep ==
  ASSUME HandoffAssumption, HInv, NEW p \in Proc, SocketNotes(p)
  PROVE  HInv'
<1> DEFINE r == [receipt.work EXCEPT !.seen = job[p].at]
<1>1. pc[p] = "read" /\ pc[p] \in Held
  BY DEF SocketNotes, Held, HasRead
<1>2. receipt.work # None /\ receipt.work.state # "prepared"
  BY <1>1 DEF HInv, HolderKnows, Knows, HasRead
<1>3. job[p].at \in Nat
  BY DEF HInv, Typed, Reading
<1>4. r \in Record /\ r # None /\ r.state = receipt.work.state
  BY <1>2, <1>3, Edited DEF HInv
<1>5. /\ pc' \in [Proc -> PcState] /\ job' \in [Proc -> Reading]
      /\ Locked' /\ HolderKnows'
  BY <1>1, Gone DEF SocketNotes
<1>6. receipt' = Committed(r) /\ receipt'.work = r /\ receipt'.head = r /\ handed' = handed
  BY DEF SocketNotes, Committed
<1>7. Typed'
  BY <1>4, <1>5, <1>6 DEF HInv, Typed, Committed
<1>8. Ahead' /\ RetryIsSafe'
  BY <1>2, <1>4, <1>6 DEF HInv, Ahead, RetryIsSafe, Unclaimed
<1> QED
  BY <1>5, <1>7, <1>8 DEF HInv

(* Looking for a file in scratch changes nothing but where p is. *)
LEMMA SocketLooksStep ==
  ASSUME HInv, NEW p \in Proc, SocketFindsNone(p) \/ SocketSeesNone(p)
  PROVE  HInv'
<1>1. PICK l \in {"looked", "placing"} : pc' = [pc EXCEPT ![p] = l]
  BY DEF SocketFindsNone, SocketSeesNone
<1>2. pc[p] \in {"read", "looked"} /\ UNCHANGED <<receipt, journal, lock, job, handed>>
  BY DEF SocketFindsNone, SocketSeesNone, SeenTwice
<1>3. /\ lock = p /\ receipt.work # None /\ ~Dirty(receipt)
      /\ receipt.work.state # "prepared" /\ journal \notin Terminal
  BY <1>2 DEF HInv, Locked, HolderKnows, Knows, Held, HasRead
<1>4. /\ pc' \in [Proc -> PcState] /\ job' \in [Proc -> Reading] /\ Locked'
      /\ \A q \in Proc : pc'[q] \in Held => q = p
      /\ pc'[p] = l
  BY <1>1, <1>2, <1>3, Going DEF HInv, PcState, Held, HasRead
<1>5. Typed'
  BY <1>2, <1>4 DEF HInv, Typed
<1>6. HolderKnows'
  BY <1>2, <1>3, <1>4 DEF HolderKnows, Knows, Held, HasRead, Outcomes, Dirty
<1>7. Ahead' /\ RetryIsSafe'
  BY <1>2 DEF HInv, Ahead, RetryIsSafe, StageOf, Unclaimed
<1> QED
  BY <1>4, <1>5, <1>6, <1>7 DEF HInv

(* collect and cancel meet a free lock: nobody relies on the journal then. *)
LEMMA JournalStep ==
  ASSUME HandoffAssumption, HInv, NEW p \in Proc, Collects(p) \/ Cancels(p)
  PROVE  HInv'
<1>1. lock = None /\ UNCHANGED <<receipt, handed, job, lock>>
  BY DEF Collects, Cancels
<1>2. \A q \in Proc : pc[q] \notin Held
  BY <1>1, Nobody DEF HInv
<1>3. pc' = pc \/ pc' = [pc EXCEPT ![p] = "idle"]
  BY DEF Collects, Cancels
<1>4. pc' \in [Proc -> PcState] /\ \A q \in Proc : pc'[q] \notin Held
  BY <1>2, <1>3 DEF HInv, Typed, PcState, Held, HasRead, Outcomes
<1>5. job' \in [Proc -> Reading] /\ Locked'
  BY <1>1, <1>4 DEF HInv, Typed, Locked
<1> QED
  BY <1>1, <1>4, <1>5, Quiet

(* A death between write and commit leaves the receipt one stage ahead of HEAD. *)
LEMMA DiesWritingStep ==
  ASSUME HandoffAssumption, HInv, NEW p \in Proc, DiesWriting(p)
  PROVE  HInv'
<1>1. /\ pc[p] \in {"resolving", "read"} \cup Outcomes /\ pc[p] \in Held
      /\ Leave(p, "idle") /\ handed' = handed
  BY DEF DiesWriting, Held, HasRead
<1>2. receipt.work # None /\ ~Dirty(receipt) /\ receipt.head = receipt.work
  BY <1>1 DEF HInv, HolderKnows, Knows, Dirty
<1>3. /\ pc' \in [Proc -> PcState] /\ job' \in [Proc -> Reading]
      /\ Locked' /\ HolderKnows'
  BY <1>1, Gone
<1>4. PICK r : /\ r \in Record /\ r # None /\ receipt' = [receipt EXCEPT !.work = r]
               /\ \/ pc[p] = "resolving" /\ r.state = "sending"
                  \/ pc[p] \in Outcomes /\ r.state = pc[p]
                  \/ pc[p] = "read" /\ r.state = receipt.work.state
  <2>1. CASE pc[p] = "resolving"
    <3> DEFINE r == [receipt.work EXCEPT !.state = "sending"]
    <3>1. r \in Record /\ r # None /\ r.state = "sending"
      BY <1>2, Edited DEF HInv, RecordState
    <3>2. receipt' = [receipt EXCEPT !.work = r]
      BY <2>1 DEF DiesWriting, Outcomes
    <3> QED
      BY <2>1, <3>1, <3>2
  <2>2. CASE pc[p] \in Outcomes
    <3> DEFINE r == [receipt.work EXCEPT !.state = pc[p]]
    <3>1. r \in Record /\ r # None /\ r.state = pc[p]
      BY <1>2, <2>2, Edited DEF HInv, RecordState, Outcomes
    <3>2. receipt' = [receipt EXCEPT !.work = r]
      BY <2>2 DEF DiesWriting, Outcomes
    <3> QED
      BY <2>2, <3>1, <3>2
  <2>3. CASE pc[p] = "read"
    <3> DEFINE r == [receipt.work EXCEPT !.seen = job[p].at]
    <3>1. r \in Record /\ r # None /\ r.state = receipt.work.state
      BY <1>2, Edited DEF HInv, Typed, Reading
    <3>2. receipt' = [receipt EXCEPT !.work = r]
      BY <2>3 DEF DiesWriting, Outcomes
    <3> QED
      BY <2>3, <3>1, <3>2
  <2> QED
    BY <1>1, <2>1, <2>2, <2>3
<1>5. /\ receipt \in [work : Record \cup {None}, head : Record \cup {None}]
      /\ receipt'.work = r /\ receipt'.head = receipt.work
  BY <1>2, <1>4 DEF HInv, Typed
<1>6. Typed'
  BY <1>3, <1>4, <1>5, <1>1 DEF HInv, Typed
<1>7. Knows(p)
  BY DEF HInv, HolderKnows
<1>8. Ahead'
  BY <1>2, <1>4, <1>5, <1>7 DEF Knows, Ahead, StageOf, Outcomes
<1>9. RetryIsSafe'
  BY <1>1, <1>2, <1>4, <1>5, <1>7 DEF HInv, Knows, RetryIsSafe, Unclaimed, Outcomes
<1> QED
  BY <1>3, <1>6, <1>8, <1>9 DEF HInv

(* Either repair of a dirty receipt is a consistent past. *)
LEMMA RepairsStep ==
  ASSUME HandoffAssumption, HInv, Repairs
  PROVE  HInv'
<1>1. /\ Dirty(receipt) /\ UNCHANGED <<pc, job, lock, handed>>
      /\ receipt' = Committed(receipt.work) \/ receipt' = Committed(receipt.head)
  BY DEF Repairs
<1>2. \A q \in Proc : pc[q] \notin Held
  BY <1>1 DEF HInv, HolderKnows, Knows
<1>3. Locked' /\ HolderKnows'
  BY <1>1, <1>2 DEF HInv, Locked, HolderKnows, Knows, Held, HasRead, Outcomes
<1>4. receipt'.work = receipt'.head /\ receipt'.work \in {receipt.work, receipt.head}
  BY <1>1 DEF Committed
<1>5. Typed'
  BY <1>1 DEF HInv, Typed, Committed
<1>6. Ahead' /\ RetryIsSafe'
  BY <1>1, <1>4 DEF HInv, Ahead, RetryIsSafe, Unclaimed
<1> QED
  BY <1>3, <1>5, <1>6 DEF HInv

(* Every step keeps the invariant. *)
LEMMA HStep ==
  ASSUME HandoffAssumption, HInv, [Next]_vars
  PROVE  HInv'
<1>1. ASSUME NEW p \in Proc, Step(p)
      PROVE  HInv'
  <2>1. CASE \E transport \in Transport : Prepares(p, transport) \/ DiesPreparing(p, transport)
    BY <2>1, PreparesStep
  <2>2. CASE DeliverChecks(p)
    BY <2>2, DeliverChecksStep
  <2>3. CASE DeliverStopsShort(p)
    BY <2>3, QuietLeaving DEF DeliverStopsShort
  <2>4. CASE Claims(p)
    BY <2>4, ClaimsStep
  <2>5. CASE Sends(p) \/ FailsToSend(p)
    BY <2>5, SendsStep
  <2>6. CASE RecordsOutcome(p)
    BY <2>6, RecordsOutcomeStep
  <2>7. CASE SocketReads(p)
    BY <2>7, SocketReadsStep
  <2>8. CASE SocketNotes(p)
    BY <2>8, SocketNotesStep
  <2>9. CASE SocketFindsNone(p) \/ SocketSeesNone(p)
    BY <2>9, SocketLooksStep
  <2>10. CASE SocketFindsSame(p) \/ SocketRaises(p) \/ SocketSkips(p) \/ SocketPlaces(p)
    BY <2>10, QuietLeaving DEF SocketFindsSame, SocketRaises, SocketSkips, SocketPlaces
  <2>11. CASE Collects(p) \/ Cancels(p)
    BY <2>11, JournalStep
  <2> QED
    BY <1>1, <2>1, <2>2, <2>3, <2>4, <2>5, <2>6, <2>7, <2>8, <2>9, <2>10, <2>11 DEF Step
<1>2. ASSUME NEW p \in Proc, Dies(p)
      PROVE  HInv'
  BY <1>2, QuietLeaving DEF Dies
<1>3. ASSUME NEW p \in Proc, DiesWriting(p)
      PROVE  HInv'
  BY <1>3, DiesWritingStep
<1>4. CASE Repairs
  BY <1>4, RepairsStep
<1>5. CASE \/ \E line \in Line : Writes(line)
           \/ \E c \in Answer \cup {Bad} : WritesScratch(c)
           \/ UNCHANGED vars
  <2>1. UNCHANGED <<receipt, handed, pc, job, lock, journal>>
    BY <1>5 DEF Writes, WritesScratch, vars
  <2> QED
    BY <2>1, Quiet DEF HInv, Typed, Locked
<1> QED
  BY <1>1, <1>2, <1>3, <1>4, <1>5 DEF Next

-----------------------------------------------------------------------------
(* The invariant holds, whatever the number of commands and the bounds. *)
THEOREM HandoffInvariant == Spec => []HInv
<1>1. Init => HInv
  BY HandoffAssumption, Initially
<1>2. HInv /\ [Next]_vars => HInv'
  BY HandoffAssumption, HStep
<1> QED
  BY <1>1, <1>2, PTL DEF Spec

(* Nothing is handed over twice, and deliver retries only what never left. *)
THEOREM HandedOverOnce == Spec => []RetryIsSafe
<1>1. HInv => RetryIsSafe
  BY DEF HInv
<1> QED
  BY <1>1, HandoffInvariant, PTL

(* Whoever sends has looked at the journal under the lock it still holds. *)
LEMMA SentBeforeOver ==
  ASSUME HInv, [Next]_vars, handed' # handed
  PROVE  journal \notin Terminal
<1>1. PICK p \in Proc : Sends(p)
  BY DEF Next, Step, vars, Prepares, DiesPreparing, DeliverChecks, DeliverStopsShort, Claims,
         FailsToSend, RecordsOutcome, SocketReads, SocketNotes, SocketRaises,
     SocketFindsSame, SocketFindsNone, SocketSkips, SocketSeesNone, SocketPlaces,
         Collects, Cancels, Dies, DiesWriting, Repairs, Writes, WritesScratch
<1> QED
  BY <1>1 DEF HInv, HolderKnows, Knows, Sends

(* Nothing leaves for an invocation that was cancelled or collected before. *)
THEOREM OverIsNotSent == Spec => NothingSentWhenOver
BY SentBeforeOver, HandoffInvariant, PTL DEF Spec, NothingSentWhenOver

(* Every step of the receipt is one of the promise's, or none at HEAD. *)
LEMMA StepIsPromised ==
  ASSUME HandoffAssumption, HInv, HInv', [Next]_vars
  PROVE  [Promise!Next]_<<StageOf(receipt.head), handed>>
<1> DEFINE Kept == UNCHANGED <<StageOf(receipt.head), handed>>
<1>0. UNCHANGED <<receipt, handed>> => Kept
  BY DEF StageOf
<1>1. ASSUME NEW p \in Proc, NEW transport \in Transport, Prepares(p, transport)
      PROVE  Promise!Prepare
  BY <1>1 DEF Prepares, Committed, StageOf, Promise!Prepare, HInv, Typed, HandoffAssumption,
       Record, RecordState
<1>2. ASSUME NEW p \in Proc, NEW transport \in Transport, DiesPreparing(p, transport)
      PROVE  Kept
  BY <1>2 DEF DiesPreparing, Committed, StageOf
<1>3. ASSUME NEW p \in Proc, Claims(p)
      PROVE  Promise!Claim
  <2>1. receipt.work # None /\ receipt.head = receipt.work /\ receipt.work.state = "prepared"
    BY <1>3 DEF HInv, HolderKnows, Knows, Claims, Held, HasRead, Dirty
  <2>2. /\ receipt'.head = [receipt.work EXCEPT !.state = "sending"]
        /\ handed' = handed
    BY <1>3 DEF Claims, Committed
  <2>3. receipt'.head # None /\ receipt'.head.state = "sending"
    BY <2>1, <2>2, Edited DEF HInv, RecordState
  <2> QED
    BY <2>1, <2>2, <2>3 DEF StageOf, Promise!Claim
<1>4. ASSUME NEW p \in Proc, Sends(p)
      PROVE  Promise!Send
  BY <1>4 DEF HInv, HolderKnows, Knows, Sends, Held, HasRead, Dirty, StageOf, Promise!Send
<1>5. ASSUME NEW p \in Proc, RecordsOutcome(p)
      PROVE  Promise!Settle
  <2>1. /\ receipt.work # None /\ receipt.head = receipt.work /\ receipt.work.state = "sending"
        /\ pc[p] \in Outcomes
    BY <1>5 DEF HInv, HolderKnows, Knows, RecordsOutcome, Held, HasRead, Dirty
  <2>2. /\ receipt'.head = [receipt.work EXCEPT !.state = pc[p]]
        /\ handed' = handed
    BY <1>5 DEF RecordsOutcome, Committed
  <2>3. receipt'.head # None /\ receipt'.head.state = pc[p]
    BY <2>1, <2>2, Edited DEF HInv, RecordState, Outcomes
  <2> QED
    BY <2>1, <2>2, <2>3 DEF StageOf, Promise!Settle, Outcomes
<1>6. ASSUME NEW p \in Proc, SocketNotes(p)
      PROVE  Kept
  <2>1. receipt.work # None /\ receipt.head = receipt.work
    BY <1>6 DEF HInv, HolderKnows, Knows, SocketNotes, Held, HasRead, Dirty
  <2>2. /\ receipt'.head = [receipt.work EXCEPT !.seen = job[p].at]
        /\ handed' = handed
    BY <1>6 DEF SocketNotes, Committed
  <2>3. job[p].at \in Nat
    BY <1>6 DEF HInv, Typed, Reading
  <2>4. receipt'.head # None /\ receipt'.head.state = receipt.head.state
    BY <2>1, <2>2, <2>3, Edited DEF HInv
  <2> QED
    BY <2>1, <2>2, <2>4 DEF StageOf
<1>7. ASSUME NEW p \in Proc, DiesWriting(p)
      PROVE  Kept
  <2>1. receipt'.head = receipt.head /\ handed' = handed
    BY <1>7 DEF DiesWriting, HInv, Typed
  <2> QED
    BY <2>1 DEF StageOf
<1>8. CASE Repairs
  <2>1. receipt'.head \in {receipt.work, receipt.head} /\ handed' = handed
    BY <1>8 DEF Repairs, Committed
  <2>2. StageOf(receipt'.head) \in {StageOf(receipt.work), StageOf(receipt.head)}
    BY <2>1
  <2> QED
    BY <2>1, <2>2 DEF HInv, Ahead, Promise!Next, Promise!Prepare, Promise!Claim, Promise!Settle
<1>9. ASSUME NEW p \in Proc,
             \/ DeliverChecks(p) \/ DeliverStopsShort(p) \/ FailsToSend(p)
             \/ SocketReads(p) \/ SocketRaises(p) \/ SocketFindsSame(p) \/ SocketFindsNone(p)
             \/ SocketSkips(p) \/ SocketSeesNone(p) \/ SocketPlaces(p)
             \/ Collects(p) \/ Cancels(p) \/ Dies(p)
      PROVE  Kept
  BY <1>0, <1>9 DEF DeliverChecks, DeliverStopsShort, FailsToSend, SocketReads, SocketRaises,
       SocketFindsSame, SocketFindsNone, SocketSkips, SocketSeesNone, SocketPlaces,
       Collects, Cancels, Dies
<1>10. CASE \/ \E line \in Line : Writes(line)
            \/ \E c \in Answer \cup {Bad} : WritesScratch(c)
            \/ UNCHANGED vars
  BY <1>0, <1>10 DEF Writes, WritesScratch, vars
<1>11. ASSUME NEW p \in Proc, Step(p)
       PROVE  Promise!Next \/ Kept
  BY <1>1, <1>2, <1>3, <1>4, <1>5, <1>6, <1>9, <1>11 DEF Step, Promise!Next
<1> QED
  BY <1>7, <1>8, <1>9, <1>10, <1>11 DEF Next, Promise!Next

(* The receipt at HEAD is a one-shot: claimed first, and one message at most. *)
THEOREM ReceiptIsOneShot == Spec => ImplementsOneShot
<1>1. Init => Promise!Init
  BY DEF Init, Promise!Init, Committed, StageOf
<1>2. HInv /\ HInv' /\ [Next]_vars => [Promise!Next]_<<StageOf(receipt.head), handed>>
  BY HandoffAssumption, StepIsPromised
<1> QED
  BY <1>1, <1>2, HandoffInvariant, PTL DEF Spec, ImplementsOneShot, Promise!Spec

-----------------------------------------------------------------------------
(***************************************************************************)
(* The followup.  A death leaves its record at most one stage ahead of     *)
(* HEAD, and its message is with one agent or told, never both.            *)
(***************************************************************************)
NoteTyped ==
  /\ note \in [work : NoteState \cup {None}, head : NoteState \cup {None}]
  /\ agent \in [Proc -> {"idle", "claimed", "told"}]
  /\ told \in {0, 1}

NoteAhead ==
  \/ note.work = note.head
  \/ note.head = None /\ note.work = "prepared"
  \/ note.head = "prepared" /\ note.work = "sending"
  \/ note.head = "sending" /\ note.work = "submitted"

Unsent == {None, "prepared"}

OneAgent ==
  /\ note.head \in Unsent => told = 0 /\ \A p \in Proc : agent[p] = "idle"
  /\ \A p, q \in Proc : agent[p] # "idle" /\ agent[q] # "idle" => p = q
  /\ \A p \in Proc : /\ agent[p] = "claimed" => told = 0 /\ note = Committed("sending")
                     /\ agent[p] = "told" => told = 1
  /\ note.work = "submitted" => told = 1

NInv ==
  /\ NoteTyped /\ NoteAhead /\ OneAgent
  /\ note # Committed(None) => journal = "merged"

LEMMA StaysMerged ==
  ASSUME [Next]_vars, journal = "merged"
  PROVE  journal' = "merged"
<1>1. CASE \E p \in Proc : Collects(p) \/ Cancels(p)
  BY <1>1 DEF Collects, Cancels, Collected, Terminal
<1>2. CASE ~\E p \in Proc : Collects(p) \/ Cancels(p)
  BY <1>2 DEF Next, vars, Step, Prepares, DiesPreparing, DeliverChecks, DeliverStopsShort, Claims,
     Sends, FailsToSend, RecordsOutcome, SocketReads, SocketNotes, SocketRaises,
     SocketFindsSame, SocketFindsNone, SocketSkips, SocketSeesNone, SocketPlaces,
     Dies, DiesWriting, Repairs, Writes, WritesScratch
<1>3. QED
  BY <1>1, <1>2

(* A step of the followup keeps its invariant. *)
LEMMA NoteKeeps ==
  ASSUME NInv, [NextFollowup]_<<vars, outbox>>
  PROVE  NInv'
<1> USE DEF Committed, Dirty
<1>1. /\ note \in [work : NoteState \cup {None}, head : NoteState \cup {None}]
      /\ agent \in [Proc -> {"idle", "claimed", "told"}] /\ told \in {0, 1}
  BY DEF NInv, NoteTyped
<1>2. CASE (Next /\ UNCHANGED outbox) \/ UNCHANGED <<vars, outbox>>
  <2>1. UNCHANGED outbox /\ [Next]_vars
    BY <1>2 DEF vars, outbox
  <2>2. journal = "merged" => journal' = "merged"
    BY <2>1, StaysMerged
  <2>3. QED
    BY <2>1, <2>2 DEF NInv, NoteTyped, NoteAhead, OneAgent, outbox
<1>3. ASSUME NEW p \in Proc, PreparesNote(p)
      PROVE  NInv'
  <2>1. /\ note.work = None /\ note.head = None /\ journal = "merged" /\ journal' = "merged"
        /\ note' = [work |-> "prepared", head |-> "prepared"]
        /\ UNCHANGED <<agent, told>>
    BY <1>3 DEF PreparesNote, Ready, vars
  <2>2. QED
    BY <1>1, <2>1 DEF NInv, NoteTyped, NoteAhead, OneAgent, Unsent, NoteState
<1>4. ASSUME NEW p \in Proc, ClaimsNote(p)
      PROVE  NInv'
  <2>1. /\ note.work = "prepared" /\ note.head = "prepared"
        /\ journal = "merged" /\ journal' = "merged"
        /\ note' = [work |-> "sending", head |-> "sending"]
        /\ agent' = [agent EXCEPT ![p] = "claimed"] /\ told' = told
    BY <1>4 DEF ClaimsNote, Ready, vars
  <2>2. told = 0 /\ \A q \in Proc : agent[q] = "idle"
    BY <2>1 DEF NInv, OneAgent, Unsent
  <2>3. QED
    BY <1>1, <2>1, <2>2, FollowupAssumption DEF NInv, NoteTyped, NoteAhead, OneAgent, Unsent, NoteState
<1>5. ASSUME NEW p \in Proc, Tells(p)
      PROVE  NInv'
  <2>1. /\ agent[p] = "claimed" /\ UNCHANGED <<note, journal>>
        /\ agent' = [agent EXCEPT ![p] = "told"] /\ told' = told + 1
    BY <1>5 DEF Tells, vars
  <2>2. told = 0 /\ note.work = "sending" /\ note.head = "sending"
    BY <2>1 DEF NInv, OneAgent
  <2>3. QED
    BY <1>1, <2>1, <2>2 DEF NInv, NoteTyped, NoteAhead, OneAgent, Unsent
<1>6. ASSUME NEW p \in Proc, RecordsReceipt(p)
      PROVE  NInv'
  <2>1. /\ agent[p] = "told" /\ journal = "merged" /\ journal' = "merged"
        /\ note' = [work |-> "submitted", head |-> "submitted"]
        /\ agent' = [agent EXCEPT ![p] = "idle"] /\ told' = told
    BY <1>6 DEF RecordsReceipt, Ready, vars
  <2>2. told = 1 /\ \A q \in Proc : q # p => agent[q] = "idle"
    BY <2>1 DEF NInv, OneAgent, NoteTyped
  <2>3. QED
    BY <1>1, <2>1, <2>2, FollowupAssumption DEF NInv, NoteTyped, NoteAhead, OneAgent, Unsent, NoteState
<1>7. ASSUME NEW p \in Proc, AgentDies(p)
      PROVE  NInv'
  <2>1. UNCHANGED <<note, told, journal>> /\ agent' = [agent EXCEPT ![p] = "idle"]
    BY <1>7 DEF AgentDies
  <2>2. QED
    BY <1>1, <2>1 DEF NInv, NoteTyped, NoteAhead, OneAgent
<1>8. ASSUME NEW p \in Proc, DiesNoting(p)
      PROVE  NInv'
  <2>1. /\ note.work = note.head /\ journal = "merged" /\ journal' = "merged" /\ told' = told
        /\ agent' = [agent EXCEPT ![p] = "idle"]
        /\ note'.head = note.head
        /\ \/ agent[p] = "idle" /\ note.work = None /\ note'.work = "prepared"
           \/ agent[p] = "idle" /\ note.work = "prepared" /\ note'.work = "sending"
           \/ agent[p] = "told" /\ note.work = "sending" /\ note'.work = "submitted"
    BY <1>1, <1>8 DEF DiesNoting, Ready
  <2>2. note' \in [work : NoteState \cup {None}, head : NoteState \cup {None}]
    BY <1>1, <1>8 DEF DiesNoting, NoteState
  <2>3. NoteTyped' /\ NoteAhead'
    BY <1>1, <2>1, <2>2 DEF NoteTyped, NoteAhead
  <2>4. \A q \in Proc : agent'[q] # "claimed"
    BY <1>1, <2>1 DEF NInv, OneAgent, Unsent
  <2>5. OneAgent'
    BY <1>1, <2>1, <2>4 DEF NInv, OneAgent, Unsent
  <2>6. QED
    BY <2>1, <2>3, <2>5 DEF NInv
<1>9. CASE RepairsNote
  <2>1. /\ UNCHANGED <<agent, told, journal>> /\ note.work # note.head
        /\ \/ note' = [work |-> note.work, head |-> note.work]
           \/ note' = [work |-> note.head, head |-> note.head]
    BY <1>9 DEF RepairsNote, vars
  <2>2. note.work \in NoteState \cup {None} /\ note.head \in NoteState \cup {None}
    BY <1>1
  <2>3. NoteTyped' /\ NoteAhead'
    BY <1>1, <2>1, <2>2 DEF NoteTyped, NoteAhead
  <2>4. \A p \in Proc : agent[p] # "claimed"
    BY <2>1 DEF NInv, OneAgent
  <2>5. OneAgent'
    BY <1>1, <2>1, <2>2, <2>4, FollowupAssumption DEF NInv, NoteAhead, OneAgent, Unsent, NoteState
  <2>6. journal = "merged"
    BY <2>1 DEF NInv
  <2>7. QED
    BY <2>1, <2>3, <2>5, <2>6 DEF NInv
<1>10. QED
  BY <1>2, <1>3, <1>4, <1>5, <1>6, <1>7, <1>8, <1>9 DEF NextFollowup

LEMMA NoteStages ==
  /\ NoteStage(None) = "none" /\ NoteStage("prepared") = "prepared"
  /\ NoteStage("sending") = "claimed" /\ NoteStage("submitted") = "settled"
BY FollowupAssumption DEF NoteStage, NoteState

LEMMA NoteIsPromised ==
  ASSUME NInv, [NextFollowup]_<<vars, outbox>>
  PROVE  [NotePromise!Next]_<<NoteStage(note.head), told>>
<1> DEFINE Kept == NoteStage(note.head)' = NoteStage(note.head) /\ told' = told
<1>1. CASE (Next /\ UNCHANGED outbox) \/ UNCHANGED <<vars, outbox>>
  BY <1>1 DEF outbox
<1>2. ASSUME NEW p \in Proc, PreparesNote(p)
      PROVE  NotePromise!Prepare
  <2>1. note.head = None /\ note'.head = "prepared" /\ told' = told
    BY <1>2 DEF PreparesNote, Ready, Dirty, Committed
  <2>2. QED
    BY <2>1, NoteStages DEF NotePromise!Prepare
<1>3. ASSUME NEW p \in Proc, ClaimsNote(p)
      PROVE  NotePromise!Claim
  <2>1. note.head = "prepared" /\ note'.head = "sending" /\ told' = told
    BY <1>3 DEF ClaimsNote, Ready, Dirty, Committed
  <2>2. QED
    BY <2>1, NoteStages DEF NotePromise!Claim
<1>4. ASSUME NEW p \in Proc, Tells(p)
      PROVE  NotePromise!Send
  <2>1. note.head = "sending" /\ note' = note /\ told = 0 /\ told' = 1
    BY <1>4 DEF Tells, NInv, OneAgent, Committed
  <2>2. QED
    BY <2>1, NoteStages DEF NotePromise!Send
<1>5. ASSUME NEW p \in Proc, RecordsReceipt(p)
      PROVE  NotePromise!Settle
  <2>1. note.head = "sending" /\ note'.head = "submitted" /\ told' = told
    BY <1>5 DEF RecordsReceipt, Ready, Dirty, Committed
  <2>2. QED
    BY <2>1, NoteStages DEF NotePromise!Settle
<1>6. ASSUME NEW p \in Proc, AgentDies(p) \/ DiesNoting(p)
      PROVE  Kept
  <2>1. note'.head = note.head /\ told' = told
    BY <1>6 DEF AgentDies, DiesNoting, NInv, NoteTyped
  <2>2. QED
    BY <2>1
<1>7. CASE RepairsNote
  <2>1. told' = told /\ note'.head \in {note.work, note.head}
    BY <1>7 DEF RepairsNote, Committed
  <2>2. NoteAhead
    BY DEF NInv
  <2>3. CASE note'.head = note.head
    BY <2>1, <2>3
  <2>4. CASE note'.head = note.work /\ note.work # note.head
    BY <2>1, <2>2, <2>4, NoteStages
       DEF NoteAhead, NotePromise!Next, NotePromise!Prepare, NotePromise!Claim, NotePromise!Settle
  <2>5. QED
    BY <2>1, <2>3, <2>4
<1>8. QED
  BY <1>1, <1>2, <1>3, <1>4, <1>5, <1>6, <1>7 DEF NextFollowup, NotePromise!Next

(* The inductive invariant of the followup. *)
THEOREM FollowupInvariant == SpecFollowup => []NInv
<1>1. InitFollowup => NInv
  BY FollowupAssumption
     DEF InitFollowup, NInv, NoteTyped, NoteAhead, OneAgent, Committed, Unsent, NoteState
<1> QED
  BY <1>1, NoteKeeps, PTL DEF SpecFollowup

(* Whoever is told is told of an answer that stays merged. *)
THEOREM MergedIsTold == SpecFollowup => []ToldOfMerged
<1>1. NInv => ToldOfMerged
  BY FollowupAssumption DEF NInv, NoteTyped, OneAgent, ToldOfMerged, Unsent, Committed
<1> QED
  BY <1>1, FollowupInvariant, PTL

(* The note at HEAD is a one-shot: claimed first, and one message at most. *)
THEOREM NoteIsOneShot == SpecFollowup => ToldOnce
<1>1. InitFollowup => NotePromise!Init
  BY NoteStages DEF InitFollowup, NotePromise!Init, Committed
<1> QED
  BY <1>1, NoteIsPromised, FollowupInvariant, PTL DEF SpecFollowup, ToldOnce, NotePromise!Spec

(* Whoever is about to write while a file is there was overtaken by it. *)
Overtaken == \A p \in Proc : pc[p] = "placing" /\ scratch # None => raced

LEMMA OvertakenStep ==
  ASSUME HInv, Overtaken, [Next]_vars
  PROVE  Overtaken'
<1> SUFFICES ASSUME NEW q \in Proc, pc'[q] = "placing", scratch' # None
             PROVE  raced'
  BY DEF Overtaken
<1>1. ASSUME NEW c \in Answer \cup {Bad}, WritesScratch(c)
      PROVE  raced'
  BY <1>1 DEF WritesScratch
<1>2. ASSUME NEW p \in Proc, SocketPlaces(p)
      PROVE  FALSE
  <2>1. pc[p] \in Held /\ Leave(p, "collect")
    BY <1>2 DEF SocketPlaces, Held, HasRead
  <2>2. pc'[q] \notin Held
    BY <2>1, Leaving, Alone DEF HInv
  <2>3. QED
    BY <2>2 DEF Held, HasRead
<1>3. ASSUME UNCHANGED <<scratch, raced>>, pc[q] = "placing"
      PROVE  raced'
  BY <1>3 DEF Overtaken
<1>4. ASSUME NEW p \in Proc, SocketSeesNone(p)
      PROVE  raced'
  BY <1>4 DEF SocketSeesNone
<1>5. ASSUME NEW p \in Proc, NEW l, l # "placing", pc' = [pc EXCEPT ![p] = l]
      PROVE  pc[q] = "placing"
  BY <1>5 DEF HInv, Typed
<1>6. ASSUME NEW p \in Proc, Step(p), ~SocketPlaces(p), ~SocketSeesNone(p)
      PROVE  raced'
  <2>1. UNCHANGED <<scratch, raced>>
    BY <1>6 DEF Step, Prepares, DiesPreparing, DeliverChecks, DeliverStopsShort, Claims,
       Sends, FailsToSend, RecordsOutcome, SocketReads, SocketNotes, SocketRaises,
       SocketFindsSame, SocketFindsNone, SocketSkips, Collects, Cancels
  <2>2. \/ pc' = pc
        \/ \E l \in {"idle", "resolving", "sending", "read", "looked", "collect"} \cup Outcomes :
             pc' = [pc EXCEPT ![p] = l]
    BY <1>6 DEF Step, Prepares, DiesPreparing, DeliverChecks, DeliverStopsShort, Claims,
       Sends, Accepted, Outcomes, FailsToSend, RecordsOutcome, SocketReads, SocketNotes,
       SocketRaises, SocketFindsSame, SocketFindsNone, SocketSkips, Collects, Cancels,
       Enter, Leave
  <2>3. pc[q] = "placing"
    BY <2>2, <1>5 DEF Outcomes
  <2>4. QED
    BY <2>1, <2>3, <1>3
<1>7. ASSUME NEW p \in Proc, Dies(p) \/ DiesWriting(p)
      PROVE  raced'
  <2>1. UNCHANGED <<scratch, raced>> /\ pc' = [pc EXCEPT ![p] = "idle"]
    BY <1>7 DEF Dies, DiesWriting, Leave
  <2>2. QED
    BY <2>1, <1>3, <1>5
<1>8. CASE Repairs \/ (\E x \in Line : Writes(x)) \/ UNCHANGED vars
  BY <1>8, <1>3 DEF Repairs, Writes, vars
<1>9. QED
  BY <1>1, <1>2, <1>4, <1>6, <1>7, <1>8 DEF Next

(* Only socket-collect replaces a file, and it holds the lock of the invocation. *)
LEMMA ScratchStays ==
  ASSUME HInv, Overtaken, [Next]_vars, scratch # None, scratch' # scratch
  PROVE  /\ journal \notin Terminal
         /\ raced /\ \E p \in Proc : pc[p] = "placing"
<1>1. PICK p \in Proc : SocketPlaces(p)
  BY DEF Next, vars, Step, Prepares, DiesPreparing, DeliverChecks, DeliverStopsShort, Claims,
     Sends, FailsToSend, RecordsOutcome, SocketReads, SocketNotes, SocketRaises,
     SocketFindsSame, SocketFindsNone, SocketSkips, SocketSeesNone,
     Dies, DiesWriting, Repairs, Writes, WritesScratch, Collects, Cancels
<1>2. pc[p] = "placing"
  BY <1>1 DEF SocketPlaces
<1>3. journal \notin Terminal
  BY <1>2 DEF HInv, HolderKnows, Knows, HasRead
<1>4. QED
  BY <1>2, <1>3 DEF Overtaken

(* A file in scratch is replaced only if it overtook a socket-collect, and not when it is over. *)
THEOREM ScratchKept == Spec => ScratchIsKept
<1>1. Init => Overtaken
  BY DEF Init, Overtaken
<1>2. HInv /\ Overtaken /\ [Next]_vars => Overtaken'
  BY OvertakenStep
<1>3. HInv /\ Overtaken /\ [Next]_vars
        => [scratch # None /\ scratch' # scratch =>
              /\ journal \notin Terminal
              /\ raced /\ \E p \in Proc : pc[p] = "placing"]_vars
  BY ScratchStays
<1>4. QED
  BY <1>1, <1>2, <1>3, HandoffInvariant, PTL DEF Spec, ScratchIsKept

(* To Handoff a step of the followup is a stutter, but for a fault. *)
LEMMA FollowupStep ==
  ASSUME [NextFollowup]_<<vars, outbox>>
  PROVE  \/ [Next]_vars
         \/ UNCHANGED <<receipt, journal, scratch, lock, pc, job, transcript, handed, placed,
                        raced>>
BY DEF NextFollowup, PreparesNote, ClaimsNote, Tells, RecordsReceipt, AgentDies, DiesNoting,
   RepairsNote, vars

(* Nor does the followup disturb the invariant of the handoff. *)
LEMMA InvariantWithFollowup ==
  ASSUME HandoffAssumption, HInv, [NextFollowup]_<<vars, outbox>>
  PROVE  HInv'
<1>1. CASE [Next]_vars
  BY <1>1, HStep
<1>2. CASE \E p \in Proc : AgentDies(p) \/ DiesNoting(p)
  BY <1>2 DEF AgentDies, DiesNoting, HInv, Typed, Locked, HolderKnows, Knows, Dirty,
     Ahead, RetryIsSafe
<1>3. QED
  BY <1>1, <1>2 DEF NextFollowup, PreparesNote, ClaimsNote, Tells, RecordsReceipt,
     RepairsNote, vars

(***************************************************************************)
(* What is proved of Handoff holds with the followup running beside it:    *)
(* a retry is safe, what is over is not sent, scratch is replaced by who  *)
(* was overtaken only, and the receipt is a one-shot.                      *)
(***************************************************************************)
THEOREM HandoffWithFollowup ==
  SpecFollowup =>
    [](HInv /\ RetryIsSafe) /\ NothingSentWhenOver /\ ScratchIsKept /\ ImplementsOneShot
<1>1. InitFollowup => HInv /\ Promise!Init
  <2>1. InitFollowup => HInv
    BY HandoffAssumption, Initially DEF InitFollowup
  <2>2. InitFollowup => Promise!Init
    BY DEF InitFollowup, Init, Promise!Init, Committed, StageOf
  <2>3. QED
    BY <2>1, <2>2
<1>2. HInv /\ [NextFollowup]_<<vars, outbox>> => HInv'
  BY HandoffAssumption, InvariantWithFollowup
<1>3. HInv => RetryIsSafe
  BY DEF HInv
<1>4. HInv /\ [NextFollowup]_<<vars, outbox>>
        => [handed' # handed => journal \notin Terminal]_vars
  BY FollowupStep, SentBeforeOver
<1>5. HInv /\ Overtaken /\ [NextFollowup]_<<vars, outbox>>
        => [scratch # None /\ scratch' # scratch =>
              /\ journal \notin Terminal
              /\ raced /\ \E p \in Proc : pc[p] = "placing"]_vars
  BY FollowupStep, ScratchStays
<1>6. HInv /\ HInv' /\ [NextFollowup]_<<vars, outbox>>
        => [Promise!Next]_<<StageOf(receipt.head), handed>>
  <2>1. ASSUME UNCHANGED <<receipt, handed>> PROVE UNCHANGED <<StageOf(receipt.head), handed>>
    BY <2>1 DEF StageOf
  <2>2. QED
    BY <2>1, HandoffAssumption, FollowupStep, StepIsPromised
<1>7. InitFollowup => Overtaken
  BY DEF InitFollowup, Init, Overtaken
<1>8. HInv /\ Overtaken /\ [NextFollowup]_<<vars, outbox>> => Overtaken'
  <2>1. UNCHANGED <<pc, scratch, raced>> /\ Overtaken => Overtaken'
    BY DEF Overtaken
  <2>2. QED
    BY <2>1, FollowupStep, OvertakenStep
<1> QED
  BY <1>1, <1>2, <1>3, <1>4, <1>5, <1>6, <1>7, <1>8, PTL
     DEF SpecFollowup, NothingSentWhenOver, ScratchIsKept, ImplementsOneShot, Promise!Spec

-----------------------------------------------------------------------------
(***************************************************************************)
(* What reply finds in the transcript.  The loop over the lines is a       *)
(* recursive function; that it is one for the transcript at hand, and what *)
(* its state says of the lines, is kept as the session appends a line: the *)
(* induction over the lines is the one over the steps of the system.       *)
(***************************************************************************)
Input == {"request", "user"}

(* f is what the loop of reply goes through on the lines of t. *)
IsScan(f, t) ==
  f = [n \in 0..Len(t) |-> IF n = 0 THEN Start ELSE Scan(f[n - 1], t[n])]

(* Line a of t answers a request, with no input between. *)
AnswersIn(t, a) ==
  /\ a \in 1..Len(t) /\ t[a] \in Answer
  /\ \E m \in 1..(a - 1) : t[m] = "request" /\ \A k \in (m + 1)..(a - 1) : t[k] \notin Input

(* What the state s of the loop says of the lines t before it. *)
Follows(s, t) ==
  /\ s \in [mode : {"outside", "inside", "done", "void"}, at : Nat, n : Nat] /\ s.n = Len(t)
  /\ s.at # 0 => AnswersIn(t, s.at)
  /\ s.mode = "outside" => s.at = 0
  /\ s.mode = "inside" =>
       /\ \E m \in 1..Len(t) : t[m] = "request" /\ \A k \in (m + 1)..Len(t) : t[k] \notin Input
       /\ s.at \in {0, Len(t)}
  /\ s.mode = "done" => s.at \in 1..(Len(t) - 1) /\ t[s.at + 1] \in Input

(* The lines of t have one scan, and it ends in a state that says what is so. *)
Followed(t) ==
  \E f : IsScan(f, t) /\ (\A g : IsScan(g, t) => g = f) /\ Follows(f[Len(t)], t)

(* The state of the loop is the last of that scan. *)
LEMMA ScanIsScanned ==
  ASSUME NEW t, NEW f, IsScan(f, t), \A g : IsScan(g, t) => g = f
  PROVE  Scanned(t) = f[Len(t)]
<1> DEFINE c == CHOOSE g : IsScan(g, t)
<1>1. c = f
  <2>1. IsScan(c, t)
    BY Zenon
  <2>2. QED
    BY <2>1
<1>2. Scanned(t) = c[Len(t)]
  BY Zenon DEF Scanned, IsScan
<1>3. QED
  BY <1>1, <1>2

(* A scan, line by line. *)
LEMMA ByLines ==
  ASSUME NEW t \in Seq(Line), NEW f
  PROVE  IsScan(f, t) <=> /\ f = [n \in 0..Len(t) |-> f[n]]
                          /\ f[0] = Start
                          /\ \A n \in 1..Len(t) : f[n] = Scan(f[n - 1], t[n])
<1> DEFINE h == [n \in 0..Len(t) |-> IF n = 0 THEN Start ELSE Scan(f[n - 1], t[n])]
<1>1. ASSUME f = h
      PROVE  /\ f = [n \in 0..Len(t) |-> f[n]]
             /\ f[0] = Start
             /\ \A n \in 1..Len(t) : f[n] = Scan(f[n - 1], t[n])
  <2>1. /\ h = [n \in 0..Len(t) |-> h[n]] /\ h[0] = Start
        /\ \A n \in 1..Len(t) : h[n] = Scan(f[n - 1], t[n])
    OBVIOUS
  <2>2. QED
    BY <1>1, <2>1
<1>2. ASSUME f = [n \in 0..Len(t) |-> f[n]], f[0] = Start,
             \A n \in 1..Len(t) : f[n] = Scan(f[n - 1], t[n])
      PROVE  f = h
  <2>1. ASSUME NEW n \in 0..Len(t) PROVE f[n] = h[n]
    <3>1. n = 0 \/ n \in 1..Len(t)
      OBVIOUS
    <3>2. h[n] = IF n = 0 THEN Start ELSE Scan(f[n - 1], t[n])
      OBVIOUS
    <3>3. QED
      BY <1>2, <3>1, <3>2
  <2>2. [n \in 0..Len(t) |-> f[n]] = [n \in 0..Len(t) |-> h[n]]
    BY <2>1
  <2>3. h = [n \in 0..Len(t) |-> h[n]]
    OBVIOUS
  <2>4. QED
    BY <1>2, <2>2, <2>3
<1>3. QED
  BY <1>1, <1>2 DEF IsScan

(* Before the first line. *)
LEMMA ScannedAtFirst == Followed(<<>>)
<1> DEFINE f == [n \in {0} |-> Start]
<1>1. IsScan(f, <<>>)
  <2>1. f = [n \in 0..0 |-> f[n]] /\ f[0] = Start /\ Len(<<>>) = 0 /\ <<>> \in Seq(Line)
    OBVIOUS
  <2> HIDE DEF f
  <2>2. QED
    BY <2>1, ByLines
<1>2. ASSUME NEW g, IsScan(g, <<>>) PROVE g = f
  <2>1. Len(<<>>) = 0 /\ <<>> \in Seq(Line)
    OBVIOUS
  <2>2. g = [n \in 0..Len(<<>>) |-> g[n]] /\ g[0] = Start
    BY <1>2, <2>1, ByLines
  <2>3. QED
    BY <2>1, <2>2
<1>3. Follows(f[0], <<>>)
  BY DEF Follows, Start
<1>4. QED
  <2> HIDE DEF f
  <2>1. Len(<<>>) = 0
    OBVIOUS
  <2>2. QED
    BY <1>1, <1>2, <1>3, <2>1 DEF Followed

(* One more line takes the loop one turn further. *)
LEMMA ScanGrows ==
  ASSUME NEW t \in Seq(Line), NEW x \in Line, NEW f, IsScan(f, t), \A g : IsScan(g, t) => g = f
  PROVE  \E h : /\ IsScan(h, Append(t, x)) /\ \A g : IsScan(g, Append(t, x)) => g = h
               /\ h[Len(t) + 1] = Scan(f[Len(t)], x)
<1> DEFINE u == Append(t, x)
           L == Len(t)
           h == [n \in 0..(L + 1) |-> IF n = L + 1 THEN Scan(f[L], x) ELSE f[n]]
<1>1. /\ u \in Seq(Line) /\ L \in Nat /\ Len(u) = L + 1
      /\ u[L + 1] = x /\ \A n \in 1..L : u[n] = t[n]
  OBVIOUS
<1>2. f = [n \in 0..L |-> f[n]] /\ f[0] = Start /\ \A n \in 1..L : f[n] = Scan(f[n - 1], t[n])
  BY ByLines
<1>3. h = [n \in 0..(L + 1) |-> h[n]] /\ h[L + 1] = Scan(f[L], x) /\ \A n \in 0..L : h[n] = f[n]
  BY <1>1
<1> HIDE DEF u, L, h
<1>4. IsScan(h, u)
  <2>1. h[0] = Start
    <3>1. 0 \in 0..L
      BY <1>1
    <3>2. QED
      BY <1>2, <1>3, <3>1
  <2>2. ASSUME NEW n \in 1..(L + 1) PROVE h[n] = Scan(h[n - 1], u[n])
    <3>1. CASE n = L + 1
      <4>1. n - 1 = L /\ L \in 0..L
        BY <1>1, <3>1
      <4>2. QED
        BY <1>1, <1>3, <3>1, <4>1
    <3>2. CASE n # L + 1
      <4>1. n \in 1..L /\ n \in 0..L /\ n - 1 \in 0..L
        BY <1>1, <3>2
      <4>2. QED
        BY <1>1, <1>2, <1>3, <4>1
    <3>3. QED
      BY <3>1, <3>2
  <2>3. QED
    BY <1>1, <1>3, <2>1, <2>2, ByLines
<1>5. ASSUME NEW g, IsScan(g, u) PROVE g = h
  <2>1. g = [n \in 0..(L + 1) |-> g[n]] /\ g[0] = Start
        /\ \A n \in 1..(L + 1) : g[n] = Scan(g[n - 1], u[n])
    <3>1. u \in Seq(Line) /\ Len(u) = L + 1
      BY <1>1
    <3>2. /\ g = [n \in 0..Len(u) |-> g[n]] /\ g[0] = Start
          /\ \A n \in 1..Len(u) : g[n] = Scan(g[n - 1], u[n])
      BY <1>5, <3>1, ByLines
    <3>3. QED
      BY <3>1, <3>2
  <2> DEFINE k == [n \in 0..L |-> g[n]]
  <2>2. k = [n \in 0..L |-> k[n]] /\ \A n \in 0..L : k[n] = g[n]
    OBVIOUS
  <2> HIDE DEF k
  <2>3. k[0] = Start
    <3>1. 0 \in 0..L
      BY <1>1
    <3>2. QED
      BY <2>1, <2>2, <3>1
  <2>4. ASSUME NEW n \in 1..L PROVE k[n] = Scan(k[n - 1], t[n])
    <3>1. n \in 0..L /\ n - 1 \in 0..L /\ n \in 1..(L + 1)
      BY <1>1
    <3>2. QED
      BY <1>1, <2>1, <2>2, <3>1
  <2>5. IsScan(k, t)
    BY <2>2, <2>3, <2>4, ByLines DEF L
  <2>6. k = f
    BY <2>5
  <2>7. ASSUME NEW n \in 0..(L + 1) PROVE g[n] = h[n]
    <3>1. CASE n = L + 1
      <4>1. n \in 1..(L + 1) /\ n - 1 = L /\ L \in 0..L
        BY <1>1, <3>1
      <4>2. g[n] = Scan(g[L], x) /\ g[L] = f[L]
        BY <1>1, <2>1, <2>2, <2>6, <3>1, <4>1
      <4>3. QED
        BY <1>3, <3>1, <4>2
    <3>2. CASE n # L + 1
      <4>1. n \in 0..L
        BY <1>1, <3>2
      <4>2. QED
        BY <1>3, <2>2, <2>6, <4>1
    <3>3. QED
      BY <3>1, <3>2
  <2>8. [n \in 0..(L + 1) |-> g[n]] = [n \in 0..(L + 1) |-> h[n]]
    BY <2>7
  <2>9. QED
    BY <1>3, <2>1, <2>8
<1>6. QED
  BY <1>3, <1>4, <1>5 DEF u, L

(* What is true of a line of t stays true when t grows. *)
LEMMA AnswersGrow ==
  ASSUME NEW t \in Seq(Line), NEW x \in Line, NEW a, AnswersIn(t, a)
  PROVE  AnswersIn(Append(t, x), a)
<1>1. /\ Len(Append(t, x)) = Len(t) + 1 /\ Len(t) \in Nat
      /\ \A n \in 1..Len(t) : Append(t, x)[n] = t[n]
  OBVIOUS
<1>2. QED
  BY <1>1 DEF AnswersIn

(* One turn of the loop keeps what it says of the lines. *)
LEMMA ScanFollows ==
  ASSUME NEW t \in Seq(Line), NEW x \in Line, NEW s, Follows(s, t)
  PROVE  Follows(Scan(s, x), Append(t, x))
<1> DEFINE u == Append(t, x)
           L == Len(t)
<1>1. /\ L \in Nat /\ Len(u) = L + 1 /\ u[L + 1] = x /\ \A n \in 1..L : u[n] = t[n]
  OBVIOUS
<1>2. s.at # 0 => AnswersIn(u, s.at)
  BY AnswersGrow DEF Follows
<1> USE DEF Follows
<1> HIDE DEF u, L
<1>3. CASE s.mode = "outside"
  <2>1. CASE x = "request"
    BY <1>1, <1>3, <2>1 DEF Scan, Moved, L
  <2>2. CASE x # "request"
    BY <1>1, <1>3, <2>2 DEF Scan, Moved, L
  <2>3. QED
    BY <2>1, <2>2 DEF u
<1>4. CASE s.mode = "inside"
  <2>1. CASE x \in Input
    <3>1. Scan(s, x) = Moved(s, IF s.at = 0 THEN "void" ELSE "done", s.at)
      BY <1>4, <2>1, HandoffAssumption DEF Scan, Input
    <3>2. QED
      BY <1>1, <1>2, <1>4, <2>1, <3>1 DEF Moved, L, u
  <2>2. CASE x \in {"feedback", "tool"}
    <3>1. Scan(s, x) = Moved(s, "inside", 0)
      BY <1>4, <2>2, HandoffAssumption DEF Scan
    <3>2. QED
      BY <1>1, <1>4, <2>2, <3>1 DEF Moved, L, u, Input
  <2>3. CASE x \in Answer
    <3>1. Scan(s, x) = Moved(s, "inside", L + 1)
      BY <1>4, <2>3, HandoffAssumption DEF Scan, L
    <3>2. x \notin Input
      BY <2>3, HandoffAssumption DEF Input
    <3>3. AnswersIn(u, L + 1)
      BY <1>1, <1>4, <2>3 DEF AnswersIn, L
    <3>4. QED
      BY <1>1, <1>4, <3>1, <3>2, <3>3 DEF Moved, L, u
  <2>4. QED
    BY <2>1, <2>2, <2>3 DEF Line, Input
<1>5. CASE s.mode \in {"done", "void"}
  <2>1. Scan(s, x) = Moved(s, s.mode, s.at)
    BY <1>5 DEF Scan
  <2>2. QED
    BY <1>1, <1>2, <1>5, <2>1 DEF Moved, L, u
<1>6. QED
  BY <1>3, <1>4, <1>5

(* So a transcript stays one that is followed. *)
LEMMA FollowedGrows ==
  ASSUME NEW t \in Seq(Line), NEW x \in Line, Followed(t)
  PROVE  Followed(Append(t, x))
<1>1. PICK f : IsScan(f, t) /\ (\A g : IsScan(g, t) => g = f) /\ Follows(f[Len(t)], t)
  BY DEF Followed
<1>2. PICK h : /\ IsScan(h, Append(t, x)) /\ \A g : IsScan(g, Append(t, x)) => g = h
               /\ h[Len(t) + 1] = Scan(f[Len(t)], x)
  BY <1>1, ScanGrows
<1>3. Follows(h[Len(t) + 1], Append(t, x))
  BY <1>1, <1>2, ScanFollows
<1>4. Len(Append(t, x)) = Len(t) + 1
  OBVIOUS
<1>5. QED
  BY <1>2, <1>3, <1>4 DEF Followed

(* What was read of t is an answer that was final by then. *)
FoundIn(r, t) ==
  r.at # 0 =>
    /\ AnswersIn(t, r.at) /\ r.upto \in 0..Len(t)
    /\ \A k \in (r.at + 1)..r.upto : t[k] \in Input \/ \E j \in (r.at + 1)..k : t[j] \in Input

(* Of all that was read, and who is about to place something has read it. *)
ReadingsFound ==
  /\ Followed(transcript)
  /\ FoundIn(placed, transcript)
  /\ \A p \in Proc : FoundIn(job[p], transcript) /\ (pc[p] \in HasRead => job[p].at # 0)

(* And stays so when the transcript grows. *)
LEMMA FoundGrows ==
  ASSUME NEW t \in Seq(Line), NEW x \in Line, NEW r \in Reading, FoundIn(r, t)
  PROVE  FoundIn(r, Append(t, x))
<1>1. CASE r.at = 0
  BY <1>1 DEF FoundIn
<1>2. CASE r.at # 0
  <2>1. AnswersIn(Append(t, x), r.at)
    BY <1>2, AnswersGrow DEF FoundIn
  <2>2. /\ Len(Append(t, x)) = Len(t) + 1 /\ Len(t) \in Nat
        /\ \A n \in 1..Len(t) : Append(t, x)[n] = t[n]
    OBVIOUS
  <2>3. r.at \in 1..Len(t) /\ r.upto \in 0..Len(t)
    BY <1>2 DEF FoundIn, AnswersIn
  <2>4. \A k \in (r.at + 1)..r.upto : Append(t, x)[k] = t[k]
    BY <2>2, <2>3
  <2>5. ASSUME NEW k \in (r.at + 1)..r.upto
        PROVE  \/ Append(t, x)[k] \in Input
               \/ \E j \in (r.at + 1)..k : Append(t, x)[j] \in Input
    <3>1. CASE t[k] \in Input
      BY <2>4, <3>1
    <3>2. CASE \E j \in (r.at + 1)..k : t[j] \in Input
      <4>1. PICK j \in (r.at + 1)..k : t[j] \in Input
        BY <3>2
      <4>2. j \in (r.at + 1)..r.upto
        BY <2>3, <4>1
      <4>3. QED
        BY <2>4, <4>1, <4>2
    <3>3. QED
      BY <1>2, <3>1, <3>2 DEF FoundIn
  <2>6. QED
    BY <2>1, <2>2, <2>3, <2>5 DEF FoundIn
<1>3. QED
  BY <1>1, <1>2

(* The reply of a transcript is found in it. *)
LEMMA ReplyIsFound ==
  ASSUME NEW t \in Seq(Line), Followed(t), Reply(t) # 0
  PROVE  FoundIn([at |-> Reply(t), upto |-> Len(t)], t)
<1>1. PICK f : IsScan(f, t) /\ (\A g : IsScan(g, t) => g = f) /\ Follows(f[Len(t)], t)
  BY DEF Followed
<1> DEFINE s == f[Len(t)]
<1>2. Scanned(t) = s
  BY <1>1, ScanIsScanned
<1> HIDE DEF s
<1>3. Follows(s, t)
  BY <1>1 DEF s
<1>4. Reply(t) = s.at /\ s.mode # "void"
  BY <1>2 DEF Reply
<1>5. AnswersIn(t, s.at) /\ s.at \in Nat /\ Len(t) \in Nat
  BY <1>3, <1>4 DEF Follows
<1>6. CASE s.at = Len(t)
  BY <1>4, <1>5, <1>6 DEF FoundIn
<1>7. CASE s.at # Len(t)
  <2>1. t[s.at + 1] \in Input
    BY <1>3, <1>4, <1>7 DEF Follows
  <2>2. \A k \in (s.at + 1)..Len(t) : s.at + 1 \in (s.at + 1)..k
    BY <1>5
  <2>3. QED
    BY <1>4, <1>5, <2>1, <2>2 DEF FoundIn
<1>8. QED
  BY <1>6, <1>7

(* A step that reads nothing keeps what was read. *)
LEMMA ReadsNothing ==
  ASSUME ReadingsFound, UNCHANGED transcript,
         \A q \in Proc : /\ job'[q] \in {job[q], NoReading}
                         /\ pc'[q] \in HasRead => pc[q] \in HasRead /\ job'[q] = job[q],
         placed' = placed \/ \E q \in Proc : placed' = job[q]
  PROVE  ReadingsFound'
<1>1. \A t : FoundIn(NoReading, t)
  BY DEF FoundIn, NoReading
<1>2. QED
  BY <1>1 DEF ReadingsFound

(* A reading is found when it is made, and from then on. *)
LEMMA ReadingsStep ==
  ASSUME TypeOK, ReadingsFound, [Next]_vars
  PROVE  ReadingsFound'
<1> USE DEF TypeOK
<1>1. ASSUME NEW x \in Line, Writes(x)
      PROVE  ReadingsFound'
  <2>1. transcript' = Append(transcript, x) /\ UNCHANGED <<job, placed, pc>>
    BY <1>1 DEF Writes
  <2>2. Followed(transcript') /\ FoundIn(placed, transcript')
        /\ \A p \in Proc : FoundIn(job[p], transcript')
    BY <2>1, FollowedGrows, FoundGrows DEF ReadingsFound
  <2>3. QED
    BY <2>1, <2>2 DEF ReadingsFound
<1>2. ASSUME NEW p \in Proc, SocketReads(p)
      PROVE  ReadingsFound'
  <2>1. /\ UNCHANGED <<transcript, placed>> /\ Reply(transcript) # 0
        /\ job' = [job EXCEPT ![p] = [at |-> Reply(transcript), upto |-> Len(transcript)]]
        /\ pc' = [pc EXCEPT ![p] = "read"]
    BY <1>2 DEF SocketReads, Enter
  <2>2. FoundIn([at |-> Reply(transcript), upto |-> Len(transcript)], transcript)
    BY <2>1, ReplyIsFound DEF ReadingsFound
  <2>3. QED
    BY <2>1, <2>2 DEF ReadingsFound
<1>3. ASSUME NEW p \in Proc, NEW l \in {"idle", "collect"}, Leave(p, l), UNCHANGED transcript,
             placed' \in {placed, job[p]}
      PROVE  ReadingsFound'
  BY <1>3, ReadsNothing DEF Leave, HasRead
<1>4. ASSUME NEW p \in Proc, NEW l, l \in HasRead => pc[p] \in HasRead, pc' = [pc EXCEPT ![p] = l],
             UNCHANGED <<job, transcript, placed>>
      PROVE  ReadingsFound'
  BY <1>4, ReadsNothing
<1>5. ASSUME UNCHANGED <<pc, job, transcript, placed>>
      PROVE  ReadingsFound'
  BY <1>5, ReadsNothing
<1>6. ASSUME NEW p \in Proc, Step(p)
      PROVE  ReadingsFound'
  <2>1. CASE \E transport \in Transport : Prepares(p, transport) \/ DiesPreparing(p, transport)
    BY <1>5, <2>1 DEF Prepares, DiesPreparing
  <2>2. CASE \/ DeliverChecks(p) \/ Claims(p) \/ Collects(p) \/ FailsToSend(p)
             \/ SocketFindsNone(p) \/ SocketSeesNone(p)
    BY <1>4, <2>2 DEF DeliverChecks, Claims, Collects, FailsToSend, Enter, SocketFindsNone,
       SocketSeesNone, SeenTwice, HasRead
  <2>3. CASE Sends(p)
    BY <1>4, <2>3 DEF Sends, Accepted, HasRead
  <2>4. CASE DeliverStopsShort(p) \/ RecordsOutcome(p) \/ SocketNotes(p) \/ SocketRaises(p)
             \/ SocketSkips(p)
    BY <1>3, <2>4 DEF DeliverStopsShort, RecordsOutcome, SocketNotes, SocketRaises, SocketSkips
  <2>5. CASE SocketFindsSame(p) \/ SocketPlaces(p)
    BY <1>3, <2>5 DEF SocketFindsSame, SocketPlaces
  <2>6. CASE Cancels(p)
    BY <1>5, <2>6 DEF Cancels
  <2>7. QED
    BY <1>2, <1>6, <2>1, <2>2, <2>3, <2>4, <2>5, <2>6 DEF Step
<1>7. ASSUME NEW p \in Proc, Dies(p) \/ DiesWriting(p)
      PROVE  ReadingsFound'
  BY <1>3, <1>7 DEF Dies, DiesWriting
<1>8. CASE Repairs \/ (\E c \in Answer \cup {Bad} : WritesScratch(c)) \/ UNCHANGED vars
  BY <1>5, <1>8 DEF Repairs, WritesScratch, vars
<1>9. QED
  BY <1>1, <1>6, <1>7, <1>8 DEF Next

(* Every step keeps the types. *)
LEMMA TypesKeep ==
  ASSUME TypeOK, Typed', ReadingsFound, [Next]_vars
  PROVE  TypeOK'
<1> USE DEF TypeOK
<1>1. /\ receipt' \in [work : Record \cup {None}, head : Record \cup {None}]
      /\ pc' \in [Proc -> {"idle", "resolving", "sending", "read", "looked", "placing", "collect"}
                          \cup Outcomes]
      /\ job' \in [Proc -> Reading] /\ handed' \in Nat
  BY DEF Typed, PcState, Held, HasRead
<1>2. NoReading \in Reading
  BY DEF NoReading, Reading
<1>3. CASE \E x \in Line : Writes(x)
  BY <1>1, <1>3 DEF Writes
<1>4. ASSUME NEW p \in Proc, SocketPlaces(p)
      PROVE  TypeOK'
  <2>1. job[p].at # 0 /\ AnswersIn(transcript, job[p].at)
    BY <1>4 DEF ReadingsFound, FoundIn, SocketPlaces, HasRead
  <2>2. Text(p) \in Answer
    BY <2>1 DEF Text, AnswersIn
  <2>3. QED
    BY <1>1, <1>4, <2>2 DEF SocketPlaces, Leave
<1>5. ASSUME NEW p \in Proc,
             \/ \E transport \in Transport : Prepares(p, transport) \/ DiesPreparing(p, transport)
             \/ DeliverChecks(p) \/ Claims(p) \/ Sends(p) \/ FailsToSend(p)
             \/ SocketReads(p) \/ SocketFindsNone(p) \/ SocketSeesNone(p) \/ Cancels(p)
      PROVE  TypeOK'
  <2>1. CASE \E transport \in Transport : Prepares(p, transport)
    BY <1>1, <2>1 DEF Prepares
  <2>2. CASE \E transport \in Transport : DiesPreparing(p, transport)
    BY <1>1, <2>2, HandoffAssumption DEF DiesPreparing
  <2>3. CASE DeliverChecks(p) \/ SocketReads(p)
    BY <1>1, <2>3 DEF DeliverChecks, SocketReads, Enter
  <2>4. CASE Claims(p) \/ Sends(p) \/ FailsToSend(p) \/ SocketFindsNone(p) \/ SocketSeesNone(p)
    BY <1>1, <2>4 DEF Claims, Sends, FailsToSend, SocketFindsNone, SocketSeesNone
  <2>5. CASE Cancels(p)
    BY <1>1, <2>5 DEF Cancels, JournalState
  <2>6. QED
    BY <1>5, <2>1, <2>2, <2>3, <2>4, <2>5
<1>6. ASSUME NEW p \in Proc, DeliverStopsShort(p) \/ RecordsOutcome(p) \/ SocketNotes(p)
                            \/ SocketRaises(p) \/ SocketFindsSame(p) \/ SocketSkips(p)
                            \/ Dies(p) \/ DiesWriting(p)
      PROVE  TypeOK'
  BY <1>1, <1>6, HandoffAssumption
     DEF DeliverStopsShort, RecordsOutcome, SocketNotes, SocketRaises, SocketFindsSame,
         SocketSkips, Dies, DiesWriting, Leave, Fault
<1>7. ASSUME NEW p \in Proc, Collects(p)
      PROVE  TypeOK'
  <2>1. Collected \in JournalState
    BY DEF Collected, JournalState, Terminal
  <2>2. QED
    BY <1>1, <1>7, <2>1 DEF Collects
<1>8. CASE Repairs \/ UNCHANGED vars
  BY <1>1, <1>8 DEF Repairs, vars
<1>9. CASE \E c \in Answer \cup {Bad} : WritesScratch(c)
  BY <1>1, <1>9, HandoffAssumption DEF WritesScratch, Fault
<1>10. QED
  BY <1>3, <1>4, <1>5, <1>6, <1>7, <1>8, <1>9 DEF Next, Step

(* The invariant of a handoff with what is read of the transcript. *)
FullInv == HInv /\ TypeOK /\ ReadingsFound

(* It is kept, by the followup, too. *)
LEMMA FullKeeps ==
  ASSUME FullInv, [NextFollowup]_<<vars, outbox>>
  PROVE  FullInv'
<1>1. HInv'
  BY HandoffAssumption, InvariantWithFollowup DEF FullInv
<1>2. CASE [Next]_vars
  <2>1. TypeOK'
    BY <1>1, <1>2, TypesKeep DEF FullInv, HInv
  <2>2. ReadingsFound'
    BY <1>2, ReadingsStep DEF FullInv
  <2>3. QED
    BY <1>1, <2>1, <2>2 DEF FullInv
<1>3. CASE \E p \in Proc : AgentDies(p) \/ DiesNoting(p)
  <2>1. UNCHANGED <<receipt, journal, scratch, lock, pc, job, transcript, handed, placed, raced>>
        /\ faults' = faults + 1 /\ faults < MaxFault
    BY <1>3 DEF AgentDies, DiesNoting, Fault
  <2>2. TypeOK'
    BY <2>1, HandoffAssumption DEF FullInv, TypeOK
  <2>3. ReadingsFound'
    BY <2>1, ReadsNothing DEF FullInv, ReadingsFound
  <2>4. QED
    BY <1>1, <2>2, <2>3 DEF FullInv
<1>4. QED
  BY <1>2, <1>3 DEF NextFollowup, PreparesNote, ClaimsNote, Tells, RecordsReceipt,
     RepairsNote, vars

(* The inductive invariant of handoff, collection from the transcript and followup. *)
THEOREM CollectingInvariant == SpecFollowup => []FullInv
<1>1. InitFollowup => FullInv
  <2> SUFFICES ASSUME InitFollowup PROVE FullInv
    OBVIOUS
  <2>1. HInv
    BY HandoffAssumption, Initially DEF InitFollowup
  <2>2. TypeOK
    <3>1. raced \in BOOLEAN
      BY DEF InitFollowup, Init
    <3>2. QED
      BY <3>1, HandoffAssumption
         DEF InitFollowup, Init, TypeOK, Committed, NoReading, Reading, JournalState
  <2>3. ReadingsFound
    BY ScannedAtFirst DEF InitFollowup, Init, ReadingsFound, FoundIn, NoReading, HasRead
  <2>4. QED
    BY <2>1, <2>2, <2>3 DEF FullInv
<1>2. QED
  BY <1>1, FullKeeps, PTL DEF SpecFollowup

(* Every variable keeps its type: what reply returns is a line of the transcript. *)
THEOREM TypesAreKept == SpecFollowup => []TypeOKFollowup
<1>1. FullInv /\ NInv => TypeOKFollowup
  BY DEF FullInv, NInv, NoteTyped, TypeOKFollowup
<1>2. QED
  BY <1>1, CollectingInvariant, FollowupInvariant, PTL

(***************************************************************************)
(* What socket-collect places answers the request and was final when it    *)
(* was read, whatever the session writes and however long it writes.       *)
(***************************************************************************)
THEOREM FinalIsCollected == SpecFollowup => []CollectsTheReply
<1>1. FullInv => CollectsTheReply
  BY DEF FullInv, ReadingsFound, FoundIn, AnswersIn, CollectsTheReply, InputAt, Input
<1>2. QED
  BY <1>1, CollectingInvariant, PTL
=============================================================================
