------------------------------ MODULE Handoff ------------------------------
(***************************************************************************)
(* handoff.py with claude_socket.py: an invocation whose packet was only   *)
(* printed is delivered to a running Claude session, by its socket or by   *)
(* the clipboard, and the answer is taken from the session's transcript.   *)
(*                                                                         *)
(* One invocation: its files and its lock are its own.  Commands hold the  *)
(* invocation lock, which a death frees; the receipt is a ledger file, so  *)
(* a death between its write and its commit leaves it dirty until a human  *)
(* commits or reverts it.  collect and cancel are one step each here and   *)
(* shown in detail in Collection.                                          *)
(*                                                                         *)
(* The application is external.  It appends to the transcript: the request *)
(* (once its frame was written), other user input, the feedback of a hook  *)
(* that rejects the answer, tool calls and other talk, and answers that    *)
(* satisfy the contract.  A line's place stands for its response uuid.     *)
(***************************************************************************)
EXTENDS Integers, Sequences

CONSTANTS Proc,      \* roundtable commands
          Answer,    \* the texts of well-formed answers
          Bad,       \* a text the collector refuses
          None,      \* no receipt, no scratch file, no process
          MaxLines,  \* bound on the transcript
          MaxFault   \* bound on deaths and foreign scratch files

Line == {"request", "user", "feedback", "tool"} \cup Answer

Transport == {"claude-socket", "claude-desktop"}

RecordState == {"prepared", "sending", "submitted", "clipboard-ready", "delivery-unknown"}

Record == [state : RecordState, transport : Transport, seen : Nat]

ASSUME HandoffAssumption ==
  /\ None \notin Proc /\ None \notin Answer /\ Bad \notin Answer /\ Bad # None
  /\ Answer \cap {"request", "user", "feedback", "tool"} = {}
  /\ None \notin Record
  /\ MaxLines \in Nat /\ MaxFault \in Nat

JournalState == {"prepared", "waiting", "merged", "failed", "cancelled"}

VARIABLES
  receipt,     \* deliveries/<inv>.json, in the work tree and at HEAD
  journal,     \* the state of the invocation in journal.json
  scratch,     \* scratch/<inv>.json
  lock,        \* who holds the invocation lock
  pc,          \* pc[p]: where p is in its command
  job,         \* job[p]: the place of the reply p read, and how far it read
  transcript,  \* what the session has written since the target was resolved
  handed,      \* frames written and clipboards filled (history)
  placed,      \* the reply socket-collect put in scratch, and how far it had read (history)
  raced,       \* the file in scratch came after a socket-collect had looked (history)
  faults

vars == <<receipt, journal, scratch, lock, pc, job, transcript, handed, placed, raced, faults>>

Committed(r) == [work |-> r, head |-> r]
Dirty(f)     == f.work # f.head
NoReading    == [at |-> 0, upto |-> 0]

Terminal == {"merged", "failed", "cancelled"}

(* _blocked: over, or answered already. *)
Blocked == journal \in Terminal \/ scratch # None

-----------------------------------------------------------------------------
(* claude_socket.reply, one line: outside the request, inside it with the   *)
(* place of the candidate, after it (done), or interrupted (void).          *)
Moved(s, mode, at) == [mode |-> mode, at |-> at, n |-> s.n + 1]

(* Mutant: the feedback of a hook is passed over. *)
ScanDeaf(s, line) ==
  CASE s.mode = "outside" -> Moved(s, IF line = "request" THEN "inside" ELSE "outside", 0)
    [] s.mode = "inside" /\ line \in {"request", "user"} ->
         Moved(s, IF s.at = 0 THEN "void" ELSE "done", s.at)
    [] s.mode = "inside" /\ line = "tool" -> Moved(s, "inside", 0)
    [] s.mode = "inside" /\ line \in Answer -> Moved(s, "inside", s.n + 1)
    [] OTHER -> Moved(s, s.mode, s.at)

Scan(s, line) ==
  CASE s.mode = "outside" -> Moved(s, IF line = "request" THEN "inside" ELSE "outside", 0)
    [] s.mode = "inside" /\ line \in {"request", "user"} ->
         Moved(s, IF s.at = 0 THEN "void" ELSE "done", s.at)
    [] s.mode = "inside" /\ line \in {"feedback", "tool"} -> Moved(s, "inside", 0)
    [] s.mode = "inside" /\ line \in Answer -> Moved(s, "inside", s.n + 1)
    [] OTHER -> Moved(s, s.mode, s.at)

(* Where the loop of reply is after the lines of t. *)
Start == [mode |-> "outside", at |-> 0, n |-> 0]

Scanned(t) ==
  LET scan[n \in 0..Len(t)] == IF n = 0 THEN Start ELSE Scan(scan[n - 1], t[n])
  IN  scan[Len(t)]

(* The place of the reply, 0 when there is none yet. *)
Reply(t) ==
  LET s == Scanned(t)
  IN  IF s.mode = "void" THEN 0 ELSE s.at

-----------------------------------------------------------------------------
Init ==
  /\ receipt = Committed(None)
  /\ journal \in {"prepared", "waiting"}
  /\ scratch = None
  /\ lock = None
  /\ pc = [p \in Proc |-> "idle"]
  /\ job = [p \in Proc |-> NoReading]
  /\ transcript = <<>>
  /\ handed = 0
  /\ placed = NoReading
  /\ raced = FALSE
  /\ faults = 0

Enter(p, l) ==
  /\ pc[p] = "idle" /\ lock = None
  /\ lock' = p /\ pc' = [pc EXCEPT ![p] = l]

Leave(p, l) ==
  /\ lock' = IF lock = p THEN None ELSE lock
  /\ pc' = [pc EXCEPT ![p] = l]
  /\ job' = [job EXCEPT ![p] = NoReading]

(* prepare: the receipt binds the destination; a second one changes nothing. *)
Prepares(p, transport) ==
  /\ pc[p] = "idle" /\ lock = None
  /\ receipt = Committed(None)
  /\ ~Blocked
  /\ receipt' = Committed([state |-> "prepared", transport |-> transport, seen |-> 0])
  /\ UNCHANGED <<journal, scratch, lock, pc, job, transcript, handed, placed, raced, faults>>

(* The same, dying between the write of the receipt and its commit. *)
DiesPreparing(p, transport) ==
  /\ pc[p] = "idle" /\ lock = None
  /\ faults < MaxFault /\ faults' = faults + 1
  /\ receipt = Committed(None)
  /\ ~Blocked
  /\ receipt' = [receipt EXCEPT !.work = [state |-> "prepared", transport |-> transport, seen |-> 0]]
  /\ UNCHANGED <<journal, scratch, lock, pc, job, transcript, handed, placed, raced>>

(* Mutant: an invocation that is over is delivered all the same. *)
DeliverChecksReceipt(p) ==
  /\ ~Dirty(receipt) /\ receipt.work # None
  /\ receipt.work.state = "prepared"
  /\ Enter(p, "resolving")
  /\ UNCHANGED <<receipt, journal, scratch, job, transcript, handed, placed, raced, faults>>

(* deliver up to the resolution of the target. *)
DeliverChecks(p) ==
  /\ ~Dirty(receipt) /\ receipt.work # None
  /\ receipt.work.state = "prepared"
  /\ ~Blocked
  /\ Enter(p, "resolving")
  /\ UNCHANGED <<receipt, journal, scratch, job, transcript, handed, placed, raced, faults>>

(* No such session, no request receipt, no clipboard command. *)
DeliverStopsShort(p) ==
  /\ pc[p] = "resolving"
  /\ Leave(p, "idle")
  /\ UNCHANGED <<receipt, journal, scratch, transcript, handed, placed, raced, faults>>

(* Mutant: the claim is not saved before the send. *)
ClaimsInMemory(p) ==
  /\ pc[p] = "resolving"
  /\ pc' = [pc EXCEPT ![p] = "sending"]
  /\ UNCHANGED <<receipt, journal, scratch, lock, job, transcript, handed, placed, raced, faults>>

(* "sending" is durable before anything can leave. *)
Claims(p) ==
  /\ pc[p] = "resolving"
  /\ receipt' = Committed([receipt.work EXCEPT !.state = "sending"])
  /\ pc' = [pc EXCEPT ![p] = "sending"]
  /\ UNCHANGED <<journal, scratch, lock, job, transcript, handed, placed, raced, faults>>

Accepted == IF receipt.work.transport = "claude-socket" THEN "submitted" ELSE "clipboard-ready"

(* The frame is written; the peer may refuse it, or the call fail afterwards. *)
Sends(p) ==
  /\ pc[p] = "sending"
  /\ handed' = handed + 1
  /\ \E l \in {Accepted, "delivery-unknown"} : pc' = [pc EXCEPT ![p] = l]
  /\ UNCHANGED <<receipt, journal, scratch, lock, job, transcript, placed, raced, faults>>

(* The target changed, the socket is closed, the frame is too long. *)
FailsToSend(p) ==
  /\ pc[p] = "sending"
  /\ pc' = [pc EXCEPT ![p] = "delivery-unknown"]
  /\ UNCHANGED <<receipt, journal, scratch, lock, job, transcript, handed, placed, raced, faults>>

Outcomes == {"submitted", "clipboard-ready", "delivery-unknown"}

(* Mutant: an unknown outcome may be tried again. *)
RecordsForRetry(p) ==
  /\ pc[p] \in Outcomes
  /\ receipt' = Committed([receipt.work EXCEPT
                             !.state = IF pc[p] = "delivery-unknown" THEN "prepared" ELSE pc[p]])
  /\ Leave(p, "idle")
  /\ UNCHANGED <<journal, scratch, transcript, handed, placed, raced, faults>>

RecordsOutcome(p) ==
  /\ pc[p] \in Outcomes
  /\ receipt' = Committed([receipt.work EXCEPT !.state = pc[p]])
  /\ Leave(p, "idle")
  /\ UNCHANGED <<journal, scratch, transcript, handed, placed, raced, faults>>

-----------------------------------------------------------------------------
Collectable ==
  /\ ~Dirty(receipt) /\ receipt.work # None
  /\ receipt.work.transport = "claude-socket"
  /\ receipt.work.state \in {"submitted", "sending", "delivery-unknown"}
  /\ journal \notin Terminal

(* collect_socket: the reply of a transcript that did not grow meanwhile.    *)
(* Without one the command ends; so it does when the target has changed.     *)
SocketReads(p) ==
  /\ Collectable
  /\ \E n \in 1..Len(transcript) :
       /\ Reply(transcript) = n
       /\ job' = [job EXCEPT ![p] = [at |-> n, upto |-> Len(transcript)]]
  /\ Enter(p, "read")
  /\ UNCHANGED <<receipt, journal, scratch, transcript, handed, placed, raced, faults>>

Text(p) == transcript[job[p].at]

(* First seen: note its hash and uuid, and wait for a second look. *)
SocketNotes(p) ==
  /\ pc[p] = "read"
  /\ receipt.work.seen # job[p].at
  /\ receipt' = Committed([receipt.work EXCEPT !.seen = job[p].at])
  /\ Leave(p, "idle")
  /\ UNCHANGED <<journal, scratch, transcript, handed, placed, raced, faults>>

SeenTwice(p) == pc[p] = "read" /\ receipt.work.seen = job[p].at

(* The file is there already, from a socket-collect that did not get to the end. *)
SocketFindsSame(p) ==
  /\ SeenTwice(p)
  /\ scratch = Text(p)
  /\ placed' = job[p]
  /\ Leave(p, "collect")
  /\ UNCHANGED <<receipt, journal, scratch, transcript, handed, raced, faults>>

(* Another file is in place: it is not overwritten. *)
SocketRaises(p) ==
  /\ SeenTwice(p)
  /\ scratch \notin {None, Text(p)}
  /\ Leave(p, "idle")
  /\ UNCHANGED <<receipt, journal, scratch, transcript, handed, placed, raced, faults>>

(* Mutant: whether a file differs is not asked. *)
SocketGoesOn(p) ==
  /\ SeenTwice(p)
  /\ pc' = [pc EXCEPT ![p] = "placing"]
  /\ UNCHANGED <<receipt, journal, scratch, lock, job, transcript, handed, placed, raced, faults>>

(* There is no file to compare with, and the code looks once more. *)
SocketFindsNone(p) ==
  /\ SeenTwice(p)
  /\ scratch = None
  /\ pc' = [pc EXCEPT ![p] = "looked"]
  /\ UNCHANGED <<receipt, journal, scratch, lock, job, transcript, handed, placed, raced, faults>>

(* Now there is one, and what is in it is not compared. *)
SocketSkips(p) ==
  /\ pc[p] = "looked" /\ scratch # None
  /\ Leave(p, "collect")
  /\ UNCHANGED <<receipt, journal, scratch, transcript, handed, placed, raced, faults>>

SocketSeesNone(p) ==
  /\ pc[p] = "looked" /\ scratch = None
  /\ pc' = [pc EXCEPT ![p] = "placing"]
  /\ UNCHANGED <<receipt, journal, scratch, lock, job, transcript, handed, placed, raced, faults>>

(* atomic_write: os.replace takes the place of whatever is there by now. *)
SocketPlaces(p) ==
  /\ pc[p] = "placing"
  /\ scratch' = Text(p)
  /\ placed' = job[p]
  /\ Leave(p, "collect")
  /\ UNCHANGED <<receipt, journal, transcript, handed, raced, faults>>

(* Mutant: the reason is taken for the state. *)
CollectedReason ==
  CASE journal \in Terminal -> journal
    [] journal \notin Terminal /\ scratch = None -> "timeout"
    [] journal \notin Terminal /\ scratch = Bad -> "failed"
    [] OTHER -> "merged"

Collected ==
  CASE journal \in Terminal -> journal
    [] journal \notin Terminal /\ scratch = None -> "waiting"
    [] journal \notin Terminal /\ scratch = Bad -> "failed"
    [] OTHER -> "merged"

Collects(p) ==
  /\ pc[p] \in {"idle", "collect"} /\ lock = None
  /\ journal' = Collected
  /\ pc' = [pc EXCEPT ![p] = "idle"]
  /\ UNCHANGED <<receipt, scratch, lock, job, transcript, handed, placed, raced, faults>>

Cancels(p) ==
  /\ pc[p] = "idle" /\ lock = None
  /\ journal \notin Terminal
  /\ journal' = "cancelled"
  /\ UNCHANGED <<receipt, scratch, lock, pc, job, transcript, handed, placed, raced, faults>>

Step(p) ==
  \/ \E transport \in Transport : Prepares(p, transport) \/ DiesPreparing(p, transport)
  \/ DeliverChecks(p) \/ DeliverStopsShort(p) \/ Claims(p) \/ Sends(p) \/ FailsToSend(p)
  \/ RecordsOutcome(p)
  \/ SocketReads(p) \/ SocketNotes(p) \/ SocketRaises(p)
  \/ SocketFindsSame(p) \/ SocketFindsNone(p) \/ SocketSkips(p) \/ SocketSeesNone(p)
  \/ SocketPlaces(p)
  \/ Collects(p) \/ Cancels(p)

-----------------------------------------------------------------------------
Fault == faults < MaxFault /\ faults' = faults + 1

Dies(p) ==
  /\ Fault
  /\ pc[p] # "idle"
  /\ Leave(p, "idle")
  /\ UNCHANGED <<receipt, journal, scratch, transcript, handed, placed, raced>>

(* write_state: the receipt is written, the process dies before the commit. *)
DiesWriting(p) ==
  /\ Fault
  /\ \/ /\ pc[p] = "resolving"
        /\ receipt' = [receipt EXCEPT !.work.state = "sending"]
     \/ /\ pc[p] \in Outcomes
        /\ receipt' = [receipt EXCEPT !.work.state = pc[p]]
     \/ /\ pc[p] = "read" /\ receipt.work.seen # job[p].at
        /\ receipt' = [receipt EXCEPT !.work.seen = job[p].at]
  /\ Leave(p, "idle")
  /\ UNCHANGED <<journal, scratch, transcript, handed, placed, raced>>

(* The human commits what is there, or checks out HEAD. *)
Repairs ==
  /\ Dirty(receipt)
  /\ receipt' \in {Committed(receipt.work), Committed(receipt.head)}
  /\ UNCHANGED <<journal, scratch, lock, pc, job, transcript, handed, placed, raced, faults>>

(* The application takes the frame at most once, sooner or later or never. *)
Writes(line) ==
  /\ Len(transcript) < MaxLines
  /\ line = "request" => handed > 0 /\ \A k \in 1..Len(transcript) : transcript[k] # "request"
  /\ transcript' = Append(transcript, line)
  /\ UNCHANGED <<receipt, journal, scratch, lock, pc, job, handed, placed, raced, faults>>

(* The seat, or anybody, writes the scratch file itself. *)
WritesScratch(c) ==
  /\ Fault
  /\ scratch = None
  /\ scratch' = c
  /\ raced' = \E p \in Proc : pc[p] = "placing"
  /\ UNCHANGED <<receipt, journal, lock, pc, job, transcript, handed, placed>>

Next ==
  \/ \E p \in Proc : Step(p) \/ Dies(p) \/ DiesWriting(p)
  \/ Repairs
  \/ \E line \in Line : Writes(line)
  \/ \E c \in Answer \cup {Bad} : WritesScratch(c)

Spec == Init /\ [][Next]_vars

-----------------------------------------------------------------------------
Reading == [at : Nat, upto : Nat]

TypeOK ==
  /\ receipt \in [work : Record \cup {None}, head : Record \cup {None}]
  /\ journal \in JournalState
  /\ scratch \in Answer \cup {Bad, None}
  /\ lock \in Proc \cup {None}
  /\ pc \in [Proc -> {"idle", "resolving", "sending", "read", "looked", "placing", "collect"}
                          \cup Outcomes]
  /\ job \in [Proc -> Reading]
  /\ transcript \in Seq(Line)
  /\ handed \in Nat
  /\ placed \in Reading
  /\ raced \in BOOLEAN
  /\ faults \in 0..MaxFault

(***************************************************************************)
(* Nothing is handed over twice, and while the receipt can still be, or be *)
(* reverted to, "prepared", nothing was handed over: a retry is safe       *)
(* exactly when deliver allows it ("every uncertain outcome permanently    *)
(* blocks resend").                                                        *)
(***************************************************************************)
Unclaimed(r) == r = None \/ r.state = "prepared"

RetryIsSafe ==
  /\ handed <= 1
  /\ Unclaimed(receipt.work) \/ Unclaimed(receipt.head) => handed = 0

(***************************************************************************)
(* The receipt is a one-shot: see OneShot.  What is committed counts.      *)
(***************************************************************************)
StageOf(r) ==
  CASE r = None -> "none"
    [] r # None /\ r.state = "prepared" -> "prepared"
    [] r # None /\ r.state = "sending" -> "claimed"
    [] OTHER -> "settled"

Promise == INSTANCE OneShot WITH stage <- StageOf(receipt.head), sent <- handed

ImplementsOneShot == Promise!Spec

(***************************************************************************)
(* Nothing leaves for an invocation that was cancelled or collected before *)
(* (the docs: deliver shares the lock of cancel and collect).              *)
(***************************************************************************)
NothingSentWhenOver == [][handed' # handed => journal \notin Terminal]_vars

(***************************************************************************)
(* What socket-collect put in scratch answers the request and was final    *)
(* when it was read: it lies after the request with no user input between, *)
(* and neither a hook's feedback nor more talk followed it in what had     *)
(* been read, unless the user had gone on to something else before.        *)
(***************************************************************************)
InputAt(k) == transcript[k] \in {"request", "user"}

CollectsTheReply ==
  placed.at # 0 =>
    /\ transcript[placed.at] \in Answer
    /\ \E m \in 1..(placed.at - 1) :
         /\ transcript[m] = "request"
         /\ \A k \in (m + 1)..(placed.at - 1) : ~InputAt(k)
    /\ \A k \in (placed.at + 1)..placed.upto :
         InputAt(k) \/ \E j \in (placed.at + 1)..k : InputAt(j)

(***************************************************************************)
(* A file in scratch is replaced only if it came between the last look and *)
(* the write of a socket-collect, which has the lock all the while; and    *)
(* never once the invocation is over, so that the file a merge took stays  *)
(* what is in scratch.                                                     *)
(***************************************************************************)
ScratchIsKept ==
  [][scratch # None /\ scratch' # scratch =>
       /\ journal \notin Terminal
       /\ raced /\ \E p \in Proc : pc[p] = "placing"]_vars
=============================================================================
