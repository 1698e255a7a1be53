---------------------------- MODULE SeatProcess -----------------------------
(***************************************************************************)
(* A Tier 1 relay and the process behind it: relay_codex.py, relay_grok.py *)
(* and relay_process.py, with the part of cli._cmd_dispatch that decides   *)
(* when the process is closed.                                             *)
(*                                                                         *)
(* The relay spawns the seat's agent, speaks JSON-RPC with it over a pipe  *)
(* (initialize; resume or start a thread; hand over the turn), and closes  *)
(* it.  The agent answers when it likes, late answers included, may exit   *)
(* at any time, and runs commands as child processes.  It has requests of  *)
(* its own: Grok's relay replies to them, Codex's does not tell them from  *)
(* answers.  One queue holds what every process of a relay has sent.       *)
(*                                                                         *)
(* A message is in "queue" from when the agent sends it: the relay's rpc   *)
(* may time out all the same, since the reader thread may not have read it.*)
(***************************************************************************)
EXTENDS Integers

CONSTANTS Thread,     \* conversations the agent can open
          None,       \* no conversation
          Platform,   \* "posix", "job" (a Windows job object), "nojob" (Windows without)
          AgentId,    \* ids Codex may give to requests of its own
          MaxProc,    \* bound on processes spawned
          MaxSend     \* bound on sends of one relay

Provider == {"codex", "grok"}

ASSUME SeatAssumption ==
  /\ None \notin Thread
  /\ Platform \subseteq {"posix", "job", "nojob"}
  /\ AgentId \subseteq Nat
  /\ MaxProc \in Nat \ {0} /\ MaxSend \in Nat \ {0}

VARIABLES
  provider, platform,  \* what kind of relay, and where it runs
  pc,        \* where send or its caller is; during an rpc, the method
  proc,      \* the relay's _proc: "none", "up", or "exited" (poll() is not None)
  gen,       \* how many processes it has spawned: the number of the last one
  tree,      \* the process in the relay's ProcessTree, 0 for none
  kids,      \* the processes whose child processes are running
  nextId, rid, \* the last id given, and that of the rpc in progress
  thread,    \* the seat's thread_ref
  loaded,    \* the relay's set of threads the process has loaded
  known,     \* the threads the process has loaded
  mistaken,  \* the threads taken for resumed on a request of the agent (history)
  made,      \* the threads that exist
  inbox,     \* requests the process has not dealt with
  queue,     \* what the agent has sent
  blocked,   \* the agent waits for the relay's reply to a request of its own
  accepted,  \* the turn requests the agent has accepted (history)
  sends      \* sends so far

vars == <<provider, platform, pc, proc, gen, tree, kids, nextId, rid, thread, loaded,
          known, mistaken, made, inbox, queue, blocked, accepted, sends>>

relay == <<nextId, rid, thread, loaded>>   \* the relay's memory
agent == <<known, mistaken, made, inbox, queue, blocked, accepted>>
fixed == <<provider, platform>>

Method == {"initialize", "resume", "start", "name", "turn"}

IsCodex == provider = "codex"

-----------------------------------------------------------------------------
Init ==
  /\ provider \in Provider /\ platform \in Platform
  /\ pc = "idle" /\ proc = "none" /\ gen = 0 /\ tree = 0 /\ kids = {}
  /\ nextId = 0 /\ rid = 0
  /\ thread \in Thread \cup {None}
  /\ made = IF thread = None THEN {} ELSE {thread}
  /\ loaded = {} /\ known = {} /\ mistaken = {} /\ inbox = {} /\ queue = {}
  /\ blocked = FALSE /\ accepted = {} /\ sends = 0

(* _rpc: the next id is taken and the request written; pc is the method. *)
Asks(method, t) ==
  /\ nextId' = nextId + 1 /\ rid' = nextId + 1
  /\ inbox' = inbox \cup {[id |-> nextId + 1, method |-> method, thread |-> t]}
  /\ pc' = method

(* The next request of a send, once the process is there. *)
Opens ==
  IF thread = None THEN Asks("start", None)
  ELSE IF thread \in loaded THEN Asks("turn", thread)
  ELSE Asks("resume", thread)

(* send() on a process that is running. *)
SendsAgain ==
  /\ pc = "idle" /\ sends < MaxSend /\ proc = "up"
  /\ sends' = sends + 1
  /\ Opens
  /\ UNCHANGED <<fixed, proc, gen, tree, kids, thread, loaded, known, mistaken, made, queue, blocked, accepted>>

(* Mutant: the set of loaded threads outlives the process. *)
SpawnsForgetful ==
  /\ pc = "idle" /\ sends < MaxSend /\ proc # "up" /\ gen < MaxProc
  /\ sends' = sends + 1
  /\ proc' = "up" /\ gen' = gen + 1 /\ tree' = gen + 1
  /\ known' = {} /\ mistaken' = {}
  /\ nextId' = nextId + 1 /\ rid' = nextId + 1 /\ pc' = "initialize"
  /\ inbox' = {[id |-> nextId + 1, method |-> "initialize", thread |-> None]}
  /\ UNCHANGED <<fixed, kids, thread, loaded, made, queue, blocked, accepted>>

(* Mutant: every process counts its ids from one. *)
SpawnsCountingAnew ==
  /\ pc = "idle" /\ sends < MaxSend /\ proc # "up" /\ gen < MaxProc
  /\ sends' = sends + 1
  /\ proc' = "up" /\ gen' = gen + 1 /\ tree' = gen + 1
  /\ loaded' = {} /\ known' = {} /\ mistaken' = {}
  /\ nextId' = 1 /\ rid' = 1 /\ pc' = "initialize"
  /\ inbox' = {[id |-> 1, method |-> "initialize", thread |-> None]}
  /\ UNCHANGED <<fixed, kids, thread, made, queue, blocked, accepted>>

(* send() with no process, or one that has exited: _ensure spawns. *)
Spawns ==
  /\ pc = "idle" /\ sends < MaxSend /\ proc # "up" /\ gen < MaxProc
  /\ sends' = sends + 1
  /\ proc' = "up" /\ gen' = gen + 1 /\ tree' = gen + 1
  /\ loaded' = {} /\ known' = {} /\ mistaken' = {}
  /\ nextId' = nextId + 1 /\ rid' = nextId + 1 /\ pc' = "initialize"
  /\ inbox' = {[id |-> nextId + 1, method |-> "initialize", thread |-> None]}
  /\ UNCHANGED <<fixed, kids, thread, made, queue, blocked, accepted>>

(* Popen raises, or there is no usable binary; the ProcessTree is a new one already. *)
SpawnFails ==
  /\ pc = "idle" /\ sends < MaxSend /\ proc # "up"
  /\ sends' = sends + 1
  /\ loaded' = {} /\ rid' = 0
  /\ pc' = "fails" /\ tree' = 0
  /\ UNCHANGED <<fixed, proc, gen, kids, nextId, thread, agent>>

-----------------------------------------------------------------------------
(* What send does with the message m that it takes for the answer to its    *)
(* rpc.  A request of the agent has neither error nor result: to Codex's    *)
(* relay it is an empty result, which it can use for initialize and resume. *)
AfterInitialize(m) ==
  IF m.kind = "ok" \/ (IsCodex /\ m.kind = "unusable") THEN Opens /\ UNCHANGED <<thread, loaded>>
  ELSE pc' = "fails" /\ UNCHANGED <<relay, inbox>>

AfterResume(m) ==
  CASE m.kind \in {"ok", "unusable"} ->
         loaded' = loaded \cup {thread} /\ Asks("turn", thread) /\ UNCHANGED thread
    [] m.kind = "notfound" /\ IsCodex ->
         thread' = None /\ Asks("start", None) /\ UNCHANGED loaded
    [] OTHER ->
         pc' = (IF IsCodex THEN "unknown" ELSE "fails") /\ UNCHANGED <<relay, inbox>>

AfterStart(m) ==
  IF m.kind = "ok"
    THEN /\ thread' = m.thread
         /\ loaded' = loaded \cup {m.thread}
         /\ IF IsCodex THEN Asks("name", m.thread) ELSE Asks("turn", m.thread)
    ELSE pc' = "fails" /\ UNCHANGED <<relay, inbox>>

AfterName == Asks("turn", thread) /\ UNCHANGED <<thread, loaded>>

AfterTurn(m) ==
  /\ pc' = CASE m.kind = "ok" -> "sent"
             [] m.kind = "unusable" -> (IF IsCodex THEN "unknown" ELSE "sent")
             [] OTHER -> "fails"
  /\ UNCHANGED <<relay, inbox>>

(* The rpc reads a message with its id, and looks at nothing but the id. *)
Hears(m) ==
  /\ pc \in Method /\ m.id = rid
  /\ queue' = queue \ {m}
  /\ CASE pc = "initialize" -> AfterInitialize(m)
       [] pc = "resume" -> AfterResume(m)
       [] pc = "start" -> AfterStart(m)
       [] pc = "name" -> AfterName
       [] pc = "turn" -> AfterTurn(m)
  /\ mistaken' = IF pc = "resume" /\ m.method = "request" THEN mistaken \cup {thread} ELSE mistaken
  /\ UNCHANGED <<fixed, proc, gen, tree, kids, known, made, blocked, accepted, sends>>

(* ... and drops any other. *)
Discards(m) ==
  /\ pc \in Method /\ m.id # rid
  /\ queue' = queue \ {m}
  /\ UNCHANGED <<fixed, pc, proc, gen, tree, kids, relay, known, mistaken, made, inbox, blocked, accepted, sends>>

(* Mutant: whatever becomes of turn/start, the seat falls back. *)
GivesUpBlindly ==
  /\ pc \in Method
  /\ IF pc = "name" THEN AfterName
     ELSE pc' = "fails" /\ UNCHANGED <<relay, inbox>>
  /\ UNCHANGED <<fixed, proc, gen, tree, kids, known, mistaken, made, queue, blocked, accepted, sends>>

(* No answer in time; or Grok's relay sees that the process has exited. *)
GivesUp ==
  /\ pc \in Method
  /\ IF pc = "name" THEN AfterName
     ELSE /\ pc' = IF IsCodex /\ pc \in {"resume", "turn"} THEN "unknown" ELSE "fails"
          /\ UNCHANGED <<relay, inbox>>
  /\ UNCHANGED <<fixed, proc, gen, tree, kids, known, mistaken, made, queue, blocked, accepted, sends>>

(* The pipe of an exited process is broken: the request cannot be written. *)
WriteFails ==
  /\ pc \in Method /\ proc = "exited"
  /\ \E r \in inbox : r.id = rid
  /\ pc' = IF IsCodex /\ pc = "turn" THEN "unknown" ELSE "fails"
  /\ UNCHANGED <<fixed, proc, gen, tree, kids, relay, agent, sends>>

-----------------------------------------------------------------------------
(* close(): what is running afterwards.  Terminating the process kills it    *)
(* alone; killing its tree, and closing a job object, kills its children.    *)
Gone(reaped) ==
  /\ proc' = "none" /\ loaded' = {} /\ known' = {} /\ mistaken' = {} /\ inbox' = {} /\ blocked' = FALSE
  /\ kids' = IF reaped THEN kids \ {tree} ELSE kids
  /\ UNCHANGED <<fixed, gen, tree, nextId, rid, thread, made, queue, accepted, sends>>

TreeCloseReaps == platform = "job"

(* Mutant: a process that has exited needs no closing. *)
ClosesExitedQuickly ==
  /\ proc # "up"
  /\ Gone(FALSE)

ClosesExited ==          \* nothing to terminate: tree.close() only
  /\ proc # "up"
  /\ Gone(TreeCloseReaps)

ClosesObedient ==        \* it exits on terminate: tree.close(), after Codex's kill_tree if unmanaged
  /\ proc = "up"
  /\ Gone(TreeCloseReaps \/ (IsCodex /\ platform = "nojob"))

ClosesStubborn ==        \* it does not: kill_tree, kill, tree.close()
  /\ proc = "up"
  /\ Gone(TRUE)

Closes == ClosesExited \/ ClosesObedient \/ ClosesStubborn

(* A RelayError: send closes the process and raises; the caller falls back. *)
Fails == pc = "fails" /\ pc' = "fellback" /\ Closes

(* The caller of a send that handed the turn over, perhaps, sends again ... *)
Continues ==
  /\ pc \in {"sent", "unknown", "fellback"}
  /\ pc' = "idle"
  /\ UNCHANGED <<fixed, proc, gen, tree, kids, relay, agent, sends>>

(* ... or, as dispatch does, waits for the answer until it comes, or is not *)
(* waited for any longer; dispatch --async does not wait for a turn it sent. *)
Collects ==
  /\ pc \in {"sent", "unknown", "fellback"}
  /\ pc' = "collected"
  /\ UNCHANGED <<fixed, proc, gen, tree, kids, relay, agent, sends>>

Leaves ==
  /\ pc \in {"sent", "fellback"}
  /\ pc' = "left"
  /\ UNCHANGED <<fixed, proc, gen, tree, kids, relay, agent, sends>>

(* dispatch's finally: _close_relay. *)
CallerCloses == pc = "collected" /\ pc' = "closed" /\ Closes

(* Python ends: its job object is closed with it, and so is the agent's stdin. *)
PythonEnds ==
  /\ pc \in {"closed", "left"}
  /\ pc' = "ended"
  /\ IF platform = "job" THEN kids' = {} /\ proc' = "none"
     ELSE UNCHANGED kids /\ proc' \in {proc, "none"}
  /\ UNCHANGED <<fixed, gen, tree, relay, agent, sends>>

-----------------------------------------------------------------------------
(* The agent deals with a request, and answers. *)
Replies(r, kind, t) ==
  /\ inbox' = inbox \ {r}
  /\ queue' = queue \cup {[id |-> r.id, method |-> r.method, gen |-> gen,
                           kind |-> kind, thread |-> t]}
  /\ UNCHANGED <<fixed, pc, proc, gen, tree, kids, relay, mistaken, blocked, sends>>

(* Certainly not accepted; only Grok reports that a turn failed which it had begun. *)
Refuses(r) ==
  /\ proc = "up" /\ ~blocked
  /\ IsCodex => r.id \notin accepted
  /\ \/ Replies(r, "error", None)
     \/ r.method \in {"resume", "turn"} /\ r.thread \notin known /\ Replies(r, "notfound", None)
  /\ UNCHANGED <<known, mistaken, made, accepted>>

Accepts(r) ==
  /\ proc = "up" /\ ~blocked
  /\ r.method = "turn" /\ r.thread \in known
  /\ accepted' = accepted \cup {r.id}
  /\ UNCHANGED <<fixed, pc, proc, gen, tree, kids, relay, known, mistaken, made, inbox, queue, blocked, sends>>

Serves(r) ==
  /\ proc = "up" /\ ~blocked
  /\ UNCHANGED accepted
  /\ CASE r.method = "start" ->
            \E t \in Thread \ made : /\ made' = made \cup {t}
                                     /\ known' = known \cup {t}
                                     /\ \/ Replies(r, "ok", t)
                                        \/ Replies(r, "unusable", None)
       [] r.method = "resume" ->
            r.thread \in made /\ known' = known \cup {r.thread} /\ UNCHANGED made
              /\ Replies(r, "ok", None)
       [] r.method = "turn" ->
            r.id \in accepted /\ UNCHANGED <<known, mistaken, made>>
              /\ \E kind \in {"ok", "unusable"} : Replies(r, kind, None)
       [] r.method = "initialize" ->
            UNCHANGED <<known, mistaken, made>>
              /\ \E kind \in {"ok", "unusable"} : Replies(r, kind, None)
       [] r.method = "name" -> UNCHANGED <<known, mistaken, made>> /\ Replies(r, "ok", None)

(* A command, or a helper of the agent, runs or ends. *)
RunsCommand ==
  /\ proc = "up" /\ ~blocked
  /\ kids' = kids \cup {gen}
  /\ UNCHANGED <<fixed, pc, proc, gen, tree, relay, agent, sends>>

CommandEnds(g) ==
  /\ kids' = kids \ {g}
  /\ UNCHANGED <<fixed, pc, proc, gen, tree, relay, agent, sends>>

(* The agent exits; its commands run on. *)
AgentExits ==
  /\ proc = "up"
  /\ proc' = "exited"
  /\ inbox' = {r \in inbox : r.id = rid} /\ blocked' = FALSE
  /\ UNCHANGED <<fixed, pc, gen, tree, kids, relay, known, mistaken, made, queue, accepted, sends>>

(* Grok asks for a permission, or anything else, while it works on the turn. *)
GrokAsks ==
  /\ ~IsCodex /\ proc = "up" /\ ~blocked
  /\ \E r \in inbox : r.id \in accepted
  /\ blocked' = TRUE
  /\ UNCHANGED <<fixed, pc, proc, gen, tree, kids, relay, known, mistaken, made, inbox, queue, accepted, sends>>

(* Codex asks for an approval, the time or anything else, under an id that *)
(* it counts itself.  Its reader thread queues that, and nobody replies.   *)
CodexAsks(k) ==
  /\ IsCodex /\ proc = "up"
  /\ \A r \in inbox : r.method # "initialize"
  /\ queue' = queue \cup {[id |-> k, method |-> "request", gen |-> gen,
                           kind |-> "unusable", thread |-> None]}
  /\ UNCHANGED <<fixed, pc, proc, gen, tree, kids, relay, known, mistaken, made, inbox>>
  /\ UNCHANGED <<blocked, accepted, sends>>

(* Grok's reader thread replies to it, whatever is asked. *)
ReaderReplies ==
  /\ blocked
  /\ blocked' = FALSE
  /\ UNCHANGED <<fixed, pc, proc, gen, tree, kids, relay, known, mistaken, made, inbox, queue, accepted, sends>>

Next ==
  \/ SendsAgain \/ Spawns \/ SpawnFails
  \/ \E m \in queue : Hears(m) \/ Discards(m)
  \/ GivesUp \/ WriteFails
  \/ Fails \/ Continues \/ Collects \/ Leaves \/ CallerCloses \/ PythonEnds
  \/ \E r \in inbox : Refuses(r) \/ Accepts(r) \/ Serves(r)
  \/ RunsCommand \/ AgentExits \/ GrokAsks \/ ReaderReplies
  \/ \E k \in AgentId : CodexAsks(k)
  \/ \E g \in kids : CommandEnds(g)

Spec == Init /\ [][Next]_vars
-----------------------------------------------------------------------------
(***************************************************************************)
(* What an rpc returns is the answer to its own request, given by the      *)
(* process that is running: neither a late answer, nor one of a former     *)
(* process left in the queue (_rpc_locked: the ids are never given twice). *)
(* Codex's rpc alone may take something else for it: a request the agent   *)
(* sent, now or before, under that id.  Grok's reader thread sorts those   *)
(* out.                                                                    *)
(***************************************************************************)
OwnAnswer ==
  [][\A m \in queue \ queue' : pc' # pc =>
       \/ m.method = pc /\ m.gen = gen
       \/ IsCodex /\ m.method = "request"]_vars

(***************************************************************************)
(* A turn goes only to a process that has its thread loaded: otherwise it  *)
(* is refused, and from the second round on every packet takes the         *)
(* clipboard (_loaded_threads against the life of the process).  Not so    *)
(* for a thread whose resume was never answered, a request of the agent    *)
(* having been taken for the answer.                                       *)
(***************************************************************************)
TurnFindsItsThread ==
  \A r \in inbox : r.method = "turn" => r.thread \in known \cup mistaken

(***************************************************************************)
(* When Codex's relay lets the caller fall back to the clipboard, the turn *)
(* of this send was not accepted, and will not be: the process is gone.    *)
(***************************************************************************)
FallsBackAlone ==
  pc = "fellback" =>
    /\ proc = "none" /\ inbox = {}
    /\ IsCodex => rid \notin accepted

(***************************************************************************)
(* In a job object nothing a dispatch has started outlives its close, be   *)
(* the agent running, stubborn or gone by itself (close, cli's finally).   *)
(* A child that the agent starts before adopt has put it into the job is   *)
(* not in the model: the spawn and adopt are one step here.                *)
(***************************************************************************)
LeavesNothing == pc = "closed" /\ sends = 1 => kids = {}

LeavesNothingInJob == platform = "job" => LeavesNothing
=============================================================================
