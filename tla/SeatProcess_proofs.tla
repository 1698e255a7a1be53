------------------------- MODULE SeatProcess_proofs -------------------------
(***************************************************************************)
(* The transport of a Tier 1 relay is sound for any number of sends,       *)
(* processes and threads: an rpc gets its own answer, or what Codex sends  *)
(* under its id; a turn finds its thread unless that was for a resume; a   *)
(* fallback is alone; a job object leaves nothing behind.                  *)
(***************************************************************************)
EXTENDS SeatProcess, TLAPS

(* An answer, not a request that Codex has sent and its relay has queued. *)
Own(m) == ~(IsCodex /\ m.method = "request")

(* Such a request has neither error nor result. *)
Asked == \A m \in queue : ~Own(m) => m.kind = "unusable"

(* Ids are given once; what is on its way has one that was given. *)
Ids ==
  /\ nextId \in Nat /\ rid \in 0..nextId
  /\ \A r \in inbox : r.id \in 1..nextId /\ r.method \in Method
  /\ \A m \in queue : Own(m) => m.id \in 1..nextId
  /\ accepted \subseteq 1..nextId

(* The rpc in progress: its request, or the answer to it. *)
OwnRequest ==
  pc \in Method => \A r \in inbox : r.id = rid =>
    r.method = pc /\ (pc \in {"resume", "name", "turn"} => r.thread = thread)

OwnAnswers ==
  pc \in Method => \A m \in queue : m.id = rid /\ Own(m) =>
    /\ m.method = pc /\ m.gen = gen
    /\ m.kind \in {"ok", "unusable"} /\ pc = "resume" => thread \in known
    /\ m.kind = "ok" /\ pc = "start"  => m.thread \in known

(* What the relay takes for loaded is loaded. *)
LoadedIsKnown ==
  loaded \subseteq known \cup mistaken /\ (pc = "name" => thread \in known)

TransportInv == Asked /\ Ids /\ OwnRequest /\ OwnAnswers /\ LoadedIsKnown /\ TurnFindsItsThread

-----------------------------------------------------------------------------
(* A new request of a send over a process that stays. *)
Requests ==
  /\ \E method \in {"start", "resume", "turn", "name"} :
       /\ Asks(method, IF method = "start" THEN None ELSE thread')
       /\ method = "name" => thread' \in known
       /\ method = "turn" => thread' \in known \cup mistaken'
  /\ loaded' \subseteq known \cup mistaken'
  /\ queue' \subseteq queue /\ mistaken \subseteq mistaken'
  /\ UNCHANGED <<provider, known, gen, accepted>>

(* Any other step of the relay on it: nothing is asked. *)
Rests ==
  /\ pc' \notin Method \/ pc' = pc
  /\ pc' = pc => UNCHANGED <<thread, gen, rid>>
  /\ rid' \in {0, rid} /\ nextId' = nextId
  /\ loaded' \subseteq loaded
  /\ inbox' \subseteq inbox /\ queue' \subseteq queue
  /\ UNCHANGED <<provider, accepted>>
  /\ \/ known' = known /\ mistaken \subseteq mistaken'
     \/ inbox' = {} /\ loaded' = {} /\ pc' \notin Method

(* A step of the agent: its answer, if any, is to a request. *)
Answers ==
  /\ UNCHANGED <<provider, pc, gen, nextId, rid, thread, loaded, mistaken>>
  /\ inbox' \subseteq inbox
  /\ known \subseteq known'
  /\ \A m \in queue' \ queue : \E r \in inbox :
       /\ m.id = r.id /\ m.method = r.method /\ m.gen = gen
       /\ m.kind \in {"ok", "unusable"} /\ r.method = "resume" => r.thread \in known'
       /\ m.kind = "ok" /\ r.method = "start"  => m.thread \in known'
  /\ accepted' \subseteq accepted \cup {r.id : r \in inbox}

(* Any request of a send preserves the invariant: its id is new. *)
LEMMA RequestStep == TransportInv /\ Requests => TransportInv'
<1> SUFFICES ASSUME TransportInv, Requests PROVE TransportInv'
  OBVIOUS
<1> USE DEF TransportInv
<1>1. PICK method \in {"start", "resume", "turn", "name"} :
        /\ Asks(method, IF method = "start" THEN None ELSE thread')
        /\ method = "name" => thread' \in known
        /\ method = "turn" => thread' \in known \cup mistaken'
  BY DEF Requests
<1> DEFINE t   == IF method = "start" THEN None ELSE thread'
           new == [id |-> nextId + 1, method |-> method, thread |-> t]
<1>2. /\ pc' = method /\ nextId' = nextId + 1 /\ rid' = nextId + 1
      /\ inbox' = inbox \cup {new}
      /\ queue' \subseteq queue /\ UNCHANGED <<provider, known, accepted>>
      /\ loaded' \subseteq known \cup mistaken' /\ mistaken \subseteq mistaken'
  BY <1>1 DEF Asks, Requests
<1>3. new.id = nextId + 1 /\ new.method = method /\ (method # "start" => new.thread = thread')
  OBVIOUS
<1> HIDE DEF new
<1>4. Asked' /\ Ids'
  BY <1>2, <1>3 DEF Asked, Ids, Own, IsCodex, Method
<1>5. /\ \A r \in inbox : r.id # nextId + 1
      /\ \A m \in queue : Own(m) => m.id # nextId + 1
  BY DEF Ids
<1>6. OwnRequest'
  BY <1>1, <1>2, <1>3, <1>5 DEF OwnRequest
<1>7. OwnAnswers'
  BY <1>2, <1>5 DEF OwnAnswers, Own, IsCodex
<1>8. LoadedIsKnown'
  BY <1>1, <1>2 DEF LoadedIsKnown
<1>9. TurnFindsItsThread'
  BY <1>1, <1>2, <1>3 DEF TurnFindsItsThread
<1>10. QED
  BY <1>4, <1>6, <1>7, <1>8, <1>9

LEMMA RestStep == TransportInv /\ Rests => TransportInv'
<1> SUFFICES ASSUME TransportInv, Rests PROVE TransportInv'
  OBVIOUS
<1> USE DEF TransportInv, Rests, Own, IsCodex
<1>1. Asked' /\ Ids'
  BY DEF Asked, Ids
<1>2. OwnRequest'
  BY DEF OwnRequest
<1>3. OwnAnswers'
  BY DEF OwnAnswers
<1>4. LoadedIsKnown'
  BY DEF LoadedIsKnown, Method
<1>5. TurnFindsItsThread'
  BY DEF TurnFindsItsThread
<1>6. QED
  BY <1>1, <1>2, <1>3, <1>4, <1>5

LEMMA AnswerStep == TransportInv /\ Answers => TransportInv'
<1> SUFFICES ASSUME TransportInv, Answers PROVE TransportInv'
  OBVIOUS
<1> USE DEF TransportInv, Answers
<1>1. Asked' /\ Ids'
  BY DEF Asked, Ids, Own, IsCodex, Method
<1>2. OwnRequest'
  BY DEF OwnRequest
<1>3. OwnAnswers'
  <2> SUFFICES ASSUME pc \in Method, NEW m \in queue', m.id = rid, Own(m)
               PROVE  /\ m.method = pc /\ m.gen = gen
                      /\ m.kind \in {"ok", "unusable"} /\ pc = "resume" => thread \in known'
                      /\ m.kind = "ok" /\ pc = "start"  => m.thread \in known'
    BY DEF OwnAnswers, Own, IsCodex
  <2>1. CASE m \in queue
    BY <2>1 DEF OwnAnswers
  <2>2. CASE m \notin queue
    BY <2>2 DEF OwnRequest
  <2>3. QED
    BY <2>1, <2>2
<1>4. LoadedIsKnown'
  BY DEF LoadedIsKnown
<1>5. TurnFindsItsThread'
  BY DEF TurnFindsItsThread
<1>6. QED
  BY <1>1, <1>2, <1>3, <1>4, <1>5

(* A request that Codex sends is in the queue with an id of Codex's choice. *)
LEMMA CodexAsksStep ==
  ASSUME TransportInv, NEW k \in AgentId, CodexAsks(k)
  PROVE  TransportInv'
<1> USE DEF TransportInv, CodexAsks, fixed, relay
<1> DEFINE request == [id |-> k, method |-> "request", gen |-> gen,
                       kind |-> "unusable", thread |-> None]
<1>1. queue' = queue \cup {request} /\ ~Own(request) /\ request.kind = "unusable"
  BY DEF Own
<1> HIDE DEF request
<1>2. UNCHANGED <<provider, pc, gen, nextId, rid, thread, loaded, known, mistaken, inbox, accepted>>
  OBVIOUS
<1>3. \A m \in queue' : Own(m)' = Own(m)
  BY <1>2 DEF Own, IsCodex
<1>4. Asked' /\ Ids' /\ OwnAnswers'
  BY <1>1, <1>2, <1>3 DEF Asked, Ids, OwnAnswers
<1>5. OwnRequest' /\ LoadedIsKnown' /\ TurnFindsItsThread'
  BY <1>2 DEF OwnRequest, LoadedIsKnown, TurnFindsItsThread
<1>6. QED
  BY <1>4, <1>5

(***************************************************************************)
(* Each action is one of these, but for the spawn of a process.      *)
(***************************************************************************)
LEMMA OpensRequests ==
  ASSUME LoadedIsKnown, Opens,
         UNCHANGED <<provider, thread, loaded, known, mistaken, gen, accepted>>, queue' \subseteq queue
  PROVE  Requests
BY DEF LoadedIsKnown, Opens, Requests

LEMMA HearsStep ==
  ASSUME TransportInv, NEW m \in queue, Hears(m)
  PROVE  Requests \/ Rests
<1> USE DEF TransportInv
<1>1. /\ pc \in Method /\ m.id = rid /\ queue' \subseteq queue
      /\ UNCHANGED <<provider, gen, known, accepted>> /\ mistaken \subseteq mistaken'
      /\ pc # "resume" => mistaken' = mistaken
  BY DEF Hears, fixed
<1>2. CASE pc = "initialize"
  <2>1. AfterInitialize(m)
    BY <1>2 DEF Hears
  <2>2. QED
    BY <1>1, <1>2, <2>1, OpensRequests DEF AfterInitialize, Rests, relay, Method
<1>3. CASE pc = "resume"
  <2>1. AfterResume(m)
    BY <1>3 DEF Hears
  <2>2. CASE m.kind \in {"ok", "unusable"}
    <3>1. loaded' = loaded \cup {thread} /\ Asks("turn", thread) /\ thread' = thread
      BY <1>3, <2>1, <2>2 DEF AfterResume
    <3>2. thread \in known \cup mistaken'
      <4>1. CASE Own(m)
        BY <1>1, <1>3, <2>2, <4>1 DEF OwnAnswers
      <4>2. CASE ~Own(m)
        BY <1>3, <4>2 DEF Own, Hears
      <4>3. QED
        BY <4>1, <4>2
    <3>3. QED
      BY <1>1, <3>1, <3>2 DEF Requests, LoadedIsKnown
  <2>3. CASE m.kind \notin {"ok", "unusable"} /\ m.kind = "notfound" /\ IsCodex
    <3>1. Asks("start", None) /\ loaded' = loaded
      BY <2>1, <2>3 DEF AfterResume
    <3>2. QED
      BY <1>1, <3>1 DEF Requests, LoadedIsKnown
  <2>4. CASE m.kind \notin {"ok", "unusable"} /\ ~(m.kind = "notfound" /\ IsCodex)
    <3>1. pc' \in {"unknown", "fails"} /\ UNCHANGED <<relay, inbox>>
      BY <2>1, <2>4 DEF AfterResume
    <3>2. QED
      BY <1>1, <1>3, <3>1 DEF Rests, relay, Method
  <2>5. QED
    BY <2>2, <2>3, <2>4
<1>4. CASE pc = "start"
  <2>1. AfterStart(m)
    BY <1>4 DEF Hears
  <2>2. CASE m.kind = "ok"
    <3>1. /\ m.thread \in known /\ thread' = m.thread /\ loaded' = loaded \cup {m.thread}
          /\ Asks("name", m.thread) \/ Asks("turn", m.thread)
      BY <1>1, <1>4, <2>1, <2>2 DEF AfterStart, OwnAnswers, Asked
    <3>2. QED
      BY <1>1, <3>1 DEF Requests, LoadedIsKnown
  <2>3. CASE m.kind # "ok"
    BY <1>1, <1>4, <2>1, <2>3 DEF AfterStart, Rests, relay, Method
  <2>4. QED
    BY <2>2, <2>3
<1>5. CASE pc = "name"
  <2>1. AfterName
    BY <1>5 DEF Hears
  <2>2. QED
    BY <1>1, <1>5, <2>1 DEF AfterName, Requests, LoadedIsKnown
<1>6. CASE pc = "turn"
  <2>1. AfterTurn(m)
    BY <1>6 DEF Hears
  <2>2. pc' \in {"sent", "unknown", "fails"} /\ UNCHANGED <<relay, inbox>>
    BY <2>1 DEF AfterTurn
  <2>3. QED
    BY <1>1, <1>6, <2>2 DEF Rests, relay, Method
<1>7. QED
  BY <1>1, <1>2, <1>3, <1>4, <1>5, <1>6 DEF Method

LEMMA GivesUpStep == ASSUME TransportInv, GivesUp PROVE Requests \/ Rests
<1> USE DEF TransportInv
<1>1. CASE pc = "name"
  BY <1>1 DEF GivesUp, AfterName, Requests, LoadedIsKnown, fixed
<1>2. CASE pc # "name"
  <2>1. pc' \in {"unknown", "fails"} /\ UNCHANGED <<provider, relay, agent, gen>> /\ pc \in Method
    BY <1>2 DEF GivesUp, agent, fixed
  <2>2. QED
    BY <2>1 DEF Rests, relay, agent, Method
<1>3. QED
  BY <1>1, <1>2

(* close() takes everything of the process with it. *)
LEMMA ClosesRests == ASSUME Closes, pc' \notin Method, pc' # pc PROVE Rests
<1>1. \E reaped \in BOOLEAN : Gone(reaped)
  BY DEF Closes, ClosesExited, ClosesObedient, ClosesStubborn, TreeCloseReaps, IsCodex
<1>2. QED
  BY <1>1 DEF Gone, Rests, fixed

LEMMA RelayRests ==
  ASSUME SpawnFails \/ WriteFails \/ Fails \/ Continues \/ Collects \/ Leaves
           \/ CallerCloses \/ PythonEnds
  PROVE  Rests
<1> USE DEF Rests, relay, agent, fixed, Method
<1>1. CASE SpawnFails
  BY <1>1 DEF SpawnFails
<1>2. CASE WriteFails
  BY <1>2 DEF WriteFails
<1>3. CASE Fails
  BY <1>3, ClosesRests DEF Fails
<1>4. CASE Continues \/ Collects \/ Leaves
  BY <1>4 DEF Continues, Collects, Leaves
<1>5. CASE CallerCloses
  BY <1>5, ClosesRests DEF CallerCloses
<1>6. CASE PythonEnds
  BY <1>6 DEF PythonEnds
<1>7. QED
  BY <1>1, <1>2, <1>3, <1>4, <1>5, <1>6

LEMMA AgentRests ==
  ASSUME (\E m \in queue : Discards(m)) \/ RunsCommand \/ AgentExits \/ GrokAsks
           \/ ReaderReplies \/ (\E g \in kids : CommandEnds(g)) \/ UNCHANGED vars
  PROVE  Rests
BY DEF Discards, RunsCommand, AgentExits, GrokAsks, ReaderReplies, CommandEnds, vars,
       relay, agent, fixed, Rests

LEMMA AgentAnswers ==
  ASSUME NEW r \in inbox, r.method \in Method, Refuses(r) \/ Accepts(r) \/ Serves(r)
  PROVE  Answers
<1> USE DEF relay, fixed, Answers
<1>1. ASSUME NEW kind, NEW t, Replies(r, kind, t),
             kind \in {"ok", "unusable"} /\ r.method = "resume" => r.thread \in known',
             kind = "ok" /\ r.method = "start"  => t \in known',
             known \subseteq known', accepted' = accepted
      PROVE  Answers
  BY <1>1 DEF Replies
<1>2. CASE Refuses(r)
  BY <1>1, <1>2 DEF Refuses
<1>3. CASE Accepts(r)
  BY <1>3 DEF Accepts
<1>4. CASE Serves(r)
  <2>1. CASE r.method = "start"
    BY <1>1, <1>4, <2>1 DEF Serves
  <2>2. CASE r.method = "resume"
    BY <1>1, <1>4, <2>2 DEF Serves
  <2>3. CASE r.method \notin {"start", "resume"}
    <3>1. \E kind \in {"ok", "unusable"} :
            Replies(r, kind, None) /\ known' = known /\ accepted' = accepted
      <4>1. CASE r.method = "turn"
        BY <1>4, <4>1 DEF Serves
      <4>2. CASE r.method = "initialize"
        BY <1>4, <4>2 DEF Serves
      <4>3. CASE r.method = "name"
        BY <1>4, <4>3 DEF Serves
      <4>4. QED
        BY <2>3, <4>1, <4>2, <4>3 DEF Method
    <3>2. QED
      BY <1>1, <2>3, <3>1
  <2>4. QED
    BY <2>1, <2>2, <2>3
<1>5. QED
  BY <1>2, <1>3, <1>4

(* A new process knows nothing, and is asked under a new id. *)
LEMMA SpawnStep == TransportInv /\ Spawns => TransportInv'
<1> SUFFICES ASSUME TransportInv, Spawns PROVE TransportInv'
  OBVIOUS
<1> USE DEF TransportInv
<1> DEFINE new == [id |-> nextId + 1, method |-> "initialize", thread |-> None]
<1>1. /\ inbox' = {new} /\ nextId' = nextId + 1 /\ rid' = nextId + 1 /\ pc' = "initialize"
      /\ loaded' = {} /\ UNCHANGED <<provider, queue, accepted>>
  BY DEF Spawns, fixed
<1>2. new.id = nextId + 1 /\ new.method = "initialize"
  OBVIOUS
<1> HIDE DEF new
<1>3. Asked' /\ Ids'
  BY <1>1, <1>2 DEF Asked, Ids, Own, IsCodex, Method
<1>4. \A m \in queue : Own(m) => m.id # nextId + 1
  BY DEF Ids
<1>5. QED
  BY <1>1, <1>2, <1>3, <1>4 DEF Own, IsCodex, OwnRequest, OwnAnswers, LoadedIsKnown, TurnFindsItsThread

LEMMA TransportStep == TransportInv /\ [Next]_vars => TransportInv'
<1> SUFFICES ASSUME TransportInv, [Next]_vars PROVE TransportInv'
  OBVIOUS
<1>1. CASE SendsAgain
  BY <1>1, OpensRequests, RequestStep DEF SendsAgain, TransportInv, fixed
<1>2. CASE Spawns
  BY <1>2, SpawnStep
<1>3. ASSUME NEW m \in queue, Hears(m) PROVE TransportInv'
  BY <1>3, HearsStep, RequestStep, RestStep
<1>4. CASE GivesUp
  BY <1>4, GivesUpStep, RequestStep, RestStep
<1>5. ASSUME NEW r \in inbox, Refuses(r) \/ Accepts(r) \/ Serves(r) PROVE TransportInv'
  <2>1. r.method \in Method
    BY DEF TransportInv, Ids
  <2>2. QED
    BY <1>5, <2>1, AgentAnswers, AnswerStep
<1>6. CASE SpawnFails \/ WriteFails \/ Fails \/ Continues \/ Collects \/ Leaves
             \/ CallerCloses \/ PythonEnds
  BY <1>6, RelayRests, RestStep
<1>7. CASE (\E m \in queue : Discards(m)) \/ RunsCommand \/ AgentExits \/ GrokAsks
             \/ ReaderReplies \/ (\E g \in kids : CommandEnds(g)) \/ UNCHANGED vars
  BY <1>7, AgentRests, RestStep
<1>8. ASSUME NEW k \in AgentId, CodexAsks(k) PROVE TransportInv'
  BY <1>8, CodexAsksStep
<1>9. QED
  BY <1>1, <1>2, <1>3, <1>4, <1>5, <1>6, <1>7, <1>8 DEF Next

(***************************************************************************)
(* The inductive invariant of the transport: ids are fresh, the rpc in     *)
(* progress meets its own answer or a request of Codex with its id, and    *)
(* what is taken for loaded is, unless such a request was taken for the    *)
(* answer to resume.                                                       *)
(***************************************************************************)
THEOREM Transport == Spec => []TransportInv
<1>1. Init => TransportInv
  BY DEF Init, TransportInv, Asked, Ids, OwnRequest, OwnAnswers, LoadedIsKnown, TurnFindsItsThread, Method
<1>2. QED
  BY <1>1, TransportStep, PTL DEF Spec

(***************************************************************************)
(* A turn is only ever waiting at a process that has its thread loaded,    *)
(* whatever was resumed, started, timed out or respawned before, but for a *)
(* thread whose resume a request of the agent seemed to answer.            *)
(***************************************************************************)
THEOREM TurnsFindTheirThread == Spec => []TurnFindsItsThread
BY Transport, PTL DEF TransportInv

(***************************************************************************)
(* The answer an rpc acts upon is the running process's to this rpc: no    *)
(* late answer of an earlier rpc, or of an earlier process, is taken.  For *)
(* Codex it may be a request that the agent has sent under the same id.    *)
(***************************************************************************)
THEOREM AnswersAreOwn == Spec => OwnAnswer
<1> DEFINE Taken == \A m \in queue \ queue' : pc' # pc =>
                      \/ m.method = pc /\ m.gen = gen
                      \/ IsCodex /\ m.method = "request"
<1>1. TransportInv /\ [Next]_vars => [Taken]_vars
  <2> SUFFICES ASSUME TransportInv, Next, NEW x \in queue \ queue', pc' # pc
               PROVE  \/ x.method = pc /\ x.gen = gen
                      \/ IsCodex /\ x.method = "request"
    OBVIOUS
  <2>1. PICK m \in queue : Hears(m)
    <3>1. CASE SendsAgain \/ Spawns \/ SpawnFails \/ GivesUp \/ WriteFails \/ Continues
                 \/ Collects \/ Leaves \/ PythonEnds
      BY <3>1 DEF SendsAgain, Spawns, SpawnFails, GivesUp, WriteFails, Continues, Collects,
                  Leaves, PythonEnds, agent
    <3>2. CASE Fails \/ CallerCloses
      BY <3>2 DEF Fails, CallerCloses, Closes, ClosesExited, ClosesObedient, ClosesStubborn, Gone
    <3>3. ASSUME NEW r \in inbox, Refuses(r) \/ Accepts(r) \/ Serves(r) PROVE FALSE
      <4>1. r.method \in Method
        BY DEF TransportInv, Ids
      <4>2. QED
        BY <3>3, <4>1, AgentAnswers DEF Answers
    <3>4. CASE (\E m \in queue : Discards(m)) \/ RunsCommand \/ AgentExits \/ GrokAsks
                 \/ ReaderReplies \/ (\E g \in kids : CommandEnds(g))
                 \/ \E k \in AgentId : CodexAsks(k)
      BY <3>4 DEF Discards, RunsCommand, AgentExits, GrokAsks, ReaderReplies, CommandEnds, CodexAsks
    <3>5. QED
      BY <3>1, <3>2, <3>3, <3>4 DEF Next
  <2>2. x = m /\ m.id = rid /\ pc \in Method
    BY <2>1 DEF Hears
  <2>3. QED
    BY <2>2 DEF TransportInv, OwnAnswers, Own
<1>2. QED
  BY <1>1, Transport, PTL DEF Spec, OwnAnswer

-----------------------------------------------------------------------------
(* In a job object, over one send: only its process has commands. *)
JobInv ==
  /\ sends \in Nat
  /\ platform = "job" =>
       /\ sends = 0 => proc = "none" /\ kids = {}
       /\ sends = 1 => kids \subseteq {tree} /\ (proc = "up" => tree = gen)
       /\ sends = 1 /\ pc = "closed" => kids = {} /\ proc = "none"

(* What the agent serves it answers. *)
LEMMA ServesReplies ==
  ASSUME NEW r \in inbox, r.method \in Method, Serves(r)
  PROVE  /\ proc = "up" /\ accepted' = accepted
         /\ \E kind \in {"ok", "unusable"} : \E t : Replies(r, kind, t)
<1>1. proc = "up" /\ accepted' = accepted
  BY DEF Serves
<1>2. CASE r.method = "start"
  BY <1>2 DEF Serves
<1>3. CASE r.method = "resume"
  BY <1>3 DEF Serves
<1>4. CASE r.method = "turn"
  BY <1>4 DEF Serves
<1>5. CASE r.method = "initialize"
  BY <1>5 DEF Serves
<1>6. CASE r.method = "name"
  BY <1>6 DEF Serves
<1>7. QED
  BY <1>1, <1>2, <1>3, <1>4, <1>5, <1>6 DEF Method

LEMMA JobStep == TransportInv /\ JobInv /\ [Next]_vars => JobInv'
<1> SUFFICES ASSUME TransportInv, JobInv, [Next]_vars PROVE JobInv'
  OBVIOUS
<1> USE DEF JobInv, fixed
<1>1. CASE SendsAgain \/ Spawns \/ SpawnFails
  BY <1>1 DEF SendsAgain, Opens, Asks, Spawns, SpawnFails
<1>2. ASSUME NEW m \in queue, Hears(m) PROVE JobInv'
  <2>1. pc' # "closed"
    BY <1>2 DEF Hears, AfterInitialize, AfterResume, AfterStart, AfterName, AfterTurn, Opens,
                Asks, Method
  <2>2. QED
    BY <1>2, <2>1 DEF Hears
<1>3. CASE GivesUp
  BY <1>3 DEF GivesUp, AfterName, Asks
<1>4. CASE Fails \/ CallerCloses
  <2>1. \E reaped \in BOOLEAN : Gone(reaped) /\ (platform = "job" => reaped)
    BY <1>4 DEF Fails, CallerCloses, Closes, ClosesExited, ClosesObedient, ClosesStubborn,
                TreeCloseReaps, IsCodex
  <2>2. QED
    BY <2>1 DEF Gone
<1>5. CASE WriteFails \/ Continues \/ Collects \/ Leaves
  BY <1>5 DEF WriteFails, Continues, Collects, Leaves
<1>6. CASE PythonEnds
  BY <1>6 DEF PythonEnds
<1>7. ASSUME NEW r \in inbox, Refuses(r) \/ Accepts(r) \/ Serves(r) PROVE JobInv'
  <2>1. UNCHANGED <<platform, pc, proc, gen, tree, kids, sends>>
    <3>1. r.method \in Method
      BY DEF TransportInv, Ids
    <3>2. QED
      BY <1>7, <3>1, ServesReplies DEF Refuses, Accepts, Replies
  <2>2. QED
    BY <2>1
<1>8. CASE (\E m \in queue : Discards(m)) \/ RunsCommand \/ AgentExits \/ GrokAsks
             \/ ReaderReplies \/ (\E g \in kids : CommandEnds(g)) \/ UNCHANGED vars
  BY <1>8 DEF Discards, RunsCommand, AgentExits, GrokAsks, ReaderReplies, CommandEnds, vars
<1>9. CASE \E k \in AgentId : CodexAsks(k)
  BY <1>9 DEF CodexAsks
<1>10. QED
  BY <1>1, <1>2, <1>3, <1>4, <1>5, <1>6, <1>7, <1>8, <1>9 DEF Next

(***************************************************************************)
(* On a job object a dispatch leaves no command running when it has closed *)
(* its relay, whichever way the agent ended.                               *)
(***************************************************************************)
THEOREM JobsLeaveNothing == Spec => []LeavesNothingInJob
<1>1. Init => JobInv
  BY DEF Init, JobInv
<1>2. JobInv => LeavesNothingInJob
  BY DEF JobInv, LeavesNothingInJob, LeavesNothing
<1>3. QED
  BY <1>1, <1>2, JobStep, Transport, PTL DEF Spec

-----------------------------------------------------------------------------
(* Every request has an id of its own, and no answer before it is dealt with. *)
Fresh ==
  /\ \A r, s \in inbox : r.id = s.id => r = s
  /\ \A r \in inbox, m \in queue : Own(m) => r.id # m.id

(* Codex refuses only what it has not accepted. *)
RefusedIsLeft ==
  IsCodex => \A m \in queue : m.kind \notin {"ok", "unusable"} => m.id \notin accepted

(* Until the turn is asked nothing is accepted; after a refusal nothing will be. *)
NotAccepted ==
  IsCodex =>
    /\ pc \in Method \ {"turn"} => rid \notin accepted
    /\ pc = "fails" => rid \notin accepted /\ \A r \in inbox : r.id = rid => r.method # "turn"

FallbackInv == Fresh /\ RefusedIsLeft /\ NotAccepted /\ FallsBackAlone

(* A step that asks something new, at a process that may be new. *)
LEMMA AskKeepsFallback ==
  ASSUME TransportInv, FallbackInv, NEW old, old \subseteq inbox, NEW new,
         new.id = nextId + 1, inbox' = old \cup {new}, rid' = nextId + 1,
         queue' \subseteq queue, accepted' = accepted, provider' = provider,
         pc' \in Method
  PROVE  FallbackInv'
<1> USE DEF FallbackInv
<1>1. /\ \A r \in inbox : r.id # nextId + 1
      /\ \A m \in queue : Own(m) => m.id # nextId + 1
  BY DEF TransportInv, Ids
<1>2. nextId + 1 \notin accepted
  BY DEF TransportInv, Ids
<1>3. Fresh'
  BY <1>1 DEF Fresh, Own, IsCodex
<1>4. RefusedIsLeft'
  BY DEF RefusedIsLeft, IsCodex
<1>5. NotAccepted' /\ FallsBackAlone'
  BY <1>2 DEF NotAccepted, FallsBackAlone, Method
<1>6. QED
  BY <1>3, <1>4, <1>5

(* A step that asks nothing and answers nothing, and ends in no fallback. *)
LEMMA QuietKeepsFallback ==
  ASSUME FallbackInv, inbox' \subseteq inbox, queue' \subseteq queue,
         accepted' = accepted, provider' = provider, pc' \notin {"fellback"} \cup Method,
         IsCodex /\ pc' = "fails" =>
           rid' \notin accepted /\ \A r \in inbox : r.id = rid' => r.method # "turn"
  PROVE  FallbackInv'
<1> USE DEF FallbackInv
<1>1. Fresh'
  BY DEF Fresh, Own, IsCodex
<1>2. RefusedIsLeft'
  BY DEF RefusedIsLeft, IsCodex
<1>3. NotAccepted' /\ FallsBackAlone'
  BY DEF NotAccepted, FallsBackAlone, IsCodex
<1>4. QED
  BY <1>1, <1>2, <1>3

(* A step that leaves the relay where it is. *)
LEMMA SameKeepsFallback ==
  ASSUME FallbackInv, inbox' \subseteq inbox, queue' \subseteq queue,
         UNCHANGED <<accepted, provider, pc, rid>>, proc' = proc \/ proc # "none"
  PROVE  FallbackInv'
<1> USE DEF FallbackInv
<1>1. Fresh'
  BY DEF Fresh, Own, IsCodex
<1>2. RefusedIsLeft'
  BY DEF RefusedIsLeft, IsCodex
<1>3. NotAccepted' /\ FallsBackAlone'
  BY DEF NotAccepted, FallsBackAlone, IsCodex
<1>4. QED
  BY <1>1, <1>2, <1>3

(* The answer to a request takes its place. *)
LEMMA ReplyKeepsFallback ==
  ASSUME FallbackInv, NEW r \in inbox, NEW kind, NEW t, Replies(r, kind, t),
         accepted' = accepted, proc = "up",
         IsCodex /\ kind \notin {"ok", "unusable"} => r.id \notin accepted
  PROVE  FallbackInv'
<1> USE DEF FallbackInv
<1> DEFINE answer == [id |-> r.id, method |-> r.method, gen |-> gen, kind |-> kind, thread |-> t]
<1>1. /\ inbox' = inbox \ {r} /\ queue' = queue \cup {answer}
      /\ UNCHANGED <<provider, pc, rid, proc, accepted>>
  BY DEF Replies, fixed, relay
<1>2. answer.id = r.id /\ answer.kind = kind
  OBVIOUS
<1> HIDE DEF answer
<1>3. Fresh'
  BY <1>1, <1>2 DEF Fresh, Own, IsCodex
<1>4. RefusedIsLeft'
  BY <1>1, <1>2 DEF RefusedIsLeft, IsCodex
<1>5. NotAccepted' /\ FallsBackAlone'
  BY <1>1 DEF NotAccepted, FallsBackAlone, IsCodex
<1>6. QED
  BY <1>3, <1>4, <1>5

LEMMA AsksKeepsFallback ==
  ASSUME TransportInv, FallbackInv, NEW method \in Method, NEW t, Asks(method, t),
         queue' \subseteq queue, accepted' = accepted, provider' = provider
  PROVE  FallbackInv'
<1> DEFINE new == [id |-> nextId + 1, method |-> method, thread |-> t]
<1>1. inbox' = inbox \cup {new} /\ rid' = nextId + 1 /\ pc' = method
  BY DEF Asks
<1>2. new.id = nextId + 1
  OBVIOUS
<1> HIDE DEF new
<1>3. QED
  BY <1>1, <1>2, AskKeepsFallback

LEMMA OpensAsks ==
  ASSUME Opens PROVE \E method \in Method, t \in {None, thread} : Asks(method, t)
BY DEF Opens, Method

(* An answer leads to the next request, or to the end of the send. *)
LEMMA HearsEnds ==
  ASSUME NEW m \in queue, Hears(m)
  PROVE  \/ \E method \in Method : \E t : Asks(method, t)
         \/ /\ pc' \in {"sent", "unknown", "fails"} /\ UNCHANGED <<relay, inbox>>
            /\ pc = "turn" /\ pc' = "fails" => m.kind \notin {"ok", "unusable"}
<1>1. CASE pc = "initialize"
  <2>1. AfterInitialize(m)
    BY <1>1 DEF Hears
  <2>2. QED
    BY <1>1, <2>1, OpensAsks DEF AfterInitialize
<1>2. CASE pc = "resume"
  <2>1. AfterResume(m)
    BY <1>2 DEF Hears
  <2>2. CASE m.kind \in {"ok", "unusable"}
    BY <2>1, <2>2 DEF AfterResume, Method
  <2>3. CASE m.kind \notin {"ok", "unusable"} /\ m.kind = "notfound" /\ IsCodex
    BY <2>1, <2>3 DEF AfterResume, Method
  <2>4. CASE m.kind \notin {"ok", "unusable"} /\ ~(m.kind = "notfound" /\ IsCodex)
    BY <1>2, <2>1, <2>4 DEF AfterResume
  <2>5. QED
    BY <2>2, <2>3, <2>4
<1>3. CASE pc = "start"
  <2>1. AfterStart(m)
    BY <1>3 DEF Hears
  <2>2. QED
    BY <1>3, <2>1 DEF AfterStart, Method
<1>4. CASE pc = "name"
  <2>1. AfterName
    BY <1>4 DEF Hears
  <2>2. QED
    BY <2>1 DEF AfterName, Method
<1>5. CASE pc = "turn"
  <2>1. AfterTurn(m)
    BY <1>5 DEF Hears
  <2>2. QED
    BY <2>1 DEF AfterTurn
<1>6. pc \in Method
  BY DEF Hears
<1>7. QED
  BY <1>1, <1>2, <1>3, <1>4, <1>5, <1>6 DEF Method

LEMMA HearsKeepsFallback ==
  ASSUME TransportInv, FallbackInv, NEW m \in queue, Hears(m)
  PROVE  FallbackInv'
<1>1. /\ pc \in Method /\ m.id = rid /\ queue' \subseteq queue
      /\ accepted' = accepted /\ provider' = provider
  BY DEF Hears, fixed
<1>2. CASE \E method \in Method : \E t : Asks(method, t)
  BY <1>1, <1>2, AsksKeepsFallback
<1>3. CASE /\ pc' \in {"sent", "unknown", "fails"} /\ UNCHANGED <<relay, inbox>>
           /\ pc = "turn" /\ pc' = "fails" => m.kind \notin {"ok", "unusable"}
  <2>1. rid' = rid /\ inbox' = inbox /\ pc' \notin {"fellback"} \cup Method
    BY <1>3 DEF relay, Method
  <2>2. ASSUME IsCodex, pc' = "fails"
        PROVE  rid \notin accepted /\ \A r \in inbox : r.id = rid => r.method # "turn"
    <3>1. CASE pc = "turn"
      <4>1. m.kind \notin {"ok", "unusable"} /\ Own(m)
        BY <1>3, <2>2, <3>1 DEF TransportInv, Asked
      <4>2. QED
        BY <1>1, <2>2, <4>1 DEF FallbackInv, Fresh, RefusedIsLeft
    <3>2. CASE pc # "turn"
      BY <1>1, <2>2, <3>2 DEF FallbackInv, NotAccepted, TransportInv, OwnRequest
    <3>3. QED
      BY <3>1, <3>2
  <2>3. QED
    BY <1>1, <2>1, <2>2, QuietKeepsFallback
<1>4. QED
  BY <1>2, <1>3, HearsEnds

(* An rpc that gets no answer, or cannot be written: Codex's turn is unknown. *)
LEMMA SilenceKeepsFallback ==
  ASSUME TransportInv, FallbackInv, GivesUp \/ WriteFails
  PROVE  FallbackInv'
<1>1. CASE GivesUp /\ pc = "name"
  <2>1. /\ Asks("turn", thread)
        /\ UNCHANGED <<queue, accepted, provider>>
    BY <1>1 DEF GivesUp, AfterName, fixed
  <2>2. QED
    BY <2>1, AsksKeepsFallback DEF Method
<1>2. CASE WriteFails \/ (GivesUp /\ pc # "name")
  <2>1. /\ pc \in Method /\ pc' \in {"unknown", "fails"}
        /\ IsCodex /\ pc' = "fails" => pc # "turn"
        /\ UNCHANGED <<relay, inbox, queue, accepted, provider>>
    BY <1>2 DEF WriteFails, GivesUp, agent, fixed
  <2>2. rid' = rid /\ pc' \notin {"fellback"} \cup Method
    BY <2>1 DEF relay, Method
  <2>3. ASSUME IsCodex, pc' = "fails"
        PROVE  rid \notin accepted /\ \A r \in inbox : r.id = rid => r.method # "turn"
    BY <2>1, <2>3 DEF FallbackInv, NotAccepted, TransportInv, OwnRequest
  <2>4. QED
    BY <2>1, <2>2, <2>3, QuietKeepsFallback
<1>3. QED
  BY <1>1, <1>2

(* close(): the process is gone, and with it what it was asked. *)
LEMMA CloseKeepsFallback ==
  ASSUME FallbackInv, Fails \/ CallerCloses
  PROVE  FallbackInv'
<1> USE DEF FallbackInv
<1>1. PICK reaped \in BOOLEAN : Gone(reaped)
  BY DEF Fails, CallerCloses, Closes, ClosesExited, ClosesObedient, ClosesStubborn,
         TreeCloseReaps, IsCodex
<1>2. /\ proc' = "none" /\ inbox' = {}
      /\ UNCHANGED <<provider, rid, queue, accepted>>
  BY <1>1 DEF Gone, fixed
<1>3. (pc = "fails" /\ pc' = "fellback") \/ pc' = "closed"
  BY DEF Fails, CallerCloses
<1>4. Fresh' /\ RefusedIsLeft'
  BY <1>2 DEF Fresh, RefusedIsLeft, IsCodex
<1>5. NotAccepted' /\ FallsBackAlone'
  BY <1>2, <1>3 DEF NotAccepted, FallsBackAlone, IsCodex, Method
<1>6. QED
  BY <1>4, <1>5

(* The agent accepts a turn it was asked: of this send, if the id is rid. *)
LEMMA AcceptsKeepsFallback ==
  ASSUME TransportInv, FallbackInv, NEW r \in inbox, Accepts(r)
  PROVE  FallbackInv'
<1> USE DEF FallbackInv
<1>1. /\ r.method = "turn" /\ accepted' = accepted \cup {r.id} /\ proc = "up"
      /\ UNCHANGED <<provider, pc, rid, proc, inbox, queue>>
  BY DEF Accepts, fixed, relay
<1>2. Fresh'
  BY <1>1 DEF Fresh, Own, IsCodex
<1>3. RefusedIsLeft'
  BY <1>1 DEF RefusedIsLeft, Fresh, TransportInv, Asked, Own, IsCodex
<1>4. NotAccepted'
  BY <1>1 DEF NotAccepted, TransportInv, OwnRequest, IsCodex
<1>5. FallsBackAlone'
  BY <1>1 DEF FallsBackAlone
<1>6. QED
  BY <1>2, <1>3, <1>4, <1>5

LEMMA FallbackStep == TransportInv /\ FallbackInv /\ [Next]_vars => FallbackInv'
<1> SUFFICES ASSUME TransportInv, FallbackInv, [Next]_vars PROVE FallbackInv'
  OBVIOUS
<1>1. CASE SendsAgain
  BY <1>1, OpensAsks, AsksKeepsFallback DEF SendsAgain, fixed
<1>2. CASE Spawns
  <2> DEFINE new == [id |-> nextId + 1, method |-> "initialize", thread |-> None]
  <2>1. /\ inbox' = {} \cup {new} /\ rid' = nextId + 1 /\ pc' = "initialize"
        /\ UNCHANGED <<queue, accepted, provider>>
    BY <1>2 DEF Spawns, fixed
  <2>2. new.id = nextId + 1
    OBVIOUS
  <2> HIDE DEF new
  <2>3. QED
    BY <2>1, <2>2, AskKeepsFallback DEF Method
<1>3. CASE SpawnFails
  <2>1. /\ rid' = 0 /\ pc' = "fails"
        /\ UNCHANGED <<inbox, queue, accepted, provider>>
    BY <1>3 DEF SpawnFails, agent, fixed
  <2>2. 0 \notin accepted /\ \A r \in inbox : r.id # 0
    BY DEF TransportInv, Ids
  <2>3. QED
    BY <2>1, <2>2, QuietKeepsFallback DEF Method
<1>4. ASSUME NEW m \in queue, Hears(m) PROVE FallbackInv'
  BY <1>4, HearsKeepsFallback
<1>5. CASE GivesUp \/ WriteFails
  BY <1>5, SilenceKeepsFallback
<1>6. CASE Fails \/ CallerCloses
  BY <1>6, CloseKeepsFallback
<1>7. CASE Continues \/ Collects \/ Leaves \/ PythonEnds
  <2>1. /\ pc' \in {"idle", "collected", "left", "ended"}
        /\ UNCHANGED <<inbox, queue, accepted, provider>>
    BY <1>7 DEF Continues, Collects, Leaves, PythonEnds, agent, fixed
  <2>2. QED
    BY <2>1, QuietKeepsFallback DEF Method
<1>8. ASSUME NEW r \in inbox, Refuses(r) PROVE FallbackInv'
  <2>1. /\ proc = "up" /\ accepted' = accepted /\ (IsCodex => r.id \notin accepted)
        /\ \E kind \in {"error", "notfound"} : Replies(r, kind, None)
    BY <1>8 DEF Refuses
  <2>2. QED
    BY <2>1, ReplyKeepsFallback
<1>9. ASSUME NEW r \in inbox, Accepts(r) PROVE FallbackInv'
  BY <1>9, AcceptsKeepsFallback
<1>10. ASSUME NEW r \in inbox, Serves(r) PROVE FallbackInv'
  <2>1. r.method \in Method
    BY DEF TransportInv, Ids
  <2>2. QED
    BY <1>10, <2>1, ServesReplies, ReplyKeepsFallback
<1>11. CASE (\E m \in queue : Discards(m)) \/ RunsCommand \/ AgentExits \/ GrokAsks
              \/ ReaderReplies \/ (\E g \in kids : CommandEnds(g)) \/ UNCHANGED vars
  <2>1. /\ inbox' \subseteq inbox /\ queue' \subseteq queue
        /\ UNCHANGED <<accepted, provider, pc, rid>> /\ (proc' = proc \/ proc # "none")
    BY <1>11 DEF Discards, RunsCommand, AgentExits, GrokAsks, ReaderReplies, CommandEnds,
                 vars, relay, agent, fixed
  <2>2. QED
    BY <2>1, SameKeepsFallback
<1>12. ASSUME NEW k \in AgentId, CodexAsks(k) PROVE FallbackInv'
  <2> DEFINE request == [id |-> k, method |-> "request", gen |-> gen,
                         kind |-> "unusable", thread |-> None]
  <2>1. /\ queue' = queue \cup {request} /\ ~Own(request) /\ request.kind = "unusable"
        /\ UNCHANGED <<provider, pc, proc, rid, inbox, accepted>>
    BY <1>12 DEF CodexAsks, fixed, relay, Own
  <2> HIDE DEF request
  <2>2. Fresh' /\ RefusedIsLeft' /\ NotAccepted' /\ FallsBackAlone'
    BY <2>1 DEF FallbackInv, Fresh, RefusedIsLeft, NotAccepted, FallsBackAlone, Own, IsCodex
  <2>3. QED
    BY <2>2 DEF FallbackInv
<1>13. QED
  BY <1>1, <1>2, <1>3, <1>4, <1>5, <1>6, <1>7, <1>8, <1>9, <1>10, <1>11, <1>12 DEF Next

(***************************************************************************)
(* When the relay lets its caller fall back to the clipboard the process   *)
(* is gone, and Codex has not accepted the turn of this send: it is not    *)
(* handed over twice.                                                      *)
(***************************************************************************)
THEOREM FallbacksAreAlone == Spec => []FallsBackAlone
<1>1. Init => FallbackInv
  BY DEF Init, FallbackInv, Fresh, RefusedIsLeft, NotAccepted, FallsBackAlone, Method
<1>2. FallbackInv => FallsBackAlone
  BY DEF FallbackInv
<1>3. QED
  BY <1>1, <1>2, FallbackStep, Transport, PTL DEF Spec
=============================================================================
