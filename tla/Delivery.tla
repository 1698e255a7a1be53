------------------------------ MODULE Delivery ------------------------------
(***************************************************************************)
(* The delivery half of dispatch: cli._cmd_dispatch from the load of       *)
(* seats.json to the delivery state, relay.py with its fallback, and the   *)
(* two Tier 1 relays.  Codex hands a turn over and returns; Grok blocks    *)
(* until the turn ends.  Both keep the seat's conversation in thread_ref.  *)
(*                                                                         *)
(* Every dispatch holds the lock of its own invocation only, so dispatches *)
(* of one seat or of several run side by side; they meet in seats.json,    *)
(* whose file lock makes each load and save one step.  The provider        *)
(* (codex app-server, grok agent) is external: it may accept a request     *)
(* whose reply is lost, and its threads may be deleted by their owner.     *)
(***************************************************************************)
EXTENDS Integers

CONSTANTS Dispatch,    \* dispatch commands, one invocation each
          Codex, Grok, \* the seats of either kind
          Thread,      \* conversations the provider can open
          None         \* no thread, no entry

Seat == Codex \cup Grok

SeatRec == [thread : Thread \cup {None}, tier : {1, 3}, fallback : BOOLEAN]

ASSUME DeliveryAssumption ==
  /\ Codex \cap Grok = {}
  /\ None \notin Thread /\ None \notin SeatRec /\ None \notin Seat

VARIABLES
  seats,    \* seats.json
  local,    \* local[p]: the snapshot p works on and will save
  seat,     \* seat[p]: the seat p dispatches to
  pc,       \* pc[p]: where p is
  state,    \* state[p]: the delivery state of p's invocation in the journal
  result,   \* result[p]: the state p is about to record
  alive,    \* the provider's threads
  turn,     \* the dispatches whose turn the provider accepted (history)
  clip      \* the dispatches whose packet went to the clipboard (history)

vars == <<seats, local, seat, pc, state, result, alive, turn, clip>>

New(tier) == [thread |-> None, tier |-> tier, fallback |-> FALSE]

Mine(p)     == local[p][seat[p]]
IsCodex(p)  == seat[p] \in Codex
Goto(p, l)  == pc' = [pc EXCEPT ![p] = l]

(* seat[...] = ... on the entry that p got from its snapshot. *)
Edit(p, r) == local' = [local EXCEPT ![p][seat[p]] = r]

-----------------------------------------------------------------------------
(* Earlier dispatches may have left seats whose packets went to the clipboard. *)
Init ==
  /\ seats \in [Seat -> {None, New(3)}]
  /\ local = [p \in Dispatch |-> [s \in Seat |-> None]]
  /\ seat = [p \in Dispatch |-> None]
  /\ pc = [p \in Dispatch |-> "idle"]
  /\ state = [p \in Dispatch |-> "prepared"]
  /\ result = [p \in Dispatch |-> "prepared"]
  /\ alive = {}
  /\ turn = {} /\ clip = {}

(* load_seats, the entry of the seat or a new one, get_relay. *)
Loads(p, s, tier) ==
  /\ pc[p] = "idle"
  /\ seat' = [seat EXCEPT ![p] = s]
  /\ local' = [local EXCEPT ![p] =
                 [seats EXCEPT ![s] = IF @ = None THEN New(tier) ELSE @]]
  /\ Goto(p, IF tier = 1 THEN "open" ELSE "clipboard")
  /\ UNCHANGED <<seats, state, result, alive, turn, clip>>

Fails(p) ==     \* a RelayError: the Tier 1 relay is closed, Tier 3 takes over
  /\ Goto(p, "fallback")
  /\ UNCHANGED <<seats, local, seat, state, result, alive, turn, clip>>

Unknown(p) ==   \* a DeliveryUnknownError
  /\ Goto(p, "save")
  /\ result' = [result EXCEPT ![p] = "delivery-unknown"]
  /\ UNCHANGED <<seats, local, seat, state, alive, turn, clip>>

(* _ensure: no binary, no process, no answer to initialize, no capability. *)
EnsureFails(p) == pc[p] = "open" /\ Fails(p)

OpensNew(p) ==
  /\ pc[p] = "open"
  /\ Mine(p).thread = None
  /\ Goto(p, "start")
  /\ UNCHANGED <<seats, local, seat, state, result, alive, turn, clip>>

(* thread/resume or session/load of the recorded thread. *)
Resumes(p) ==
  /\ pc[p] = "open"
  /\ Mine(p).thread \in alive
  /\ Goto(p, "turn")
  /\ UNCHANGED <<seats, local, seat, state, result, alive, turn, clip>>

ResumeFails(p) ==
  /\ pc[p] = "open"
  /\ Mine(p).thread # None
  /\ IF IsCodex(p) THEN Unknown(p) ELSE Fails(p)

(* Codex alone starts over, when the thread is certainly gone. *)
ResumeNotFound(p) ==
  /\ pc[p] = "open"
  /\ IsCodex(p)
  /\ Mine(p).thread # None /\ Mine(p).thread \notin alive
  /\ Edit(p, [Mine(p) EXCEPT !.thread = None])
  /\ Goto(p, "start")
  /\ UNCHANGED <<seats, seat, state, result, alive, turn, clip>>

(* thread/start or session/new. *)
Starts(p, t) ==
  /\ pc[p] = "start"
  /\ t \notin alive
  /\ \A q \in Dispatch : \A s \in Seat : local[q][s] # None => local[q][s].thread # t
  /\ \A s \in Seat : seats[s] # None => seats[s].thread # t
  /\ alive' = alive \cup {t}
  /\ Edit(p, [Mine(p) EXCEPT !.thread = t])
  /\ Goto(p, "turn")
  /\ UNCHANGED <<seats, seat, state, result, turn, clip>>

StartFails(p) == pc[p] = "start" /\ Fails(p)

(* turn/start or session/prompt, answered. *)
TurnAccepted(p) ==
  /\ pc[p] = "turn"
  /\ Mine(p).thread \in alive
  /\ turn' = turn \cup {p}
  /\ result' = [result EXCEPT ![p] = "delivered"]
  /\ Goto(p, IF IsCodex(p) THEN "receipt" ELSE "save")
  /\ UNCHANGED <<seats, local, seat, state, alive, clip>>

(* A structured error: certainly not accepted. *)
TurnRejected(p) == pc[p] = "turn" /\ Fails(p)

(* Mutant: every failure of turn/start falls back. *)
TurnUnansweredFallsBack(p) ==
  /\ pc[p] = "turn"
  /\ \/ turn' = turn
     \/ Mine(p).thread \in alive /\ turn' = turn \cup {p}
  /\ Goto(p, "fallback")
  /\ UNCHANGED <<seats, local, seat, state, result, alive, clip>>

(* No reply in time, a broken pipe, an unusable reply: accepted or not. *)
TurnUnanswered(p) ==
  /\ pc[p] = "turn"
  /\ \/ turn' = turn
     \/ Mine(p).thread \in alive /\ turn' = turn \cup {p}
  /\ IF IsCodex(p)
       THEN Goto(p, "save") /\ result' = [result EXCEPT ![p] = "delivery-unknown"]
       ELSE Goto(p, "fallback") /\ UNCHANGED result
  /\ UNCHANGED <<seats, local, seat, state, alive, clip>>

(* FallbackRelay: the packet goes to the clipboard, the seat is marked. *)
FallsBack(p) ==
  /\ pc[p] = "fallback"
  /\ clip' = clip \cup {p}
  /\ Edit(p, [Mine(p) EXCEPT !.tier = 3, !.fallback = TRUE])
  /\ result' = [result EXCEPT ![p] = "delivered"]
  /\ Goto(p, "save")
  /\ UNCHANGED <<seats, seat, state, alive, turn>>

(* Tier 3 by request. *)
ToClipboard(p) ==
  /\ pc[p] = "clipboard"
  /\ clip' = clip \cup {p}
  /\ result' = [result EXCEPT ![p] = "delivered"]
  /\ Edit(p, [Mine(p) EXCEPT !.tier = 3])
  /\ Goto(p, "save")
  /\ UNCHANGED <<seats, seat, state, alive, turn>>

(* The clipboard cannot be written: the invocation fails, seats are not saved. *)
ClipboardFails(p) ==
  /\ pc[p] \in {"fallback", "clipboard"}
  /\ result' = [result EXCEPT ![p] = "failed"]
  /\ Goto(p, "record")
  /\ UNCHANGED <<seats, local, seat, state, alive, turn, clip>>

-----------------------------------------------------------------------------
(* Codex's receipt reaches the journal before the seat is saved. *)
RecordsReceipt(p) ==
  /\ pc[p] = "receipt"
  /\ state' = [state EXCEPT ![p] = "delivered"]
  /\ Goto(p, "save")
  /\ UNCHANGED <<seats, local, seat, result, alive, turn, clip>>

(* Mutant: the local entry replaces the one on disk as it is. *)
MergeSeatLocal(d, l) == IF l = None THEN d ELSE l

(* merge_seats: the local entry wins, but never drops a thread. *)
MergeSeat(d, l) ==
  CASE l = None -> d
    [] l # None /\ d # None /\ l.thread = None -> [l EXCEPT !.thread = d.thread]
    [] OTHER -> l

(* seat["tier"] = relay.tier, then save_seats with the whole snapshot. *)
Tier(p) == IF p \in clip THEN 3 ELSE 1

(* Mutant: the outcome is recorded, the seat is not saved. *)
SavesNothing(p) ==
  /\ pc[p] = "save"
  /\ Goto(p, IF state[p] = result[p] THEN "done" ELSE "record")
  /\ UNCHANGED <<seats, local, seat, state, result, alive, turn, clip>>

Saves(p) ==
  /\ pc[p] = "save"
  /\ Edit(p, [Mine(p) EXCEPT !.tier = Tier(p)])
  /\ seats' = [s \in Seat |-> MergeSeat(seats[s], local'[p][s])]
  /\ Goto(p, IF state[p] = result[p] THEN "done" ELSE "record")
  /\ UNCHANGED <<seat, state, result, alive, turn, clip>>

(* Mutant: whatever happened is recorded as delivered. *)
RecordsDelivered(p) ==
  /\ pc[p] = "record"
  /\ state' = [state EXCEPT ![p] = "delivered"]
  /\ Goto(p, "done")
  /\ UNCHANGED <<seats, local, seat, result, alive, turn, clip>>

(* journal.set_state of the outcome. *)
Records(p) ==
  /\ pc[p] = "record"
  /\ state' = [state EXCEPT ![p] = result[p]]
  /\ Goto(p, "done")
  /\ UNCHANGED <<seats, local, seat, result, alive, turn, clip>>

Dies(p) ==
  /\ pc[p] \notin {"idle", "done", "dead"}
  /\ Goto(p, "dead")
  /\ UNCHANGED <<seats, local, seat, state, result, alive, turn, clip>>

(* The owner of the seat deletes a conversation. *)
Deletes(t) ==
  /\ t \in alive
  /\ alive' = alive \ {t}
  /\ UNCHANGED <<seats, local, seat, pc, state, result, turn, clip>>

Step(p) ==
  \/ \E s \in Seat : \E tier \in {1, 3} : Loads(p, s, tier)
  \/ EnsureFails(p) \/ OpensNew(p) \/ Resumes(p) \/ ResumeFails(p) \/ ResumeNotFound(p)
  \/ (\E t \in Thread : Starts(p, t)) \/ StartFails(p)
  \/ TurnAccepted(p) \/ TurnRejected(p) \/ TurnUnanswered(p)
  \/ FallsBack(p) \/ ToClipboard(p) \/ ClipboardFails(p)
  \/ RecordsReceipt(p) \/ Saves(p) \/ Records(p) \/ Dies(p)

Next == (\E p \in Dispatch : Step(p)) \/ (\E t \in Thread : Deletes(t))

Spec == Init /\ [][Next]_vars

-----------------------------------------------------------------------------
(***************************************************************************)
(* A packet that a Codex seat may have accepted is not handed over again   *)
(* through the clipboard, whatever reply was lost and wherever the         *)
(* dispatch died (DeliveryUnknownError against FallbackRelay).             *)
(***************************************************************************)
CodexHandsOverOnce == \A p \in turn \cap clip : ~IsCodex(p)

(***************************************************************************)
(* The journal does not say more than is known: delivered is a packet that *)
(* reached a seat or the clipboard, failed one that reached neither (a     *)
(* Codex seat's accepted turn is delivered or unknown, never failed), and  *)
(* an unknown one was not handed over a second time.                       *)
(***************************************************************************)
JournalTellsTruth ==
  \A p \in Dispatch :
    /\ state[p] = "delivered" => p \in turn \cup clip
    /\ state[p] = "failed" => p \notin clip /\ (IsCodex(p) => p \notin turn)
    /\ state[p] = "delivery-unknown" => p \notin clip

(***************************************************************************)
(* A dispatch that came to its end after a turn was accepted leaves the    *)
(* seat with a thread to resume: losing it would split the seat in two     *)
(* chats (save_seats in the DeliveryUnknownError branch).  Nothing is said *)
(* of a dispatch that ends "failed", nor of one whose packet never became  *)
(* a turn: there dispatch returns without save_seats (cli.py:181-194), and *)
(* a thread that thread/start had opened is dropped.                       *)
(***************************************************************************)
SeatIsRemembered ==
  \A p \in turn : pc[p] = "done" /\ state[p] # "failed" =>
    seats[seat[p]] # None /\ seats[seat[p]].thread # None

(***************************************************************************)
(* No save takes the thread of a seat away, whatever stale snapshot it     *)
(* writes (merge_seats protects thread_ref and nothing else).              *)
(***************************************************************************)
ThreadIsKept ==
  [][\A s \in Seat : seats[s] # None /\ seats[s].thread # None =>
       seats'[s] # None /\ seats'[s].thread # None]_seats
=============================================================================
