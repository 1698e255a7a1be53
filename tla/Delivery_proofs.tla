--------------------------- MODULE Delivery_proofs ---------------------------
(***************************************************************************)
(* What a dispatch hands over, records and remembers, for any number of    *)
(* dispatches of any seats, with every lost reply, death and deletion.     *)
(***************************************************************************)
EXTENDS Delivery, TLAPS

Pcs == {"idle", "open", "start", "turn", "receipt", "fallback", "clipboard",
        "save", "record", "done", "dead"}

States == {"prepared", "delivered", "failed", "delivery-unknown"}

Types ==
  /\ seats \in [Seat -> SeatRec \cup {None}]
  /\ local \in [Dispatch -> [Seat -> SeatRec \cup {None}]]
  /\ seat \in [Dispatch -> Seat \cup {None}]
  /\ pc \in [Dispatch -> Pcs]
  /\ state \in [Dispatch -> States] /\ result \in [Dispatch -> States]
  /\ alive \subseteq Thread
  /\ turn \subseteq Dispatch /\ clip \subseteq Dispatch

Threaded(s) == seats[s] # None /\ seats[s].thread # None

(* Where p has not handed its packet to the provider, or not to the clipboard. *)
Unturned  == {"idle", "open", "start", "turn", "clipboard"}
Unclipped == Unturned \cup {"fallback", "receipt"}

(* p has told its invocation's story, as far as it has come. *)
Story(p) ==
  /\ pc[p] # "idle" => seat[p] \in Seat /\ Mine(p) # None
  /\ pc[p] \in Unturned => p \notin turn
  /\ pc[p] \in Unclipped => p \notin clip /\ state[p] = "prepared"
  /\ pc[p] = "turn" \/ p \in turn => Mine(p).thread # None
  /\ pc[p] = "fallback" => (IsCodex(p) => p \notin turn)
  /\ p \in turn /\ p \in clip => ~IsCodex(p)

(* What it is about to record is what happened. *)
Outcome(p) ==
  /\ result[p] = "delivered" => p \in turn \cup clip
  /\ result[p] = "failed" => p \notin clip /\ (IsCodex(p) => p \notin turn)
  /\ result[p] = "delivery-unknown" => p \notin clip
  /\ pc[p] = "receipt" => result[p] = "delivered"
  /\ pc[p] \in Unturned \cup {"fallback"} => result[p] = "prepared"
  /\ state[p] \in {"prepared", result[p]}
  /\ pc[p] = "done" => state[p] = result[p]

(* A seat that got its turn has its thread in seats.json from the save on. *)
Remembered(p) ==
  p \in turn /\ pc[p] \in {"record", "done"} /\ result[p] # "failed" => Threaded(seat[p])

DInv == Types /\ \A p \in Dispatch : Story(p) /\ Outcome(p) /\ Remembered(p)

(* What the others know: their own entries, and seats.json. *)
Apart(p) ==
  \A q \in Dispatch : q # p =>
    /\ pc'[q] = pc[q] /\ seat'[q] = seat[q] /\ local'[q] = local[q]
    /\ state'[q] = state[q] /\ result'[q] = result[q]
    /\ q \in turn' <=> q \in turn
    /\ q \in clip' <=> q \in clip

Keeps == \A s \in Seat : Threaded(s) => Threaded(s)'

Tells(p) == Story(p) /\ Outcome(p) /\ Remembered(p)

LEMMA OthersTell ==
  ASSUME DInv, NEW p \in Dispatch, Apart(p), Keeps, NEW q \in Dispatch, q # p
  PROVE  Tells(q)'
<1>1. /\ pc'[q] = pc[q] /\ seat'[q] = seat[q] /\ local'[q] = local[q]
      /\ state'[q] = state[q] /\ result'[q] = result[q]
      /\ q \in turn' <=> q \in turn
      /\ q \in clip' <=> q \in clip
  BY DEF Apart
<1>2. Story(q) /\ Outcome(q) /\ Remembered(q)
  BY DEF DInv
<1>3. Story(q)'
  BY <1>1, <1>2 DEF Story, Mine, IsCodex
<1>4. Outcome(q)'
  BY <1>1, <1>2 DEF Outcome, IsCodex
<1>5. Remembered(q)'
  BY <1>1, <1>2 DEF Remembered, Keeps, Threaded, Story
<1>6. QED
  BY <1>3, <1>4, <1>5 DEF Tells

LEMMA StepTells ==
  ASSUME DInv, NEW p \in Dispatch, Types', Apart(p), Keeps, Tells(p)'
  PROVE  DInv'
BY OthersTell DEF DInv, Tells

(* p goes on without having done anything. *)
LEMMA GoesOn ==
  ASSUME DInv, NEW p \in Dispatch, NEW l \in Pcs \ {"idle"}, pc[p] # "idle", Goto(p, l),
         UNCHANGED <<seats, local, seat, state, result, alive, turn, clip>>,
         l = "turn" => Mine(p).thread # None,
         \/ l = "dead"
         \/ pc[p] \in {"open", "start"} /\ l \in {"start", "turn", "fallback"}
         \/ pc[p] = "turn" /\ l = "fallback"
  PROVE  DInv'
<1>1. Types' /\ pc'[p] = l
  BY DEF DInv, Types, Goto
<1>2. Apart(p) /\ Keeps
  BY DEF DInv, Types, Goto, Apart, Keeps, Threaded
<1>3. Mine(p)' = Mine(p) /\ (IsCodex(p)' <=> IsCodex(p))
  BY DEF Mine, IsCodex
<1>4. Story(p) /\ Outcome(p)
  BY DEF DInv
<1>5. Story(p)'
  BY <1>1, <1>3, <1>4 DEF Story, Unturned, Unclipped
<1>6. Outcome(p)'
  BY <1>1, <1>3, <1>4 DEF Outcome, Unturned
<1>7. Remembered(p)'
  BY <1>1 DEF Remembered
<1>8. QED
  BY <1>1, <1>2, <1>5, <1>6, <1>7, StepTells DEF Tells

LEMMA LoadsStep ==
  ASSUME DInv, NEW p \in Dispatch, NEW s \in Seat, NEW tier \in {1, 3}, Loads(p, s, tier)
  PROVE  DInv'
<1> DEFINE l == IF tier = 1 THEN "open" ELSE "clipboard"
           entry == IF seats[s] = None THEN New(tier) ELSE seats[s]
<1>1. Types /\ Story(p) /\ Outcome(p) /\ pc[p] = "idle"
  BY DEF DInv, Loads
<1>2. New(tier) \in SeatRec /\ None \notin SeatRec
  BY DeliveryAssumption DEF New, SeatRec
<1>3. entry \in SeatRec
  BY <1>1, <1>2 DEF Types
<1>4. [seats EXCEPT ![s] = IF @ = None THEN New(tier) ELSE @] = [seats EXCEPT ![s] = entry]
  OBVIOUS
<1>5. local' = [local EXCEPT ![p] = [seats EXCEPT ![s] = entry]]
  BY <1>4 DEF Loads
<1>6. [seats EXCEPT ![s] = entry] \in [Seat -> SeatRec \cup {None}]
  BY <1>1, <1>3 DEF Types
<1> HIDE DEF entry
<1>7. Types' /\ pc'[p] = l /\ seat'[p] = s /\ local'[p][s] = entry
  BY <1>1, <1>5, <1>6 DEF Loads, Types, Goto, Pcs
<1>8. Apart(p) /\ Keeps
  BY <1>1, <1>5, <1>6 DEF Loads, Types, Goto, Apart, Keeps, Threaded
<1>9. Story(p)'
  BY <1>1, <1>2, <1>3, <1>7 DEF Story, Mine, Unturned, Unclipped, Loads
<1>10. Outcome(p)'
  BY <1>1, <1>7 DEF Outcome, Loads, Story, Unclipped, Unturned
<1>11. Remembered(p)'
  BY <1>7 DEF Remembered
<1>12. QED
  BY <1>7, <1>8, <1>9, <1>10, <1>11, StepTells DEF Tells

(* p edits the entry of its seat, or learns what became of its packet. *)
LEMMA Edited ==
  ASSUME DInv, NEW p \in Dispatch, seat[p] \in Seat, NEW r \in SeatRec, Edit(p, r)
  PROVE  /\ local' \in [Dispatch -> [Seat -> SeatRec \cup {None}]]
         /\ local'[p][seat[p]] = r /\ r # None
         /\ \A s \in Seat : s # seat[p] => local'[p][s] = local[p][s]
         /\ \A q \in Dispatch : q # p => local'[q] = local[q]
<1>1. local' = [local EXCEPT ![p] = [local[p] EXCEPT ![seat[p]] = r]]
  BY DEF Edit
<1>2. local \in [Dispatch -> [Seat -> SeatRec \cup {None}]]
  BY DEF DInv, Types
<1>3. QED
  BY <1>1, <1>2, DeliveryAssumption

LEMMA MineTypes ==
  ASSUME DInv, NEW p \in Dispatch, pc[p] # "idle"
  PROVE  /\ seat[p] \in Seat /\ Mine(p) \in SeatRec
         /\ \A t \in Thread \cup {None} : [Mine(p) EXCEPT !.thread = t] \in SeatRec
         /\ \A n \in {1, 3} : [Mine(p) EXCEPT !.tier = n] \in SeatRec
         /\ [Mine(p) EXCEPT !.tier = 3, !.fallback = TRUE] \in SeatRec
<1>1. seat[p] \in Seat /\ Mine(p) \in SeatRec
  BY DEF DInv, Types, Story, Mine
<1>2. QED
  BY <1>1 DEF SeatRec

LEMMA NewConversation ==
  ASSUME DInv, NEW p \in Dispatch, ResumeNotFound(p) \/ \E t \in Thread : Starts(p, t)
  PROVE  DInv'
<1>1. pc[p] \in {"open", "start"}
  BY DEF ResumeNotFound, Starts
<1>2. seat[p] \in Seat /\ Mine(p) \in SeatRec /\ Types /\ Story(p) /\ Outcome(p)
  BY <1>1, MineTypes DEF DInv
<1>3. PICK t \in Thread \cup {None} : Edit(p, [Mine(p) EXCEPT !.thread = t])
                                      /\ (pc'[p] = "turn" => t # None)
  <2>1. CASE ResumeNotFound(p)
    BY <1>2, <2>1 DEF ResumeNotFound, Goto, Types
  <2>2. CASE \E t \in Thread : Starts(p, t)
    BY <1>2, <2>2, DeliveryAssumption DEF Starts, Goto, Types
  <2>3. QED
    BY <2>1, <2>2
<1>4. [Mine(p) EXCEPT !.thread = t] \in SeatRec /\ [Mine(p) EXCEPT !.thread = t].thread = t
  BY <1>1, <1>2, MineTypes DEF SeatRec
<1>5. /\ local' \in [Dispatch -> [Seat -> SeatRec \cup {None}]]
      /\ local'[p][seat[p]] # None /\ local'[p][seat[p]].thread = t
      /\ \A q \in Dispatch : q # p => local'[q] = local[q]
  BY <1>2, <1>3, <1>4, Edited
<1>6. /\ UNCHANGED <<seats, seat, state, result, turn, clip>>
      /\ alive' \subseteq Thread
      /\ \E l \in {"start", "turn"} : Goto(p, l)
  BY <1>2 DEF ResumeNotFound, Starts, Types
<1>7. pc'[p] \in {"start", "turn"} /\ \A q \in Dispatch : q # p => pc'[q] = pc[q]
  BY <1>2, <1>6 DEF Types, Goto
<1>8. Types'
  BY <1>2, <1>5, <1>6 DEF Types, Goto, Pcs
<1>9. Apart(p) /\ Keeps
  BY <1>5, <1>6, <1>7 DEF Apart, Keeps, Threaded
<1>10. Story(p)'
  BY <1>1, <1>2, <1>3, <1>5, <1>6, <1>7 DEF Story, Mine, IsCodex, Unturned, Unclipped
<1>11. Outcome(p)'
  BY <1>1, <1>2, <1>6, <1>7 DEF Outcome, IsCodex, Unturned
<1>12. Remembered(p)'
  BY <1>7 DEF Remembered
<1>13. QED
  BY <1>8, <1>9, <1>10, <1>11, <1>12, StepTells DEF Tells

(* A step of p towards its end, with what it learnt; it works on no thread. *)
LEMMA Learns ==
  ASSUME DInv, NEW p \in Dispatch, pc[p] # "idle",
         NEW l \in {"receipt", "save", "fallback", "record"}, Goto(p, l),
         NEW r \in States, result' = [result EXCEPT ![p] = r],
         UNCHANGED <<seats, local, seat, state, alive, clip>>,
         turn' \in {turn, turn \cup {p}},
         state[p] = "prepared", pc[p] \in Unclipped \ {"idle"},
         p \in turn' => Mine(p).thread # None,
         r = "delivered" => p \in turn',
         r = "failed" => (IsCodex(p) => p \notin turn'),
         l = "receipt" => r = "delivered",
         l = "fallback" => r = "prepared" /\ (IsCodex(p) => p \notin turn'),
         l = "record" => r = "failed"
  PROVE  DInv'
<1>1. Types /\ Story(p) /\ Outcome(p)
  BY DEF DInv
<1>2. Types'
  BY <1>1 DEF Types, Goto, Pcs
<1>3. /\ pc'[p] = l /\ result'[p] = r /\ p \notin clip'
      /\ \A q \in Dispatch : q # p => pc'[q] = pc[q] /\ result'[q] = result[q]
  BY <1>1 DEF Types, Goto, Story
<1>4. Apart(p) /\ Keeps
  BY <1>3 DEF Apart, Keeps, Threaded
<1>5. Story(p)'
  BY <1>1, <1>3 DEF Story, Mine, IsCodex, Unturned, Unclipped
<1>6. Outcome(p)'
  BY <1>1, <1>3 DEF Outcome, IsCodex, Unturned
<1>7. Remembered(p)'
  BY <1>3 DEF Remembered
<1>8. QED
  BY <1>2, <1>4, <1>5, <1>6, <1>7, StepTells DEF Tells

LEMMA TurnSteps ==
  ASSUME DInv, NEW p \in Dispatch,
         TurnAccepted(p) \/ TurnUnanswered(p) \/ ResumeFails(p) \/ ClipboardFails(p)
  PROVE  DInv'
<1>1. Types /\ Story(p) /\ Outcome(p)
  BY DEF DInv
<1>2. CASE TurnAccepted(p)
  <2>1. state[p] = "prepared" /\ pc[p] = "turn" /\ Mine(p).thread # None
    BY <1>1, <1>2 DEF TurnAccepted, Story, Unclipped, Unturned
  <2>2. PICK l \in {"receipt", "save"} : Goto(p, l)
    BY <1>2 DEF TurnAccepted
  <2>3. /\ result' = [result EXCEPT ![p] = "delivered"] /\ turn' = turn \cup {p}
        /\ UNCHANGED <<seats, local, seat, state, alive, clip>>
    BY <1>2 DEF TurnAccepted
  <2>4. QED
    BY <2>1, <2>2, <2>3, Learns DEF Unclipped, Unturned, States
<1>3. CASE TurnUnanswered(p)
  <2>1. /\ state[p] = "prepared" /\ pc[p] = "turn" /\ Mine(p).thread # None
        /\ p \notin turn /\ result[p] = "prepared"
    BY <1>1, <1>3 DEF TurnUnanswered, Story, Outcome, Unclipped, Unturned
  <2>2. turn' \in {turn, turn \cup {p}} /\ UNCHANGED <<seats, local, seat, state, alive, clip>>
    BY <1>3 DEF TurnUnanswered
  <2>3. CASE IsCodex(p)
    <3>1. Goto(p, "save") /\ result' = [result EXCEPT ![p] = "delivery-unknown"]
      BY <1>3, <2>3 DEF TurnUnanswered
    <3>2. QED
      BY <2>1, <2>2, <3>1, Learns DEF Unclipped, Unturned, States
  <2>4. CASE ~IsCodex(p)
    <3>1. Goto(p, "fallback") /\ result' = [result EXCEPT ![p] = "prepared"]
      BY <1>1, <1>3, <2>1, <2>4 DEF TurnUnanswered, Types
    <3>2. QED
      BY <2>1, <2>2, <2>4, <3>1, Learns DEF Unclipped, Unturned, States
  <2>5. QED
    BY <2>3, <2>4
<1>4. CASE ResumeFails(p)
  <2>1. pc[p] = "open" /\ p \notin turn /\ state[p] = "prepared"
    BY <1>1, <1>4 DEF ResumeFails, Story, Unturned, Unclipped
  <2>2. CASE Unknown(p)
    BY <2>1, <2>2, Learns DEF Unknown, Unclipped, Unturned, States
  <2>3. CASE Fails(p)
    BY <2>1, <2>3, GoesOn DEF Fails, Pcs
  <2>4. QED
    BY <1>4, <2>2, <2>3 DEF ResumeFails
<1>5. CASE ClipboardFails(p)
  <2>1. /\ pc[p] \in {"fallback", "clipboard"} /\ state[p] = "prepared"
        /\ p \in turn => Mine(p).thread # None
        /\ IsCodex(p) => p \notin turn
    BY <1>1, <1>5 DEF ClipboardFails, Story, Unturned, Unclipped
  <2>2. /\ Goto(p, "record") /\ result' = [result EXCEPT ![p] = "failed"] /\ turn' = turn
        /\ UNCHANGED <<seats, local, seat, state, alive, clip>>
    BY <1>5 DEF ClipboardFails
  <2>3. QED
    BY <2>1, <2>2, Learns DEF Unclipped, Unturned, States
<1>6. QED
  BY <1>2, <1>3, <1>4, <1>5

LEMMA ClipSteps ==
  ASSUME DInv, NEW p \in Dispatch, FallsBack(p) \/ ToClipboard(p)
  PROVE  DInv'
<1>1. pc[p] \in {"fallback", "clipboard"}
  BY DEF FallsBack, ToClipboard
<1>2. seat[p] \in Seat /\ Mine(p) \in SeatRec /\ Types /\ Story(p) /\ Outcome(p)
  BY <1>1, MineTypes DEF DInv
<1>3. PICK r \in SeatRec : Edit(p, r) /\ r.thread = Mine(p).thread
  <2>1. [Mine(p) EXCEPT !.tier = 3, !.fallback = TRUE] \in SeatRec
        /\ [Mine(p) EXCEPT !.tier = 3] \in SeatRec
    BY <1>1, MineTypes
  <2>2. [Mine(p) EXCEPT !.tier = 3, !.fallback = TRUE].thread = Mine(p).thread
        /\ [Mine(p) EXCEPT !.tier = 3].thread = Mine(p).thread
    BY <1>2 DEF SeatRec
  <2>3. QED
    BY <2>1, <2>2 DEF FallsBack, ToClipboard
<1>4. /\ local' \in [Dispatch -> [Seat -> SeatRec \cup {None}]]
      /\ local'[p][seat[p]] = r /\ r # None
      /\ \A q \in Dispatch : q # p => local'[q] = local[q]
  BY <1>2, <1>3, Edited
<1>5. /\ UNCHANGED <<seats, seat, state, alive, turn>>
      /\ clip' = clip \cup {p} /\ result' = [result EXCEPT ![p] = "delivered"] /\ Goto(p, "save")
  BY DEF FallsBack, ToClipboard
<1>6. /\ pc'[p] = "save" /\ result'[p] = "delivered"
      /\ \A q \in Dispatch : q # p => pc'[q] = pc[q] /\ result'[q] = result[q]
  BY <1>2, <1>5 DEF Types, Goto
<1>7. Types'
  BY <1>2, <1>4, <1>5 DEF Types, Goto, Pcs, States
<1>8. Apart(p) /\ Keeps
  BY <1>4, <1>5, <1>6 DEF Apart, Keeps, Threaded
<1>9. Story(p)'
  BY <1>1, <1>2, <1>3, <1>4, <1>5, <1>6 DEF Story, Mine, IsCodex, Unturned, Unclipped
<1>10. Outcome(p)'
  BY <1>1, <1>2, <1>5, <1>6 DEF Story, Outcome, IsCodex, Unturned, Unclipped
<1>11. Remembered(p)'
  BY <1>6 DEF Remembered
<1>12. QED
  BY <1>7, <1>8, <1>9, <1>10, <1>11, StepTells DEF Tells

(* What merge_seats makes of an entry: a thread on either side is kept. *)
LEMMA MergeKeeps ==
  ASSUME NEW d \in SeatRec \cup {None}, NEW l \in SeatRec \cup {None}
  PROVE  /\ MergeSeat(d, l) \in SeatRec \cup {None}
         /\ (d # None /\ d.thread # None) \/ (l # None /\ l.thread # None)
              => MergeSeat(d, l) # None /\ MergeSeat(d, l).thread # None
<1>1. None \notin SeatRec
  BY DeliveryAssumption
<1>2. CASE l = None
  BY <1>2 DEF MergeSeat
<1>3. CASE l # None /\ d # None /\ l.thread = None
  <2>1. MergeSeat(d, l) = [l EXCEPT !.thread = d.thread] /\ l \in SeatRec /\ d \in SeatRec
    BY <1>3 DEF MergeSeat
  <2>2. [l EXCEPT !.thread = d.thread] \in SeatRec /\ [l EXCEPT !.thread = d.thread].thread = d.thread
    BY <2>1 DEF SeatRec
  <2>3. QED
    BY <1>1, <1>3, <2>1, <2>2
<1>4. CASE l # None /\ ~(d # None /\ l.thread = None)
  BY <1>1, <1>4 DEF MergeSeat
<1>5. QED
  BY <1>2, <1>3, <1>4

LEMMA SaveMerges ==
  ASSUME DInv, NEW p \in Dispatch, Saves(p)
  PROVE  /\ seats' \in [Seat -> SeatRec \cup {None}] /\ Keeps
         /\ local' \in [Dispatch -> [Seat -> SeatRec \cup {None}]]
         /\ \A q \in Dispatch : q # p => local'[q] = local[q]
         /\ Mine(p)' # None /\ Mine(p)'.thread = Mine(p).thread
         /\ Mine(p).thread # None => Threaded(seat[p])'
<1>1. /\ pc[p] = "save" /\ Types /\ seat' = seat
      /\ Edit(p, [Mine(p) EXCEPT !.tier = Tier(p)])
      /\ seats' = [s \in Seat |-> MergeSeat(seats[s], local'[p][s])]
  BY DEF Saves, DInv
<1>2. seat[p] \in Seat /\ Mine(p) \in SeatRec /\ [Mine(p) EXCEPT !.tier = Tier(p)] \in SeatRec
  BY <1>1, MineTypes DEF Tier
<1>3. PICK r \in SeatRec : Edit(p, r) /\ r.thread = Mine(p).thread
  BY <1>1, <1>2 DEF SeatRec
<1>4. /\ local' \in [Dispatch -> [Seat -> SeatRec \cup {None}]]
      /\ local'[p][seat[p]] # None /\ local'[p][seat[p]].thread = Mine(p).thread
      /\ \A q \in Dispatch : q # p => local'[q] = local[q]
  BY <1>1, <1>2, <1>3, Edited
<1>5. \A s \in Seat : /\ seats[s] \in SeatRec \cup {None}
                      /\ local'[p][s] \in SeatRec \cup {None}
                      /\ seats'[s] = MergeSeat(seats[s], local'[p][s])
  BY <1>1, <1>4 DEF Types
<1>6. \A s \in Seat :
        /\ seats'[s] \in SeatRec \cup {None}
        /\ Threaded(s) \/ (local'[p][s] # None /\ local'[p][s].thread # None) => Threaded(s)'
  BY <1>5, MergeKeeps DEF Threaded
<1>7. seats' \in [Seat -> SeatRec \cup {None}] /\ Keeps
  BY <1>1, <1>6 DEF Keeps
<1>8. Mine(p)' = local'[p][seat[p]]
  BY <1>1 DEF Mine
<1>9. Mine(p).thread # None => Threaded(seat[p])'
  <2>1. PICK s \in Seat : s = seat[p]
    BY <1>2
  <2>2. Mine(p).thread # None => Threaded(s)'
    BY <1>4, <1>6, <2>1
  <2>3. QED
    BY <1>1, <2>1, <2>2 DEF Threaded
<1>10. QED
  BY <1>4, <1>7, <1>8, <1>9

LEMMA SavesStep ==
  ASSUME DInv, NEW p \in Dispatch, Saves(p)
  PROVE  DInv'
<1>1. Types /\ Story(p) /\ Outcome(p) /\ pc[p] = "save"
  BY DEF DInv, Saves
<1>2. /\ UNCHANGED <<seat, state, result, alive, turn, clip>>
      /\ Goto(p, IF state[p] = result[p] THEN "done" ELSE "record")
  BY DEF Saves
<1>3. /\ pc' \in [Dispatch -> Pcs]
      /\ pc'[p] \in {"done", "record"} /\ (pc'[p] = "done" => state[p] = result[p])
      /\ \A q \in Dispatch : q # p => pc'[q] = pc[q]
  BY <1>1, <1>2 DEF Types, Goto, Pcs
<1>4. Types' /\ Apart(p) /\ Keeps
  <2>1. /\ seats' \in [Seat -> SeatRec \cup {None}] /\ Keeps
        /\ local' \in [Dispatch -> [Seat -> SeatRec \cup {None}]]
        /\ \A q \in Dispatch : q # p => local'[q] = local[q]
    BY SaveMerges
  <2>2. Types'
    BY <1>1, <1>2, <1>3, <2>1 DEF Types
  <2>3. Apart(p)
    BY <1>2, <1>3, <2>1 DEF Apart
  <2>4. QED
    BY <2>1, <2>2, <2>3
<1>5. Story(p)'
  <2>1. Mine(p)' # None /\ Mine(p)'.thread = Mine(p).thread
    BY SaveMerges
  <2>2. IsCodex(p)' <=> IsCodex(p)
    BY <1>2 DEF IsCodex
  <2>3. seat[p] \in Seat /\ (p \in turn => Mine(p).thread # None)
        /\ (p \in turn /\ p \in clip => ~IsCodex(p))
    BY <1>1 DEF Story
  <2>4. QED
    BY <1>2, <1>3, <2>1, <2>2, <2>3 DEF Story, Unturned, Unclipped
<1>6. Outcome(p)'
  BY <1>1, <1>2, <1>3 DEF Outcome, IsCodex, Unturned
<1>7. Remembered(p)'
  <2>1. p \in turn => Threaded(seat[p])'
    BY <1>1, SaveMerges DEF Story
  <2>2. QED
    BY <1>2, <2>1 DEF Remembered
<1>8. QED
  BY <1>4, <1>5, <1>6, <1>7, StepTells DEF Tells

LEMMA RecordSteps ==
  ASSUME DInv, NEW p \in Dispatch, RecordsReceipt(p) \/ Records(p)
  PROVE  DInv'
<1>1. Types /\ Story(p) /\ Outcome(p) /\ Remembered(p)
  BY DEF DInv
<1>2. /\ UNCHANGED <<seats, local, seat, result, alive, turn, clip>>
      /\ state' = [state EXCEPT ![p] = result[p]]
      /\ \/ pc[p] = "receipt" /\ Goto(p, "save")
         \/ pc[p] = "record" /\ Goto(p, "done")
  BY <1>1 DEF RecordsReceipt, Records, Outcome
<1>3. /\ state'[p] = result[p]
      /\ \/ pc[p] = "receipt" /\ pc'[p] = "save"
         \/ pc[p] = "record" /\ pc'[p] = "done"
      /\ \A q \in Dispatch : q # p => pc'[q] = pc[q] /\ state'[q] = state[q]
  BY <1>1, <1>2 DEF Types, Goto
<1>4. Types' /\ Apart(p) /\ Keeps
  BY <1>1, <1>2, <1>3 DEF Types, Goto, Pcs, Apart, Keeps, Threaded
<1>5. Story(p)'
  BY <1>1, <1>2, <1>3 DEF Story, Mine, IsCodex, Unturned, Unclipped
<1>6. Outcome(p)'
  BY <1>1, <1>2, <1>3 DEF Outcome, IsCodex, Unturned
<1>7. Remembered(p)'
  BY <1>1, <1>2, <1>3 DEF Remembered, Threaded
<1>8. QED
  BY <1>4, <1>5, <1>6, <1>7, StepTells DEF Tells

LEMMA StepKeeps ==
  ASSUME DInv, NEW p \in Dispatch, Step(p)
  PROVE  DInv'
<1>1. CASE \E s \in Seat : \E tier \in {1, 3} : Loads(p, s, tier)
  BY <1>1, LoadsStep
<1>2. CASE EnsureFails(p) \/ StartFails(p) \/ TurnRejected(p) \/ Dies(p)
  BY <1>2, GoesOn DEF EnsureFails, StartFails, TurnRejected, Fails, Dies, Pcs
<1>3. CASE OpensNew(p)
  BY <1>3, GoesOn DEF OpensNew, Pcs
<1>4. CASE Resumes(p)
  <2>1. Mine(p).thread # None
    BY <1>4, DeliveryAssumption DEF Resumes, DInv, Types
  <2>2. QED
    BY <1>4, <2>1, GoesOn DEF Resumes, Pcs
<1>5. CASE ResumeNotFound(p) \/ \E t \in Thread : Starts(p, t)
  BY <1>5, NewConversation
<1>6. CASE TurnAccepted(p) \/ TurnUnanswered(p) \/ ResumeFails(p) \/ ClipboardFails(p)
  BY <1>6, TurnSteps
<1>7. CASE FallsBack(p) \/ ToClipboard(p)
  BY <1>7, ClipSteps
<1>8. CASE Saves(p) \/ RecordsReceipt(p) \/ Records(p)
  BY <1>8, SavesStep, RecordSteps
<1>9. QED
  BY <1>1, <1>2, <1>3, <1>4, <1>5, <1>6, <1>7, <1>8 DEF Step

LEMMA Undisturbed ==
  ASSUME DInv, UNCHANGED <<seats, local, seat, pc, state, result, turn, clip>>,
         alive' \subseteq Thread
  PROVE  DInv'
<1>1. Types'
  BY DEF DInv, Types
<1>2. \A p \in Dispatch : Story(p)' /\ Outcome(p)' /\ Remembered(p)'
  BY DEF DInv, Story, Outcome, Remembered, Mine, IsCodex, Threaded
<1>3. QED
  BY <1>1, <1>2 DEF DInv

LEMMA NextKeeps ==
  ASSUME DInv, [Next]_vars
  PROVE  DInv'
<1>1. CASE \E t \in Thread : Deletes(t)
  BY <1>1, Undisturbed DEF Deletes, DInv, Types
<1>2. CASE UNCHANGED vars
  BY <1>2, Undisturbed DEF vars, DInv, Types
<1>3. QED
  BY <1>1, <1>2, StepKeeps DEF Next

LEMMA Initially ==
  ASSUME Init
  PROVE  DInv
<1>1. New(3) \in SeatRec
  BY DEF New, SeatRec
<1>2. Types
  BY <1>1 DEF Init, Types, Pcs, States
<1>3. \A p \in Dispatch : Story(p) /\ Outcome(p) /\ Remembered(p)
  BY DEF Init, Story, Outcome, Remembered, Unturned, Unclipped
<1>4. QED
  BY <1>2, <1>3 DEF DInv

-----------------------------------------------------------------------------
(* The inductive invariant. *)
THEOREM DeliveryInvariant == Spec => []DInv
BY Initially, NextKeeps, PTL DEF Spec

(* A packet that a Codex seat may have accepted never goes to the clipboard too. *)
THEOREM CodexOnce == Spec => []CodexHandsOverOnce
<1>1. DInv => CodexHandsOverOnce
  BY DEF DInv, Types, Story, CodexHandsOverOnce
<1> QED
  BY <1>1, DeliveryInvariant, PTL

(* What the journal says of a delivery is what happened to the packet. *)
THEOREM JournalIsTrue == Spec => []JournalTellsTruth
<1>1. DInv => JournalTellsTruth
  BY DEF DInv, Outcome, JournalTellsTruth
<1> QED
  BY <1>1, DeliveryInvariant, PTL

(* A dispatch that ended after an accepted turn, not as failed, left its seat a thread. *)
THEOREM SeatRemembered == Spec => []SeatIsRemembered
<1>1. DInv => SeatIsRemembered
  BY DEF DInv, Types, Outcome, Remembered, Threaded, SeatIsRemembered
<1> QED
  BY <1>1, DeliveryInvariant, PTL

LEMMA StepKeepsThreads ==
  ASSUME DInv, [Next]_vars
  PROVE  Keeps
<1>1. CASE \E p \in Dispatch : Saves(p)
  BY <1>1, SaveMerges
<1>2. CASE ~\E p \in Dispatch : Saves(p)
  <2>1. seats' = seats
    BY <1>2 DEF Next, vars, Step, Loads, EnsureFails, OpensNew, Resumes, ResumeFails, Unknown,
       Fails, ResumeNotFound, Starts, StartFails, TurnAccepted, TurnRejected, TurnUnanswered,
       FallsBack, ToClipboard, ClipboardFails, RecordsReceipt, Records, Dies, Deletes
  <2>2. QED
    BY <2>1 DEF Keeps, Threaded
<1>3. QED
  BY <1>1, <1>2

(* No save of a stale snapshot takes a thread from a seat. *)
THEOREM ThreadsKept == Spec => ThreadIsKept
<1>1. DInv /\ [Next]_vars => [\A s \in Seat : seats[s] # None /\ seats[s].thread # None =>
                                seats'[s] # None /\ seats'[s].thread # None]_seats
  BY StepKeepsThreads DEF Keeps, Threaded
<1> QED
  BY <1>1, DeliveryInvariant, PTL DEF Spec, ThreadIsKept
=============================================================================
