------------------------------ MODULE Adoption ------------------------------
(***************************************************************************)
(* What collecting an answer promises: each invocation is either closed    *)
(* without an answer or adopts exactly one, for good, and only an adopted  *)
(* answer is acknowledged as merged.                                       *)
(***************************************************************************)
CONSTANTS Inv,        \* invocations
          Answer,     \* the answers a seat may give
          NoAnswer    \* stands for the absence of one

VARIABLES phase, answer

Phase == {"open", "adopted", "acknowledged", "closed"}

Init ==
  /\ phase = [i \in Inv |-> "open"]
  /\ answer = [i \in Inv |-> NoAnswer]

Adopt(i, a) ==
  /\ phase[i] = "open"
  /\ phase' = [phase EXCEPT ![i] = "adopted"]
  /\ answer' = [answer EXCEPT ![i] = a]

Acknowledge(i) ==
  /\ phase[i] = "adopted"
  /\ phase' = [phase EXCEPT ![i] = "acknowledged"]
  /\ UNCHANGED answer

Close(i) ==
  /\ phase[i] = "open"
  /\ phase' = [phase EXCEPT ![i] = "closed"]
  /\ UNCHANGED answer

Next == \E i \in Inv : (\E a \in Answer : Adopt(i, a)) \/ Acknowledge(i) \/ Close(i)

Spec == Init /\ [][Next]_<<phase, answer>>
=============================================================================
