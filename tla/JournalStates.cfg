\* One invocation through every state, recovery epochs, routes, rounds, human actions.
SPECIFICATION Spec
CONSTANTS
  NoRec = NoRec
  Proc = {p1, p2}
  Inv = {i1}
  Seat = {a}
  Participant = {a}
  Act = {h1}
  NewStates = {"delivered", "delivery-unknown", "waiting", "cancelled",
               "output-received", "validated", "merged", "failed"}
  NewDetails = {"wait"}
  Routes = {"relay"}
  MaxRound = 2
  MaxEpoch = 1
SYMMETRY Symmetry
INVARIANTS TypeOK SettledBelowDisk
PROPERTIES DiskMonotone NothingDroppedSilently
CHECK_DEADLOCK FALSE
