\* Two collectors, three invocations of two named seats and a guest, two rounds.
SPECIFICATION SpecRounds
CONSTANTS
  NoRec = NoRec
  Nothing = Nothing
  Proc = {p1, p2}
  Inv = {i1, i2, i3}
  Seat = {a, b, g}
  Participant = {a, b}
  Act = {}
  NewStates = {"failed"}
  NewDetails = {}
  Routes = {}
  MaxRound = 2
  MaxEpoch = 0
SYMMETRY Symmetry
INVARIANTS RoundSound NoAdvanceIsLost AnswersStandInOrder DisplayNotAhead
CHECK_DEADLOCK FALSE
