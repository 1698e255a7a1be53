\* Two processes that write two files, no faults, index.lock tried as often as in the code.
SPECIFICATION Spec
CONSTANTS
  Proc = {p1, p2}
  File = {f1, f2}
  Text = {t1, t2}
  Alien = Alien
  None = None
  Nobody = Nobody
  Left = Left
  MaxTries = 20
  MaxFault = 0
SYMMETRY Symmetry
INVARIANTS LoserTriesAgain
CHECK_DEADLOCK FALSE
