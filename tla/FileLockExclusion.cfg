\* Two waiters judge one residue.
SPECIFICATION Spec
CONSTANTS
  Proc = {p1, p2, p3}
  Stale = 2
  Timeout = 3
  MaxDeaths = 1
  NoFile = NoFile
SYMMETRY Symmetry
INVARIANTS Exclusive
