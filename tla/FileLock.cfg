\* Three processes, one of which may die.
SPECIFICATION FairSpec
CONSTANTS
  Proc = {p1, p2, p3}
  Stale = 2
  Timeout = 3
  MaxDeaths = 1
  NoFile = NoFile
INVARIANTS ExclusiveUnlessUpset
PROPERTIES TimeoutMeansTurnover ResidueIsReclaimed
