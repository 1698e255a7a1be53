\* Two processes, two files, one text, index.lock tried twice, two faults.
SPECIFICATION FairSpec
CONSTANTS
  Proc = {p1, p2}
  File = {f1, f2}
  Text = {t1}
  Alien = Alien
  None = None
  Nobody = Nobody
  Left = Left
  MaxTries = 2
  MaxFault = 2
INVARIANTS TypeOK ReturnedIsCommitted BuildsOnCommitted
PROPERTIES ImplementsWitness EveryCallEnds
CHECK_DEADLOCK FALSE
