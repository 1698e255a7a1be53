\* One invocation, two collectors, one bystander, one answer, two faults, fairness.
SPECIFICATION FairSpec
CONSTANTS
  NoRec = NoRec
  Collector = {c1, c2}
  Bystander = {b1}
  Inv = {i1}
  Digest = {d1}
  Bad = Bad
  None = None
  Nobody = Nobody
  MaxFault = 2
PROPERTIES EverythingSettles
