\* One invocation, two collectors, one bystander, two answers, two faults.
SPECIFICATION Spec
CONSTANTS
  NoRec = NoRec
  Collector = {c1, c2}
  Bystander = {b1}
  Inv = {i1}
  Digest = {d1, d2}
  Bad = Bad
  None = None
  Nobody = Nobody
  MaxFault = 2
SYMMETRY Symmetry
INVARIANTS TypeOK AdoptedStays MergedIsBacked HolderIsCurrent SendsOnlyPrepared
PROPERTIES ImplementsAdoption
