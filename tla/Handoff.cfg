\* Two commands, one answer, a transcript of four lines, two faults.
SPECIFICATION SpecFollowup
CONSTANTS
  Proc = {p1, p2}
  Answer = {a1}
  Bad = Bad
  None = None
  MaxLines = 4
  MaxFault = 2
SYMMETRY Symmetry
INVARIANTS TypeOKFollowup RetryIsSafe CollectsTheReply ToldOfMerged
PROPERTIES ImplementsOneShot NothingSentWhenOver ScratchIsKept ToldOnce
CHECK_DEADLOCK FALSE
