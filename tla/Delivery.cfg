\* Two dispatches of a Codex and a Grok seat, two threads.
SPECIFICATION Spec
CONSTANTS
  Dispatch = {p1, p2}
  Codex = {codex}
  Grok = {grok}
  Thread = {t1, t2}
  None = None
SYMMETRY Symmetry
INVARIANTS CodexHandsOverOnce JournalTellsTruth SeatIsRemembered
PROPERTIES ThreadIsKept
CHECK_DEADLOCK FALSE
