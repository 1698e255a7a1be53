\* Codex and Grok on every platform, two sends, two processes, two threads.
SPECIFICATION Spec
CONSTANTS
  Thread = {t1, t2}
  None = None
  Platform = {"posix", "job", "nojob"}
  AgentId = {5}
  MaxProc = 2
  MaxSend = 2
SYMMETRY Symmetry
INVARIANTS TurnFindsItsThread FallsBackAlone LeavesNothingInJob
PROPERTIES OwnAnswer
CHECK_DEADLOCK FALSE
