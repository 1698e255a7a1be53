\* One dispatch on POSIX.
SPECIFICATION Spec
CONSTANTS
  Thread = {t1}
  None = None
  Platform = {"posix"}
  AgentId = {}
  MaxProc = 1
  MaxSend = 1
INVARIANTS LeavesNothing
CHECK_DEADLOCK FALSE
