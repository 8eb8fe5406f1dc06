SPECIFICATION Spec
CONSTANTS
  Calls = {a, b}
  DeadlineCalls = {a}
  SyncCalls = {}
  LoopCalls = {}
  NoCall = NoCall
  Heartbeats = FALSE
  MaxConnects = 1
  MaxQueue = 0
INVARIANTS
  LateResponseDropped
\* Every call done and no timer left: the system rests.
CHECK_DEADLOCK FALSE
