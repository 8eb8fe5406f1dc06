SPECIFICATION FairSpec
CONSTANTS
  Calls = {a, b}
  DeadlineCalls = {a, b}
  SyncCalls = {b}
  LoopCalls = {}
  NoCall = NoCall
  Heartbeats = FALSE
  MaxConnects = 2
  MaxQueue = 0
INVARIANTS
  DeadlineArmed
PROPERTIES
  CallsComplete
\* Every call done and no timer left: the system rests.
CHECK_DEADLOCK FALSE
