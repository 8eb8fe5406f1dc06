SPECIFICATION Spec
CONSTANTS
  Calls = {a, b}
  DeadlineCalls = {a}
  SyncCalls = {b}
  LoopCalls = {a}
  NoCall = NoCall
  Heartbeats = TRUE
  MaxConnects = 2
  MaxQueue = 1
INVARIANTS
  TypeOK
  DoneAtMostOnce
  TableExact
  SlotAccounting
  MatchedById
  ConnectionFate
  ClosedMeansDone
PROPERTIES
  HonoursContract
\* Every call done and no timer left: the system rests.
CHECK_DEADLOCK FALSE
