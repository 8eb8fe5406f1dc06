SPECIFICATION FairSpec
CONSTANTS
  Coros = {a, b}
  Workers = {w1, w2}
  MaxSleeps = 2
  None = None
INVARIANTS
  OnePlace
  DeletedOnce
PROPERTIES
  CoroutinesFinish
  WorkersEnd
\* stop() may be waiting for ever, or be over.
CHECK_DEADLOCK FALSE
