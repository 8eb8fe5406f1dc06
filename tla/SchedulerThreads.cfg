SPECIFICATION Spec
CONSTANTS
  Coros = {a, b}
  Workers = {w1, w2}
  MaxSleeps = 2
  None = None
INVARIANTS
  NeverOnTwoThreads
CHECK_DEADLOCK FALSE
