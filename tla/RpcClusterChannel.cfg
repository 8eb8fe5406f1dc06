SPECIFICATION FairSpec
CONSTANTS
  Calls = {a}
  MaxInstances = 2
  Balancers = {"none", "healthy", "hash"}
  MaxAttempts = 2
  Tokens = 1
  Hedging = TRUE
  Recovery = TRUE
  MaxChanges = 1
  Nobody = Nobody
INVARIANTS
  DoneOnce
  SendsBounded
  RetriesBudgeted
  SuccessIsReal
  BackupElsewhere
PROPERTIES
  CallCompletes
\* Every call over: the system rests.
CHECK_DEADLOCK FALSE
