SPECIFICATION FairSpec
CONSTANTS
  Group = 8
  Word = 256
  VarintMax = 3
  DoubleBytes = 2
  MaxBodyLen = 30
  Magic = 77
  Bodies <- MCBodies
  Scripts <- MCScripts
  Mark = 6
  Window = 4
INVARIANTS
  DeliveredInOrder
  NothingForgotten
  ReceivedAsSent
PROPERTIES
  SlowConsumerGoes
  ClosedForGood
\* A connection that was closed is at rest.
CHECK_DEADLOCK FALSE
