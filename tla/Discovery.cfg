SPECIFICATION FairSpec
CONSTANTS
  Ids = {1, 2}
  Addresses = {x, y}
  Watchers = {1, 2, 3}
  MaxVersion = 4
  MaxAgents = 3
  Modes = {TRUE, FALSE}
INVARIANTS
  WatchersUpToDate
  ChannelsAccounted
PROPERTIES
  ExpiredLeaves
\* The versions and the threads run out.
CHECK_DEADLOCK FALSE
