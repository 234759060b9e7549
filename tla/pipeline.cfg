SPECIFICATION FairSpec
CONSTANTS
  Research = {"r1"}
  Action = {"a1"}
  Unsupported = {"u1"}
  MaxFaults = 1
INVARIANTS DraftsAreFinal SeenWasTold
PROPERTIES ToldOnceSeen PruneAfterTold ListedIsTold
CHECK_DEADLOCK FALSE
