SPECIFICATION FairSpec
CONSTANTS
  Research = {"r1", "r2"}
  Action = {}
  Unsupported = {}
  MaxFaults = 1
PROPERTY ReadableIsTold
CHECK_DEADLOCK FALSE
