SPECIFICATION Spec
CONSTANTS
  Research = {"r1"}
  Action = {"a1"}
  Unsupported = {"u1"}
  MaxFaults = 1
PROPERTIES ActionAnswerKept
CHECK_DEADLOCK FALSE
