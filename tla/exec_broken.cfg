SPECIFICATION Spec
CONSTANTS
  Plans <- MCPlans
  Calls = {0}
  Execute = 0
  PoolSize = 1
  Fields <- MCFields
  Secret <- MCSecret
  MaxFaults = 0
INVARIANT EndedActionsAreAnswered
CHECK_DEADLOCK FALSE
