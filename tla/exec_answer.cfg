SPECIFICATION Spec
CONSTANTS
  Plans <- PlannerPlans
  Calls = {0, 1}
  Execute = 0
  PoolSize = 1
  Fields <- MCFields
  Secret <- MCSecret
  MaxFaults = 0
INVARIANT AnswerIsTrue
CHECK_DEADLOCK FALSE
