SPECIFICATION FairSpec
CONSTANTS
  Plans <- MCPlans
  Calls = {0, 1, 2}
  Execute = 0
  PoolSize = 2
  Fields <- MCFields
  Secret <- MCSecret
  MaxFaults = 1
INVARIANTS CompletedMeansAllSucceeded OutcomeMatchesNodes PauseIsResumable DependenciesFirst WithinAttemptBudget ActionAnswered
PROPERTIES Lifecycle EveryCallReturns RunSettles
CHECK_DEADLOCK FALSE
