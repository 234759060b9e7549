SPECIFICATION FairSpec
CONSTANTS
  Keys <- MCKeys
  Near <- MCNear
  Workers <- MCWorkers
  Process <- MCProcess
  MinSuccess = 1
  TrustNum = 3
  TrustDen = 5
  MaxAttempts = 3
  MaxFaults = 1
INVARIANTS StepsAreVerified LockIsKept
PROPERTIES UpdatesAreAtomic RecordingEnds
CHECK_DEADLOCK FALSE
