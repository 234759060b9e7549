SPECIFICATION Spec
CONSTANTS
  Keys <- MCKeys
  Near <- MCNear
  Workers <- MCWorkers
  Process <- MCProcess
  MinSuccess = 1
  TrustNum = 3
  TrustDen = 5
  MaxAttempts = 3
  MaxFaults = 0
PROPERTIES WorkingRecordsStay
CHECK_DEADLOCK FALSE
