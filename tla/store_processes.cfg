SPECIFICATION Spec
CONSTANTS
  Runs <- MCRuns
  Status <- MCStatus
  Writers <- MCWriters
  Process <- TwoProcesses
  Saves <- OwnRun
  Prunes <- Never
  MaxOps <- MCOps
  MaxCrashes = 0
INVARIANT IndexAgrees
CHECK_DEADLOCK FALSE
