SPECIFICATION FairSpec
CONSTANTS
  Runs <- MCRuns
  Status <- MCStatus
  Writers <- MCWriters
  Process <- OneProcess
  Saves <- SharedRun
  Prunes <- OwnOldRun
  MaxOps <- MCOps
  MaxCrashes = 1
INVARIANTS FilesWhole IndexAgrees
PROPERTIES AtomicIndex SavesEnd
CHECK_DEADLOCK FALSE
