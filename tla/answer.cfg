SPECIFICATION AnsweringSpec
CONSTANTS
  Runs = {r1, r2}
  Length <- ShortAndLong
  Size = 3
  Overlap = 1
  TopK = 2
  Attempts = 2
  MaxOutages = 1
INVARIANTS SourcesWereFetched CaveatIsTrue RetrievalIsWhole
CHECK_DEADLOCK FALSE
