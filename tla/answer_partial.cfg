SPECIFICATION AnsweringSpec
CONSTANTS
  Runs = {r1}
  Length <- ShortAndLong
  Size = 3
  Overlap = 1
  TopK = 2
  Attempts = 2
  MaxOutages = 0
PROPERTIES EndedMeansAllThere
CHECK_DEADLOCK FALSE
