SPECIFICATION Spec
CONSTANTS
  Runs = {r1, r2}
  Outcomes <- MCOutcomes
  NoRun = NoRun
  MaxPolls = 2
  MaxPauses = 2
  MaxFaults = 1
INVARIANTS PasswordGoesWhereAsked
SYMMETRY MCSymmetry
CHECK_DEADLOCK FALSE
