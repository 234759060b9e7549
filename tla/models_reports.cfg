SPECIFICATION Spec
CONSTANTS
  Calls = {c1, c2, c3}
  None = None
  MaxFaults = 3
INVARIANTS ReportsAreOwn
SYMMETRY MCSymmetry
CHECK_DEADLOCK FALSE
