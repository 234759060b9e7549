SPECIFICATION Spec
CONSTANTS
  Calls = {c1, c2, c3}
  None = None
  MaxFaults = 3
INVARIANTS TracingIsHarmless TextReportsAreOwn
SYMMETRY MCSymmetry
CHECK_DEADLOCK FALSE
