SPECIFICATION Spec
CONSTANTS
  Size = 4
  Modulus = 8
  MaxBatch = 5
  Value = {v1, v2}
  None = None
  OverflowChecks = {TRUE}
  ReuseWriter = FALSE
  MapInFlight = FALSE
INVARIANT
  NeverPanics
CHECK_DEADLOCK FALSE
