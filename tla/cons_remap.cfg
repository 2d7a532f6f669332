SPECIFICATION Spec
CONSTANTS
  Size = 4
  Modulus = 8
  MaxBatch = 5
  Value = {v1, v2}
  None = None
  OverflowChecks = {FALSE}
  ReuseReader = FALSE
  MapInFlight = TRUE
INVARIANT
  ReadsAcquired
