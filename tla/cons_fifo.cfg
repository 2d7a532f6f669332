SPECIFICATION FairSpec
CONSTANTS
  Size = 4
  Modulus = 8
  MaxBatch = 5
  Value = {v1, v2}
  None = None
  OverflowChecks = {TRUE, FALSE}
  ReuseReader = FALSE
  MapInFlight = FALSE
INVARIANTS
  TypeOK
  HeadOrder
  ReadsAcquired
  PeekedNotOverwritten
  ReleasedOrdered
PROPERTIES
  ImplementsChannel
  Drained
CHECK_DEADLOCK FALSE
