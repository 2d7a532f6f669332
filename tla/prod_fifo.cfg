SPECIFICATION FairSpec
CONSTANTS
  Size = 4
  Modulus = 8
  MaxBatch = 5
  Value = {v1, v2}
  None = None
  OverflowChecks = {TRUE, FALSE}
  ReuseWriter = FALSE
  MapInFlight = FALSE
INVARIANTS
  TypeOK
  HeadOrder
  ReservationOwned
  ReservationAcquired
  PublishedOrdered
PROPERTIES
  ImplementsChannel
  SlotsAgain
CHECK_DEADLOCK FALSE
