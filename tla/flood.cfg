SPECIFICATION FairSpec
CONSTANTS
  s1 = s1
  s2 = s2
  q1 = q1
  q2 = q2
  Sender = {s1, s2}
  Completer = {q1, q2}
  QueueOf <- OneEach
  total = 2
  batch = 2
  TxSize = 1
  CompleteSize = 1
  WAKE_THRESHOLD = 1
INVARIANTS
  TypeOK
  BudgetExact
  PacketsExact
PROPERTY
  Ends
CHECK_DEADLOCK FALSE
