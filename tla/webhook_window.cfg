SPECIFICATION Spec
CONSTANTS
  Copies = {c1, c2, c3}
  Deliveries = {d1, d2}
  Events <- MCEvents
  NumPaths = 2
  Ttl = 2
  MaxDeliveries = 1
  WebhookExecutionEnabled = TRUE
  ExecutionEnabled = TRUE
  MaxClock = 3
  None = None
SYMMETRY Symmetry
INVARIANTS
  TypeOK
  DispatchedOncePerWindow
  DuplicateWasClaimed
  RetentionIsBounded
  RunSetsAreWhole
