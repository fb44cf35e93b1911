SPECIFICATION Spec
CONSTANTS
  Copies = {c1, c2}
  Deliveries = {d1}
  Events <- Pushes
  NumPaths = 2
  Ttl = 2
  MaxDeliveries = 1
  WebhookExecutionEnabled = TRUE
  ExecutionEnabled = TRUE
  MaxClock = 1
  None = None
SYMMETRY Symmetry
INVARIANTS
  DuplicateWasDispatched
