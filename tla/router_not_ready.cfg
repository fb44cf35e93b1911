SPECIFICATION Spec
CONSTANTS
  Handlers = {h1, h2}
  RequestIds = {r1}
  Contents = {c1}
  NumExecutors = 1
  MaxAssignments = 1
  ExecutionEnabled = TRUE
  MaxRestarts = 0
  None = None
PROPERTIES
  NotReadyMeansNotAttempted
