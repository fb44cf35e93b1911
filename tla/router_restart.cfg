\* Three copies of one request, one executor, and one restart between them.
SPECIFICATION FairSpec
CONSTANTS
  Handlers = {h1, h2, h3}
  RequestIds = {r1}
  Contents = {c1}
  NumExecutors = 1
  MaxAssignments = 2
  ExecutionEnabled = TRUE
  MaxRestarts = 1
  None = None
INVARIANTS
  RejectedMeansNoBuild
PROPERTIES
  ImplementsSubmitOnce
  RetainedNeverChanges
  EveryCallEnds
