\* Three calls, two of which can share an id, racing for one free assignment.
SPECIFICATION Spec
CONSTANTS
  Handlers = {h1, h2, h3}
  RequestIds = {r1, r2}
  Contents = {c1, c2}
  NumExecutors = 2
  MaxAssignments = 1
  ExecutionEnabled = TRUE
  MaxRestarts = 0
  None = None
SYMMETRY Symmetry
INVARIANTS
  TypeOK
  AtMostOnePost
  VerdictsAgree
  AcceptedIsBuilt
  RefusalsAreFinal
  EveryClaimHasATask
  NoLostWakeup
PROPERTIES
  ImplementsSubmitOnce
