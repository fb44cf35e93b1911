SPECIFICATION Spec
CONSTANTS
  NumJobs = 4
  Unknown = {0}
INVARIANTS
  TypeOK
  OrderIsTopological
  CycleIsReal
  OrderIsDeterministic
  CountsAreExact
