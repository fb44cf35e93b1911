\* Two runs of three jobs over a table bounded to one.
SPECIFICATION FairSpec
CONSTANTS
  Runs = {r1, r2}
  Configs <- MCConfigs
  NumJobs = 3
  MaxRuns = 1
  MaxPolls = 2
  TimeoutOverflows = FALSE
  None = None
INVARIANTS
  TypeOK
  SuccessIsReal
  DependentsWait
  EachJobBuiltOnce
  WorkingRunsAreKept
PROPERTIES
  ReadyRunsStart
  RunsEnd
