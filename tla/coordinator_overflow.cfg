SPECIFICATION FairSpec
CONSTANTS
  Runs = {r1}
  Configs <- CompleteConfigs
  NumJobs = 1
  MaxRuns = 1
  MaxPolls = 1
  TimeoutOverflows = TRUE
  None = None
PROPERTIES
  RunsEnd
