\* Two runs of one plan, the second possibly a re-run after a crash or a restart.
SPECIFICATION Spec
CONSTANTS
  Runs = {r1, r2}
  Configs <- MCConfigs
  NumJobs = 2
  MaxRuns = 1
  Executors = {e1, e2}
  Content = content
  MaxRestarts = 1
  None = None
SYMMETRY Symmetry
INVARIANTS
  BuiltOncePerRouter
  SuccessIsReal
  DependentsWait
PROPERTIES
  ImplementsWorkflowRuns
