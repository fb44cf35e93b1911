SPECIFICATION Spec
CONSTANTS
  Requests <- MCRequests
  MaxJobs = 2
  MaxSteps = 2
  None = None
INVARIANTS
  UnsupportedIsRefused
