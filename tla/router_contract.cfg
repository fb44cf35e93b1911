SPECIFICATION Spec
CONSTANTS
  SpecLists <- MCSpecLists
  UpstreamIds <- MCUpstreamIds
  StatusIds <- MCStatusIds
  Jobs <- MCJobs
  MaxExecutors = 2
  MaxIdLength <- MCMaxIdLength
  None = None
INVARIANTS
  ExecutableJobsAreTaken
  RoutesLeadBack
  OnlyRoutesAreFollowed
  ExecutorsAreDistinct
