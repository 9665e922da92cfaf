SPECIFICATION FairSpec
CONSTANTS
  MaxJobs = 2
  MaxStops = 2
  None = None
INVARIANT FollowedIsPolled
PROPERTIES
  NewestShown
  ReleasedIsOver
  EndShown
