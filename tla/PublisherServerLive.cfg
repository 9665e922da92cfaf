SPECIFICATION FairSpec
CONSTANTS
  MaxJobs = 1
  MaxCrashes = 1
  MaxCommits = 1
  KeepJobs = 1
  None = None
  Updater = Updater
  Unowned = Unowned
PROPERTIES
  CancelEnds
  NewVersionLoaded
