SPECIFICATION Spec
CONSTANTS
  MaxJobs = 2
  MaxCrashes = 1
  MaxCommits = 1
  KeepJobs = 1
  None = None
  Updater = Updater
  Unowned = Unowned
INVARIANT
  RestartKeepsRecovery
