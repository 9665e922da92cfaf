SPECIFICATION Spec
CONSTANTS
  MaxJobs = 2
  MaxCrashes = 2
  MaxCommits = 1
  KeepJobs = 1
  None = None
  Updater = Updater
  Unowned = Unowned
INVARIANTS
  OneExecution
  StoreCoversExecution
  QuietStore
  RestartOnlyIdle
PROPERTY
  RecordedBeforeForgotten
