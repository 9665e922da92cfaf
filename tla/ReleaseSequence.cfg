SPECIFICATION SequenceSpec
CONSTANTS
  Commit <- MCCommit
  Past <- MCPast
  Files <- MCFiles
  Branch <- MCBranch
  Tip <- MCTip
  RuntimePaths <- MCRuntimePaths
  MigrationPaths <- MCMigrationPaths
  Expects <- MCExpects
  Modelled <- MCModelled
  Document <- MCDocument
  Kind <- MCKind
  HistoryLimit = 10
  OnPrd2 = TRUE
  StartupContract = TRUE
  First = "c1"
  BaselinesKept = TRUE
  MaxReleases = 2
INVARIANTS ServedIsPrepared MigrationsInOrder
PROPERTIES AppliedOffline RollbackRestores NoDowngrade
CHECK_DEADLOCK FALSE
