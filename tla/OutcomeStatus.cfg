SPECIFICATION Spec
CONSTANTS
  MaxDeployments = 3
  MaxChecks = 1
  MaxReceipts = 1
  None = None
INVARIANTS
  ShownCurrentIsRecent
  MatchedIsChecked
