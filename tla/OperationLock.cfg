SPECIFICATION LockSpec
CONSTANTS
  Token = {j1, j2, u1, u2}
  JobToken = {j1, j2}
  Nobody = Nobody
INVARIANTS
  Exclusive
PROPERTIES
  GateSeesUpdates
  ImplementsMutex
