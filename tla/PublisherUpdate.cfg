SPECIFICATION Spec
CONSTANTS
  Version = {"v0", "v1", "v2"}
  First = "v0"
  None = "none"
  MaxHosts = 3
  Script = {"s1", "s2"}
  Candidate <- MCCandidate
  Legacy = {"v0"}
INVARIANTS
  StoppedIsGone
PROPERTIES
  NoJobStopped
  EndsAsReported
CHECK_DEADLOCK FALSE
