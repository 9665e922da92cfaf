CONSTANTS
  Id = {i1, i2}
  N = 2
  None = None
  MaxSends = 2
SPECIFICATION Spec
INVARIANTS StoppedIsMarked RestoreOnce
PROPERTIES VerifiedIsRunning
CHECK_DEADLOCK FALSE
