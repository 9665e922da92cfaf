SPECIFICATION Spec
CONSTANTS
  Candidate = {c1, c2}
  Baseline = base
  Process = {p1, p2}
  None = none
  MaxLate = 1
  MaxEvents = 3
INVARIANTS
  AcceptedHasServed
PROPERTIES
  DistributedIsReady
  BindingKept
SYMMETRY Symmetry
CHECK_DEADLOCK FALSE
