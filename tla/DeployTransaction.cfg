CONSTANTS
  Txn = {t1, t2}
  Foreign = Foreign
  Base = Base
  None = None
  MaxForeign = 1
SPECIFICATION Spec
INVARIANTS TypeOK NotSubmittedIsFinal RestoredStaysRestored
PROPERTIES NoStacking ImplementsOutcome
CHECK_DEADLOCK FALSE
