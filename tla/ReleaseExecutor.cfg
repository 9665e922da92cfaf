SPECIFICATION Spec
CONSTANTS
  Steps <- MCSteps
INVARIANTS CleanExit RolledBackIsOld ExecutedIsAccepted MeelokAnswered
PROPERTIES TargetStays
CHECK_DEADLOCK FALSE
