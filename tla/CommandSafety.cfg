SPECIFICATION Spec
CONSTANTS
  Commands <- Representatives
  MaxRows = 2
  MaxInterrupts = 2
INVARIANTS
  ExitAgreesWithLedger
  FailureReachesReport
  NothingLeftOpen
CHECK_DEADLOCK FALSE
