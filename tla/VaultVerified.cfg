\* Two processes, four commands, every init verified.
CONSTANTS
  Procs = {p1, p2}
  Slots = {s1}
  MaxRuns = 4
  InitSkipsVerify = FALSE
SPECIFICATION Spec
SYMMETRY Processes
INVARIANTS
  Recoverable
PROPERTIES
  RotationIsSerial
  ImplementsSealedVault
CHECK_DEADLOCK FALSE
