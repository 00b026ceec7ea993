\* `init --no-verify` in use: what still holds when the vault has no DEK yet,
\* and that a rotation mark is resolved unless its own command is killed.
CONSTANTS
  Procs = {p1, p2}
  Slots = {s1}
  MaxRuns = 3
  InitSkipsVerify = TRUE
SPECIFICATION LiveSpec
INVARIANTS
  AtMostOneActive
  NoDanglingDek
PROPERTY
  RotationResolves
CHECK_DEADLOCK FALSE
