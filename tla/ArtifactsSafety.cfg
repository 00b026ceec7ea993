SPECIFICATION Spec
CONSTANTS
  Processes = {p1, p2}
  RetentionDays = 0
  DayLength = 1
  LastTick = 3
  ReportRetention = 1
  MaxRuns = 3
  MaxCrashes = 1
  LastDay = 2
  MaxBytes = 2
  Backups = 2
  MaxLines = 8
  MaxCuts = 1
SYMMETRY Symmetric
INVARIANTS
  PointerOrPublisher
  ActiveFileBounded
  LossesHaveACause
PROPERTIES
  LoneSweepKeepsRecords
  BackupsComeFirst
CHECK_DEADLOCK FALSE
