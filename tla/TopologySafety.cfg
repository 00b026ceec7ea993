SPECIFICATION Spec
CONSTANTS
  a = a
  b = b
  c = c
  x = x
  gone = gone
  NoParent = NoParent
  Own = Own
  Other = Other
  Configs <- SomeConfigs
  TargetContents <- SomeHierarchies
  SourceFiles <- SomeFiles
  MaxRefreshes = 1
  MaxEdits = 1
INVARIANTS
  FilterIsExact
  RowsHaveTheirSnapshot
  ConsumersAgree
  HardValidationIsAllOrNothing
CHECK_DEADLOCK FALSE
