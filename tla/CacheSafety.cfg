\* Two commands at a time, three in all, one schema change, two versions of a record.
SPECIFICATION Spec
CONSTANTS
  orgs = orgs
  employees = employees
  Datasets <- TwoDatasets
  Deps <- EmployeesNeedOrgs
  Keys = {k}
  Procs = {p, q}
  None = None
  Refreshes <- TwoRefreshes
  Clears <- TwoClears
  Rebuilds = TRUE
  RebuildsAll = FALSE
  MaxSpec = 2
  MaxVersion = 2
  MaxCommands = 3
SYMMETRY Symmetric
INVARIANTS
  MetaCountsRows
  RowsUnderRecordedHash
PROPERTIES
  CacheNeverGoesBack
  CleanRefreshIsComplete
CHECK_DEADLOCK FALSE
