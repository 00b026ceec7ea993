\* One planner and one syncer; a row waits for all its references.
CONSTANTS
  Datasets = {"staff", "org"}
  Rows = {"a", "b", "c"}
  Lines = {1, 2}
  Lookups = {"B", "C"}
  Fields = {"unit", "deputy"}
  HomeOf <- Home
  LineOf <- Line
  LookupOf <- Lookup
  NeedsOf <- Needs
  MaxAttempts = 2
  AllowPartial = FALSE
  TopologyField = "deputy"
  OnAmbiguous = "pending"
  OnMissing = "hard_error"
  Planners = {p1}
  Syncers = {s1}
  InTarget = {"c"}
  MaxRuns = 2
  MaxLinks = 4
SPECIFICATION Spec
INVARIANTS
  PlannedRowsAreComplete
  ResolvedIsJustified
CHECK_DEADLOCK FALSE
