\* Two planners over one reference; partial rows are planned.
CONSTANTS
  Datasets = {"staff"}
  Rows = {"a", "b"}
  Lines = {1, 2}
  Lookups = {"A", "B"}
  Fields = {"deputy"}
  HomeOf <- OneHome
  LineOf <- OneLine
  LookupOf <- OneLookup
  NeedsOf <- OneNeeds
  MaxAttempts = 2
  AllowPartial = TRUE
  TopologyField = "none"
  OnAmbiguous = "pending"
  OnMissing = "skip"
  Planners = {p1, p2}
  Syncers = {}
  InTarget = {}
  MaxRuns = 2
  MaxLinks = 3
SPECIFICATION LiveSpec
INVARIANTS
  RacesAreBounded
PROPERTIES
  RunEnds
CHECK_DEADLOCK FALSE
