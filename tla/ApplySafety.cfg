SPECIFICATION LiveSpec
CONSTANTS
  a = a
  b = b
  i1 = i1
  i2 = i2
  i3 = i3
  p1 = p1
  p2 = p2
  Keys = {a, b}
  Foreigner = foreigner
  Ids = {i1, i2, i3, f1, f2, f3}
  Plans = {p1, p2}
  Items <- TwoPlans
  None = None
  MaxRetries = 2
  MaxApplies = 2
  MaxLate = 1
INVARIANTS
  OneIdPerRun
  ReapplyIsIdempotent
  IdentityNamesOwner
  SecretGoneMeansDelivered
  ReportedMeansDelivered
PROPERTY ApplyEnds
CHECK_DEADLOCK FALSE
