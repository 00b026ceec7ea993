SPECIFICATION Spec
CONSTANTS
    Nil = Nil
    Empty = Empty
    Fails = Fails
    Broken = Broken
    NoParent = NoParent
    n1 = n1
    n2 = n2
    m1 = m1
    m2 = m2
    blank = blank
    bad = bad
    d1 = d1
    d2 = d2
    l1 = l1
    l2 = l2
    l1x = l1x
    p1 = p1
    p2 = p2
    t1 = t1
    t2 = t2
    t3 = t3
    u1 = u1
    top = top
    MaxRows = 2
    Configs <- SomeConfigs
    Sources <- SomeSources
    Histories <- SomeHistories
    Files <- SomeFiles
    MatchBatch = 2
    ResolveBatch = 2
    Intervals = TRUE
    VaultFails = TRUE
INVARIANTS
  NoRowLost
  OnePlannedPerIdentity
  DecisionsShareASnapshot
  PlanAgreesWithCache
  SecretsAreStored
  LookupsArePinned
