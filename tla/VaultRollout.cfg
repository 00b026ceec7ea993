SPECIFICATION Spec
CONSTANTS
    d1 = d1
    d2 = d2
    r1 = r1
    r2 = r2
    any = any
    Nil = Nil
    Everything = any
    Datasets = {d1, d2}
    SecretDatasets = {d1}
    Ephemeral = {d1}
    Runs = {r1, r2}
    Bucket <- MCBucket
    Rollouts <- MCRollouts
    Passphrases = {"p", "q"}
    Gates <- MCGates
    AdminPasswords = {"admin", "other"}
    PlanRows = 25
    Outcomes <- MCOutcomes
    Options <- MCOptions
    Answers <- MCAnswers
    ManagedRuns = 0
    RowThreshold = 5000
    VaultThreshold = 5000
INVARIANTS
  PlansStayApplicable
  UnappliedPlansKeepSecrets
