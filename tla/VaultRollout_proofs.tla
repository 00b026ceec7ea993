------------------------- MODULE VaultRollout_proofs -------------------------
(***************************************************************************)
(* Theorems about VaultRollout for any datasets, runs, buckets, settings   *)
(* and sizes of a plan: raising the share strands no plan, what is not yet *)
(* applied keeps its secrets, staging writes none, and the verdict of a    *)
(* dry run is kept by the operation that follows it.                       *)
(***************************************************************************)
EXTENDS VaultRollout, TLAPS

Plans == [dataset : Datasets, run : Runs, secret : BOOLEAN, made : Rollouts]

\* Who is let in under some settings is let in under settings that cover them.
LEMMA CoversIsMonotone ==
  ASSUME NEW new \in Rollouts, NEW old \in Rollouts, Covers(new, old),
         NEW dataset \in Datasets, NEW run \in Runs, LetsIn(old, dataset, run)
  PROVE  LetsIn(new, dataset, run)
<1>1. CASE new.mode \in {"full", "staging_dry_run"}
  BY <1>1 DEF LetsIn
<1>2. CASE new.mode \notin {"full", "staging_dry_run"}
  <2>1. /\ new.mode = "canary" /\ old.mode = "canary" /\ new.percent >= old.percent
        /\ \/ new.datasets = {} \/ Everything \in new.datasets
           \/ old.datasets # {} /\ old.datasets \subseteq new.datasets
    BY <1>2 DEF Covers
  <2>2. Selected(old, dataset, run)
    BY <2>1 DEF LetsIn
  <2>3. Allowed(dataset, new.datasets)
    BY <2>1, <2>2 DEF Selected, Allowed
  <2>4. Bucket[<<dataset, run>>] \in 0 .. 99 /\ new.percent \in 0 .. 100 /\ old.percent \in 0 .. 100
    <3>1. <<dataset, run>> \in Datasets \X Runs
      OBVIOUS
    <3>2. \A c \in Datasets \X Runs : Bucket[c] \in 0 .. 99
      BY VaultRolloutAssumption
    <3>3. \A r \in Rollouts : r.percent \in 0 .. 100
      BY VaultRolloutAssumption
    <3>4. QED BY <3>1, <3>2, <3>3
  <2>5. new.percent > 0 /\ Bucket[<<dataset, run>>] < new.percent
    <3>1. \A b \in 0 .. 99, m, n \in 0 .. 100 :
             m > 0 /\ b < m /\ n >= m => n > 0 /\ b < n
      OBVIOUS
    <3>2. old.percent > 0 /\ Bucket[<<dataset, run>>] < old.percent
      BY <2>2, Zenon DEF Selected
    <3>3. QED BY <2>1, <2>4, <3>1, <3>2, Zenon
  <2>6. QED BY <2>1, <2>3, <2>5 DEF LetsIn, Selected
<1>3. QED BY <1>1, <1>2

\* A command that needs the vault and goes on was let in.
LEMMA EntryLetsIn ==
  ASSUME NEW mode \in Modes, NEW dataset, NEW run, NEW typed,
         Entry(mode, TRUE, dataset, run, typed) = "OK"
  PROVE  Requested(mode, TRUE) /\ LetsIn(rollout, dataset, run)
BY DEF Entry, ModeRefused, Requested, Blocked, Enabled, Modes

\* A command is a record of that shape, blocked only where it is not let in.
LEMMA RanFields ==
  ASSUME NEW command, NEW code, NEW requested, NEW dataset, NEW run
  PROVE  LET ran == Ran(command, code, requested, dataset, run)
         IN /\ ran.command = command /\ ran.code = code
            /\ ran.plan = Nil /\ ~ ran.dry /\ ~ ran.right
            /\ ran.blocked = Blocked(requested, dataset, run)
BY DEF Ran, NoCommand

-----------------------------------------------------------------------------
(* Types                                                                   *)

\* Of the runs whose secrets are stored, an apply keeps a part.
LEMMA KeptTyped ==
  ASSUME DOMAIN stored \subseteq Runs, \A r \in DOMAIN stored : stored[r] \in {"all", "some"},
         NEW plan, plan.run \in DOMAIN stored, NEW outcome
  PROVE  LET kept == Kept(plan, outcome)
         IN /\ DOMAIN kept \subseteq Runs
            /\ \A r \in DOMAIN kept : kept[r] \in {"all", "some"}
            /\ outcome.total = outcome.failed /\ ~ (outcome.failed = 0 /\ outcome.total = PlanRows)
                 /\ ~ outcome.total > outcome.failed => kept = stored
            /\ \A r \in DOMAIN stored : r # plan.run =>
                  r \in DOMAIN kept /\ kept[r] = stored[r]
BY DEF Kept, RestrictDomain, Restrict

\* Storing the secrets of a run that has none leaves those of the others.
LEMMA StoreTyped ==
  ASSUME DOMAIN stored \subseteq Runs, \A r \in DOMAIN stored : stored[r] \in {"all", "some"},
         NEW run \in Runs, run \notin DOMAIN stored, NEW dataset, NEW requested \in BOOLEAN,
         Store(run, dataset, requested)
  PROVE  /\ DOMAIN stored' \subseteq Runs
         /\ \A r \in DOMAIN stored' : stored'[r] \in {"all", "some"}
         /\ \A r \in DOMAIN stored : r \in DOMAIN stored' /\ stored'[r] = stored[r]
         /\ dataset \in SecretDatasets /\ requested =>
               run \in DOMAIN stored' /\ stored'[run] = "all"
<1>1. CASE dataset \in SecretDatasets /\ requested
  BY <1>1 DEF Store
<1>2. CASE ~ (dataset \in SecretDatasets /\ requested)
  BY <1>2 DEF Store
<1>3. QED BY <1>1, <1>2

\* The codes a command ends with.
LEMMA CodesTyped ==
  /\ \A mode, requires, dataset, run, typed :
        Entry(mode, requires, dataset, run, typed) \in {"OK", "INTERNAL_ERROR"}
  /\ \A mode, requires, dataset, run, typed :
        Blocked(Requested(mode, requires), dataset, run)
          => Entry(mode, requires, dataset, run, typed) # "OK"
  /\ \A mode, requires : Requested(mode, requires) \in BOOLEAN
BY DEF Entry, Requested

\* The settings, plans, secrets and applied runs keep their types: only a planning run
\* adds a plan and only the run of a plan is ever written.
THEOREM TypeCorrect == Spec => []TypeOK
<1>1. Init => TypeOK
  BY DEF Init, TypeOK
<1>2. TypeOK /\ [Next]_vars => TypeOK'
  <2> SUFFICES ASSUME TypeOK, [Next]_vars PROVE TypeOK'
    OBVIOUS
  <2> USE DEF TypeOK, Plans
  <2>1. ASSUME NEW settings \in Rollouts, Reconfigure(settings) PROVE TypeOK'
    BY <2>1 DEF Reconfigure
  <2>2. ASSUME NEW dataset \in Datasets, NEW run \in Runs, NEW mode \in Modes,
               NEW typed \in Passphrases, EnrichRows(dataset, run, mode, typed)
        PROVE  TypeOK'
    <3>1. run \notin DOMAIN stored /\ UNCHANGED <<rollout, vault, plans, written>>
      BY <2>2 DEF EnrichRows, Used
    <3>2. CASE stored' = stored
      BY <3>1, <3>2
    <3>3. CASE Store(run, dataset, Requested(mode, dataset \in SecretDatasets))
      BY <3>1, <3>3, StoreTyped, CodesTyped
    <3>4. QED BY <2>2, <3>2, <3>3 DEF EnrichRows
  <2>3. ASSUME NEW dataset \in Datasets, NEW run \in Runs, NEW mode \in Modes,
               NEW typed \in Passphrases, NEW secret \in BOOLEAN,
               ImportPlan(dataset, run, mode, typed, secret)
        PROVE  TypeOK'
    <3>1. run \notin DOMAIN stored /\ UNCHANGED <<rollout, vault, written>>
      BY <2>3 DEF ImportPlan, Used
    <3>2. CASE UNCHANGED <<plans, stored>>
      BY <3>1, <3>2
    <3>3. CASE /\ plans' = plans \cup {[dataset |-> dataset, run |-> run,
                                        secret |-> secret, made |-> rollout]}
               /\ Store(run, dataset, Requested(mode, dataset \in SecretDatasets))
      <4>1. plans' \subseteq Plans /\ plans \subseteq plans'
        BY <3>3 DEF Plans
      <4>2. /\ DOMAIN stored' \subseteq Runs
            /\ \A r \in DOMAIN stored' : stored'[r] \in {"all", "some"}
        BY <3>1, <3>3, StoreTyped, CodesTyped
      <4>3. written' \subseteq {p.run : p \in plans'}
        BY <3>1, <4>1
      <4>4. QED BY <3>1, <4>1, <4>2, <4>3
    <3>4. QED BY <2>3, <3>2, <3>3 DEF ImportPlan
  <2>4. ASSUME NEW plan \in plans, NEW own \in Runs, NEW mode \in Modes,
               NEW typed \in Passphrases, ImportApply(plan, own, mode, typed)
        PROVE  TypeOK'
    <3>1. UNCHANGED <<rollout, vault, plans>>
      BY <2>4 DEF ImportApply
    <3>2. CASE UNCHANGED <<stored, written>>
      BY <3>1, <3>2
    <3>3. ASSUME NEW dry \in BOOLEAN, NEW outcome \in Outcomes, Applied(plan, dry, outcome)
          PROVE  TypeOK'
      <4>1. written' \subseteq {p.run : p \in plans}
        BY <3>3 DEF Applied
      <4>2. /\ DOMAIN stored' \subseteq Runs
            /\ \A r \in DOMAIN stored' : stored'[r] \in {"all", "some"}
        BY <3>3, KeptTyped DEF Applied
      <4>3. QED BY <3>1, <4>1, <4>2
    <3>4. \A wantDry \in BOOLEAN :
             wantDry \/ ForcesDryRun(Requested(mode, plan.secret), "import-apply") \in BOOLEAN
      BY DEF ForcesDryRun
    <3>5. QED BY <2>4, <3>2, <3>3, <3>4 DEF ImportApply
  <2>5. ASSUME NEW op \in Operations, NEW opts \in Options, NEW gate \in Gates,
               NEW a \in Answers,
               Manage(op, opts, gate, a.confirms, a.admin, a.typed, a.new, a.verifies)
        PROVE  TypeOK'
    <3>1. UNCHANGED <<rollout, plans, stored, written>>
      BY <2>5 DEF Manage
    <3>2. a.new \in Passphrases
      BY VaultRolloutAssumption
    <3>3. Operate(op, opts, a.typed, a.new, a.verifies).vault \in {vault, a.new}
      BY DEF Operate
    <3>4. vault' \in {vault, a.new}
      BY <2>5, <3>3 DEF Manage
    <3>5. QED BY <3>1, <3>2, <3>4
  <2>6. CASE UNCHANGED vars
    BY <2>6 DEF vars
  <2>7. QED
    BY <2>1, <2>2, <2>3, <2>4, <2>5, <2>6 DEF Next
<1>3. QED
  BY <1>1, <1>2, PTL DEF Spec

-----------------------------------------------------------------------------
(* A wider rollout strands no plan                                         *)

THEOREM PlansWereLetInCorrect == Spec => []PlansWereLetIn
<1>1. Init => PlansWereLetIn
  BY DEF Init, PlansWereLetIn, NoCommand
<1>2. TypeOK /\ PlansWereLetIn /\ [Next]_vars => PlansWereLetIn'
  <2> SUFFICES ASSUME TypeOK, PlansWereLetIn, [Next]_vars PROVE PlansWereLetIn'
    OBVIOUS
  <2> USE DEF TypeOK, PlansWereLetIn, Plans
  <2>1. ASSUME NEW settings \in Rollouts, Reconfigure(settings) PROVE PlansWereLetIn'
    BY <2>1 DEF Reconfigure, NoCommand
  <2>2. ASSUME NEW dataset \in Datasets, NEW run \in Runs, NEW mode \in Modes,
               NEW typed \in Passphrases, EnrichRows(dataset, run, mode, typed)
        PROVE  PlansWereLetIn'
    <3>1. UNCHANGED <<rollout, plans>> /\ last'.plan = Nil
      BY <2>2, RanFields DEF EnrichRows
    <3>2. QED BY <3>1
  <2>3. ASSUME NEW dataset \in Datasets, NEW run \in Runs, NEW mode \in Modes,
               NEW typed \in Passphrases, NEW secret \in BOOLEAN,
               ImportPlan(dataset, run, mode, typed, secret)
        PROVE  PlansWereLetIn'
    <3> DEFINE new == [dataset |-> dataset, run |-> run, secret |-> secret, made |-> rollout]
    <3>1. rollout' = rollout /\ last'.plan = Nil /\ \A p \in plans : p.run # run
      BY <2>3, RanFields DEF ImportPlan, Used
    <3>2. CASE plans' = plans
      BY <3>1, <3>2
    <3>3. CASE plans' # plans
      <4>1. /\ plans' = plans \cup {new}
            /\ Entry(mode, dataset \in SecretDatasets, dataset, run, typed) = "OK"
            /\ secret => dataset \in SecretDatasets
        BY <2>3, <3>3 DEF ImportPlan
      <4>2. secret => LetsIn(rollout, dataset, run)
        BY <4>1, EntryLetsIn
      <4>3. QED BY <3>1, <4>1, <4>2
    <3>4. QED BY <3>2, <3>3
  <2>4. ASSUME NEW plan \in plans, NEW own \in Runs, NEW mode \in Modes,
               NEW typed \in Passphrases, ImportApply(plan, own, mode, typed)
        PROVE  PlansWereLetIn'
    <3> DEFINE ran == Ran("import-apply", Entry(mode, plan.secret, plan.dataset, plan.run, typed),
                          Requested(mode, plan.secret), plan.dataset, plan.run)
    <3>1. UNCHANGED <<rollout, plans>>
      BY <2>4 DEF ImportApply
    <3>2. CASE last' = [ran EXCEPT !.plan = plan]
      <4>1. /\ last'.plan = plan
            /\ last'.blocked = Blocked(Requested(mode, plan.secret), plan.dataset, plan.run)
        BY <3>2 DEF Ran, NoCommand
      <4>2. last'.blocked => ~ LetsIn(rollout, plan.dataset, plan.run)
        BY <4>1 DEF Blocked, Enabled
      <4>3. QED BY <3>1, <4>1, <4>2
    <3>3. CASE \E report : last' = [ran EXCEPT !.report = report]
      <4>1. last'.plan = Nil
        BY <3>3 DEF Ran, NoCommand
      <4>2. QED BY <3>1, <4>1
    <3>4. QED BY <2>4, <3>2, <3>3 DEF ImportApply, RunOf
  <2>5. ASSUME NEW op \in Operations, NEW opts \in Options, NEW gate \in Gates,
               NEW a \in Answers,
               Manage(op, opts, gate, a.confirms, a.admin, a.typed, a.new, a.verifies)
        PROVE  PlansWereLetIn'
    <3>1. UNCHANGED <<rollout, plans>> /\ last'.plan = Nil
      BY <2>5 DEF Manage, Ended, NoCommand
    <3>2. QED BY <3>1
  <2>6. CASE UNCHANGED vars
    BY <2>6 DEF vars
  <2>7. QED
    BY <2>1, <2>2, <2>3, <2>4, <2>5, <2>6 DEF Next
<1>3. QED
  BY <1>1, <1>2, TypeCorrect, PTL DEF Spec

\* A plan with secrets that an apply turns away was made under settings that the present
\* ones do not cover: the bucket is that of the run of the plan.
THEOREM PlansStayApplicableCorrect == Spec => []PlansStayApplicable
<1>1. TypeOK /\ PlansWereLetIn => PlansStayApplicable
  <2> SUFFICES ASSUME TypeOK, PlansWereLetIn, last.blocked, last.plan # Nil,
                      last.plan.secret, Covers(rollout, last.plan.made)
               PROVE  FALSE
    BY DEF PlansStayApplicable
  <2>1. last.plan \in Plans /\ rollout \in Rollouts
    BY DEF TypeOK, PlansWereLetIn, Plans
  <2>2. LetsIn(last.plan.made, last.plan.dataset, last.plan.run)
    BY DEF PlansWereLetIn
  <2>3. LetsIn(rollout, last.plan.dataset, last.plan.run)
    BY <2>1, <2>2, CoversIsMonotone DEF Plans
  <2>4. QED BY <2>3 DEF PlansWereLetIn
<1>2. QED
  BY <1>1, TypeCorrect, PlansWereLetInCorrect, PTL

-----------------------------------------------------------------------------
(* What is not applied keeps its secrets                                   *)

\* An apply of a plan with secrets reaches its outcome only where the vault was asked
\* for, so that staging makes it a dry run.
LEMMA StagingForces ==
  ASSUME NEW mode \in Modes, NEW dataset, NEW run, NEW typed,
         Entry(mode, TRUE, dataset, run, typed) = "OK",
         rollout.mode = "staging_dry_run"
  PROVE  ForcesDryRun(Requested(mode, TRUE), "import-apply")
BY EntryLetsIn DEF ForcesDryRun

\* The steps that are neither a planning run nor an apply leave plans, secrets and
\* written runs alone, except that an enrichment stores secrets of a new run.
LEMMA OtherSteps ==
  ASSUME TypeOK, [Next]_vars
  PROVE  \/ UNCHANGED <<plans, stored, written>>
         \/ /\ UNCHANGED <<plans, written>>
            /\ \A r \in DOMAIN stored : r \in DOMAIN stored' /\ stored'[r] = stored[r]
         \/ \E dataset \in Datasets, run \in Runs, mode \in Modes, typed \in Passphrases,
               secret \in BOOLEAN : ImportPlan(dataset, run, mode, typed, secret)
         \/ \E plan \in plans, own \in Runs, mode \in Modes, typed \in Passphrases :
               ImportApply(plan, own, mode, typed)
<1>1. ASSUME NEW dataset \in Datasets, NEW run \in Runs, NEW mode \in Modes,
             NEW typed \in Passphrases, EnrichRows(dataset, run, mode, typed)
      PROVE  /\ UNCHANGED <<plans, written>>
             /\ \A r \in DOMAIN stored : r \in DOMAIN stored' /\ stored'[r] = stored[r]
  <2>1. run \notin DOMAIN stored /\ UNCHANGED <<plans, written>>
    BY <1>1 DEF EnrichRows, Used
  <2>2. CASE stored' = stored
    BY <2>1, <2>2
  <2>3. CASE Store(run, dataset, Requested(mode, dataset \in SecretDatasets))
    BY <2>1, <2>3, StoreTyped, CodesTyped DEF TypeOK
  <2>4. QED BY <1>1, <2>2, <2>3 DEF EnrichRows
<1>2. ASSUME NEW settings \in Rollouts, Reconfigure(settings)
      PROVE  UNCHANGED <<plans, stored, written>>
  BY <1>2 DEF Reconfigure
<1>3. ASSUME NEW op \in Operations, NEW opts \in Options, NEW gate \in Gates,
             NEW a \in Answers,
             Manage(op, opts, gate, a.confirms, a.admin, a.typed, a.new, a.verifies)
      PROVE  UNCHANGED <<plans, stored, written>>
  BY <1>3 DEF Manage
<1>4. CASE UNCHANGED vars
  BY <1>4 DEF vars
<1>5. QED
  BY <1>1, <1>2, <1>3, <1>4 DEF Next

\* A plan with secrets that has not been applied has all of them: dry runs have no
\* retention, and an apply in which no row succeeded deletes nothing.
THEOREM UnappliedPlansKeepSecretsCorrect == Spec => []UnappliedPlansKeepSecrets
<1>1. Init => UnappliedPlansKeepSecrets
  BY DEF Init, UnappliedPlansKeepSecrets
<1>2. TypeOK /\ UnappliedPlansKeepSecrets /\ [Next]_vars => UnappliedPlansKeepSecrets'
  <2> SUFFICES ASSUME TypeOK, UnappliedPlansKeepSecrets, [Next]_vars
               PROVE  UnappliedPlansKeepSecrets'
    OBVIOUS
  <2> USE DEF UnappliedPlansKeepSecrets
  <2>1. CASE \/ UNCHANGED <<plans, stored, written>>
             \/ /\ UNCHANGED <<plans, written>>
                /\ \A r \in DOMAIN stored : r \in DOMAIN stored' /\ stored'[r] = stored[r]
    BY <2>1
  <2>2. ASSUME NEW dataset \in Datasets, NEW run \in Runs, NEW mode \in Modes,
               NEW typed \in Passphrases, NEW secret \in BOOLEAN,
               ImportPlan(dataset, run, mode, typed, secret)
        PROVE  UnappliedPlansKeepSecrets'
    <3> DEFINE new == [dataset |-> dataset, run |-> run, secret |-> secret, made |-> rollout]
    <3>1. run \notin DOMAIN stored /\ written' = written
      BY <2>2 DEF ImportPlan, Used
    <3>2. CASE UNCHANGED <<plans, stored>>
      BY <3>1, <3>2
    <3>3. CASE ~ UNCHANGED <<plans, stored>>
      <4>1. /\ plans' = plans \cup {new}
            /\ Store(run, dataset, Requested(mode, dataset \in SecretDatasets))
            /\ Entry(mode, dataset \in SecretDatasets, dataset, run, typed) = "OK"
            /\ secret => dataset \in SecretDatasets
        BY <2>2, <3>3 DEF ImportPlan
      <4>2. /\ \A r \in DOMAIN stored : r \in DOMAIN stored' /\ stored'[r] = stored[r]
            /\ dataset \in SecretDatasets /\ Requested(mode, dataset \in SecretDatasets)
                 => run \in DOMAIN stored' /\ stored'[run] = "all"
        BY <3>1, <4>1, StoreTyped, CodesTyped DEF TypeOK
      <4>3. secret => Requested(mode, dataset \in SecretDatasets)
        BY <4>1, EntryLetsIn
      <4>4. QED BY <3>1, <4>1, <4>2, <4>3
    <3>4. QED BY <3>2, <3>3
  <2>3. ASSUME NEW plan \in plans, NEW own \in Runs, NEW mode \in Modes,
               NEW typed \in Passphrases, ImportApply(plan, own, mode, typed)
        PROVE  UnappliedPlansKeepSecrets'
    <3>1. plans' = plans
      BY <2>3 DEF ImportApply
    <3>2. CASE UNCHANGED <<stored, written>>
      BY <3>1, <3>2
    <3>3. ASSUME NEW dry, NEW outcome \in Outcomes, Applied(plan, dry, outcome)
          PROVE  UnappliedPlansKeepSecrets'
      <4>1. CASE dry \/ ~ (plan.secret /\ plan.run \in DOMAIN stored)
        <5>1. stored' = stored /\ written \subseteq written'
          BY <3>3, <4>1 DEF Applied, Retains
        <5>2. QED BY <3>1, <5>1
      <4>2. CASE ~ dry /\ plan.secret /\ plan.run \in DOMAIN stored
        <5>1. outcome.total \in 0 .. PlanRows /\ outcome.failed \in 0 .. outcome.total
          BY VaultRolloutAssumption
        <5>2. CASE outcome.total = outcome.failed
          <6>1. ~ (outcome.failed = 0 /\ outcome.total = PlanRows)
            BY <5>1, <5>2, VaultRolloutAssumption
          <6>2. ~ outcome.total > outcome.failed
            BY <5>1, <5>2
          <6>3. stored' = stored /\ written' = written
            BY <3>3, <4>2, <5>2, <6>1, <6>2, KeptTyped DEF Applied, TypeOK
          <6>4. QED BY <3>1, <6>3
        <5>3. CASE outcome.total # outcome.failed
          <6>1. written' = written \cup {plan.run}
            BY <3>3, <4>2, <5>3 DEF Applied
          <6>2. \A r \in DOMAIN stored : r # plan.run =>
                   r \in DOMAIN stored' /\ stored'[r] = stored[r]
            BY <3>3, <4>2, KeptTyped DEF Applied, TypeOK
          <6>3. QED BY <3>1, <6>1, <6>2
        <5>4. QED BY <5>2, <5>3
      <4>3. QED BY <4>1, <4>2
    <3>4. QED BY <2>3, <3>2, <3>3 DEF ImportApply
  <2>4. QED
    BY <2>1, <2>2, <2>3, OtherSteps
<1>3. QED
  BY <1>1, <1>2, TypeCorrect, PTL DEF Spec

\* Under staging no step writes a plan with secrets.
THEOREM StagingWritesNoSecretCorrect == Spec => StagingWritesNoSecret
<1>1. ASSUME TypeOK, PlansWereLetIn, [Next]_vars, rollout.mode = "staging_dry_run",
             NEW p \in plans, p.secret, p.run \in written'
      PROVE  p.run \in written
  <2>1. CASE written' = written
    BY <1>1, <2>1
  <2>2. ASSUME NEW plan \in plans, NEW own \in Runs, NEW mode \in Modes,
               NEW typed \in Passphrases, ImportApply(plan, own, mode, typed),
               written' # written
        PROVE  p.run \in written
    <3>1. PICK wantDry \in BOOLEAN, outcome \in Outcomes :
             /\ Applied(plan, wantDry \/ ForcesDryRun(Requested(mode, plan.secret),
                                                      "import-apply"), outcome)
             /\ Entry(mode, plan.secret, plan.dataset, plan.run, typed) = "OK"
      BY <2>2 DEF ImportApply, RunOf
    <3>2. p.run = plan.run \/ p.run \in written
      BY <1>1, <3>1 DEF Applied
    <3>3. CASE p.run = plan.run
      <4>1. plan = p /\ plan.secret = TRUE
        BY <1>1, <3>3 DEF PlansWereLetIn, TypeOK
      <4>2. ForcesDryRun(Requested(mode, plan.secret), "import-apply")
        BY <1>1, <3>1, <4>1, StagingForces
      <4>3. written' = written
        BY <3>1, <4>2 DEF Applied
      <4>4. QED BY <2>2, <4>3
    <3>4. QED BY <3>2, <3>3
  <2>3. ASSUME NEW dataset \in Datasets, NEW run \in Runs, NEW mode \in Modes,
               NEW typed \in Passphrases, NEW secret \in BOOLEAN,
               ImportPlan(dataset, run, mode, typed, secret)
        PROVE  written' = written
    BY <2>3 DEF ImportPlan
  <2>4. QED
    BY <1>1, <2>1, <2>2, <2>3, OtherSteps
<1>2. TypeOK /\ PlansWereLetIn /\ [Next]_vars =>
        [rollout.mode = "staging_dry_run" =>
           \A p \in plans : p.secret /\ p.run \in written' => p.run \in written]_vars
  BY <1>1
<1>3. QED
  BY <1>2, TypeCorrect, PlansWereLetInCorrect, PTL DEF Spec, StagingWritesNoSecret

-----------------------------------------------------------------------------
(* The verdict of a dry run                                                *)

KeyOps == {"init", "rotate", "rewrap"}

\* What a key operation ends with that was let in, with the right answers, is what
\* can_apply says, be it a dry run or not; a dry run leaves the vault alone.
LEMMA OperateAgrees ==
  ASSUME NEW op \in KeyOps, NEW opts, NEW typed, NEW new,
         vault # Nil => typed = vault
  PROVE  /\ Operate(op, opts, typed, new, TRUE).code
              = IF CanApply(op) THEN "OK" ELSE "DATA_INVALID"
         /\ opts.dry => Operate(op, opts, typed, new, TRUE).vault = vault
<1>1. CASE opts.dry
  BY <1>1 DEF Operate, KeyOps
<1>2. CASE ~ opts.dry
  <2>1. Opens(typed) <=> vault # Nil
    BY DEF Opens
  <2>2. CASE op = "init"
    BY <1>2, <2>2 DEF Operate, CanApply
  <2>3. CASE op = "rotate"
    BY <1>2, <2>1, <2>3 DEF Operate, CanApply
  <2>4. CASE op = "rewrap"
    BY <1>2, <2>1, <2>4 DEF Operate, CanApply
  <2>5. QED BY <2>2, <2>3, <2>4 DEF KeyOps
<1>3. QED BY <1>1, <1>2

\* A key operation that ends with right answers ends with that verdict.
LEMMA RightMeansVerdict ==
  ASSUME NEW op \in Operations, NEW opts, NEW gate, NEW a \in Answers,
         Manage(op, opts, gate, a.confirms, a.admin, a.typed, a.new, a.verifies),
         last'.right, last'.command \in KeyOps
  PROVE  /\ last'.command = op /\ last'.dry = opts.dry
         /\ last'.code = IF CanApply(op) THEN "OK" ELSE "DATA_INVALID"
         /\ opts.dry => vault' = vault
<1> DEFINE done == Operate(op, opts, a.typed, a.new, a.verifies)
<1> DEFINE right == a.verifies /\ (vault # Nil => a.typed = vault)
<1>1. \/ /\ \E asked : Ended(op, opts, gate, right, done.code, asked)
         /\ vault' = done.vault
      \/ \E code, asked : Ended(op, opts, gate, FALSE, code, asked)
  BY Zenon DEF Manage
<1>2. ASSUME NEW r, NEW code, NEW asked, Ended(op, opts, gate, r, code, asked)
      PROVE  /\ last'.command = op /\ last'.dry = opts.dry
             /\ last'.right = r /\ last'.code = code
  BY <1>2 DEF Ended, NoCommand
<1>3. ~ \E code, asked : Ended(op, opts, gate, FALSE, code, asked)
  BY <1>2
<1>4. /\ last'.command = op /\ last'.dry = opts.dry /\ last'.code = done.code
      /\ last'.right = right /\ vault' = done.vault
  <2> HIDE DEF right
  <2>1. PICK asked : Ended(op, opts, gate, right, done.code, asked)
    BY <1>1, <1>3
  <2>2. QED BY <1>1, <1>2, <1>3, <2>1
<1>5. a.verifies /\ (vault # Nil => a.typed = vault)
  BY <1>4, Zenon
<1>6. op \in KeyOps
  BY <1>4
<1>7. /\ done.code = IF CanApply(op) THEN "OK" ELSE "DATA_INVALID"
      /\ opts.dry => done.vault = vault
  <2>1. a.verifies \in BOOLEAN
    BY VaultRolloutAssumption
  <2>2. a.verifies = TRUE
    BY <1>5, <2>1
  <2>3. done = Operate(op, opts, a.typed, a.new, TRUE)
    BY <2>2
  <2>4. vault # Nil => a.typed = vault
    BY <1>5, Zenon
  <2> HIDE DEF done
  <2>5. QED BY <2>3, <2>4, <1>6, OperateAgrees
<1>8. QED
  BY <1>4, <1>7, Zenon

\* Only Manage runs a key operation.
LEMMA OnlyManages ==
  ASSUME [Next]_vars, last'.right
  PROVE  \/ UNCHANGED vars
         \/ \E op \in Operations, opts \in Options, gate \in Gates, a \in Answers :
               Manage(op, opts, gate, a.confirms, a.admin, a.typed, a.new, a.verifies)
<1>1. ASSUME NEW settings \in Rollouts, Reconfigure(settings) PROVE FALSE
  BY <1>1 DEF Reconfigure, NoCommand
<1>2. ASSUME NEW dataset \in Datasets, NEW run \in Runs, NEW mode \in Modes,
             NEW typed \in Passphrases, EnrichRows(dataset, run, mode, typed)
      PROVE  FALSE
  BY <1>2, RanFields DEF EnrichRows
<1>3. ASSUME NEW dataset \in Datasets, NEW run \in Runs, NEW mode \in Modes,
             NEW typed \in Passphrases, NEW secret \in BOOLEAN,
             ImportPlan(dataset, run, mode, typed, secret)
      PROVE  FALSE
  BY <1>3, RanFields DEF ImportPlan
<1>4. ASSUME NEW plan \in plans, NEW own \in Runs, NEW mode \in Modes,
             NEW typed \in Passphrases, ImportApply(plan, own, mode, typed)
      PROVE  FALSE
  <2> DEFINE ran == Ran("import-apply", Entry(mode, plan.secret, plan.dataset, plan.run, typed),
                        Requested(mode, plan.secret), plan.dataset, plan.run)
  <2>1. \/ last' = [ran EXCEPT !.plan = plan]
        \/ \E report : last' = [ran EXCEPT !.report = report]
    BY <1>4 DEF ImportApply, RunOf
  <2>2. last'.right = FALSE
    BY <2>1 DEF Ran, NoCommand
  <2>3. QED BY <2>2
<1>5. QED
  BY <1>1, <1>2, <1>3, <1>4 DEF Next

\* Until another command runs, that verdict holds of the vault.
THEOREM VerdictIsCurrentCorrect == Spec => []VerdictIsCurrent
<1>1. Init => VerdictIsCurrent
  BY DEF Init, VerdictIsCurrent, NoCommand
<1>2. VerdictIsCurrent /\ [Next]_vars => VerdictIsCurrent'
  <2> SUFFICES ASSUME VerdictIsCurrent, [Next]_vars PROVE VerdictIsCurrent'
    OBVIOUS
  <2>1. CASE ~ last'.dry \/ ~ last'.right \/ last'.command \notin KeyOps
    BY <2>1 DEF VerdictIsCurrent, KeyOps
  <2>2. ASSUME NEW op \in Operations, NEW opts \in Options, NEW gate \in Gates,
               NEW a \in Answers, last'.right, last'.dry, last'.command \in KeyOps,
               Manage(op, opts, gate, a.confirms, a.admin, a.typed, a.new, a.verifies)
        PROVE  VerdictIsCurrent'
    BY <2>2, RightMeansVerdict DEF VerdictIsCurrent, CanApply
  <2>3. CASE UNCHANGED vars
    BY <2>3 DEF vars, VerdictIsCurrent, CanApply
  <2>4. QED
    BY <2>1, <2>2, <2>3, OnlyManages
<1>3. QED
  BY <1>1, <1>2, PTL DEF Spec

\* A dry run of init, rotate or rewrap with right answers ends as the operation does
\* that follows it with right answers.
THEOREM DryRunForetellsCorrect == Spec => DryRunForetells
<1>1. ASSUME VerdictIsCurrent, [Next]_vars, last.command \in KeyOps, last.dry, last.right,
             last'.command = last.command, ~ last'.dry, last'.right
      PROVE  last'.code = last.code
  <2>1. ~ UNCHANGED vars
    BY <1>1 DEF vars
  <2>2. PICK op \in Operations, opts \in Options, gate \in Gates, a \in Answers :
           Manage(op, opts, gate, a.confirms, a.admin, a.typed, a.new, a.verifies)
    BY <1>1, <2>1, OnlyManages
  <2>3. /\ last'.command = op
        /\ last'.code = IF CanApply(op) THEN "OK" ELSE "DATA_INVALID"
    BY <1>1, <2>2, RightMeansVerdict
  <2>4. QED BY <1>1, <2>3 DEF VerdictIsCurrent, KeyOps
<1>2. VerdictIsCurrent /\ [Next]_vars =>
        [last.command \in {"init", "rotate", "rewrap"} /\ last.dry /\ last.right
         /\ last'.command = last.command /\ ~ last'.dry /\ last'.right
         => last'.code = last.code]_vars
  BY <1>1 DEF KeyOps
<1>3. QED
  BY <1>2, VerdictIsCurrentCorrect, PTL DEF Spec, DryRunForetells
==============================================================================
