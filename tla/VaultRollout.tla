---------------------------- MODULE VaultRollout ----------------------------
(***************************************************************************)
(* What stands between an operator and the vault: the vault mode of a      *)
(* command, the rollout policy, the startup of the vault and, before the   *)
(* commands on its keys, the confirmation and the admin password; and what *)
(* a planning run, an enrichment and an apply do with the vault once they  *)
(* are let in.                                                             *)
(*                                                                         *)
(* A command is one step: what runs beside it is in VaultLifecycle and     *)
(* ApplyDelivery.  Between two commands the settings may change.           *)
(***************************************************************************)
EXTENDS Integers, Sequences, FiniteSets, Functions, SequencesExt

CONSTANTS
    Datasets,
    SecretDatasets,   \* those whose rules declare secret fields
    Ephemeral,        \* those whose lifecycle deletes a secret when it is applied
    Runs,             \* run ids; the number of planning and enrichment runs
    Bucket,           \* the canary bucket of a dataset and a run
    Rollouts,         \* the rollout settings: [mode, percent, datasets]
    Everything,             \* the entry "*" of an allowlist
    Passphrases,
    Gates,            \* admin gate settings and files: [required, hash, env]
    AdminPasswords,
    Nil,
    PlanRows,         \* rows of a plan
    Outcomes,         \* counts an apply may end with: [total, failed, missing]
    Options,          \* flags of a key operation: [force, dry, nonInteractive, verify]
    Answers,          \* answers to it: [confirms, admin, typed, new, verifies]
    ManagedRuns,      \* bound: runs after which the keys are left alone
    RowThreshold, VaultThreshold  \* tolerated shares, in thousandths of a percent

ASSUME VaultRolloutAssumption ==
    /\ SecretDatasets \subseteq Datasets /\ Ephemeral \subseteq Datasets
    /\ Bucket \in [Datasets \X Runs -> 0 .. 99]
    /\ \A r \in Rollouts :
          /\ r.mode \in {"off", "staging_dry_run", "canary", "full"}
          /\ r.percent \in 0 .. 100 /\ r.datasets \subseteq Datasets \cup {Everything}
    /\ \A o \in Outcomes : /\ o.total \in 0 .. PlanRows
                           /\ o.failed \in 0 .. o.total /\ o.missing \in 0 .. o.failed
    /\ Options \subseteq [force : BOOLEAN, dry : BOOLEAN, nonInteractive : BOOLEAN,
                          verify : BOOLEAN]
    /\ Answers \subseteq [confirms : BOOLEAN, admin : AdminPasswords \cup {Nil},
                          typed : Passphrases, new : Passphrases, verifies : BOOLEAN]
    /\ PlanRows \in Nat \ {0}  \* a plan of no rows has no secrets to keep
    /\ RowThreshold \in Nat /\ VaultThreshold \in Nat /\ ManagedRuns \in Nat

VARIABLES
    rollout,   \* the settings in force
    vault,     \* the passphrase that unseals the vault, Nil before init
    plans,     \* the plan files: [dataset, run, secret, made]
    stored,    \* the runs whose secrets the vault holds, all or some of them
    written,   \* the runs whose plan was applied, as far as it went
    last       \* the command before: what it asked for and how it ended

vars == <<rollout, vault, plans, stored, written, last>>

-----------------------------------------------------------------------------
(* The mode of a command and the rollout policy                            *)

Modes == {"auto", "on", "off", "unknown"}

\* resolve_vault_runtime_mode
Requested(mode, requires) == mode = "on" \/ (mode = "auto" /\ requires)

\* The handlers refuse an unknown mode, and "off" where there are secrets.
ModeRefused(mode, requires) == mode = "unknown" \/ (mode = "off" /\ requires)

Allowed(dataset, allowlist) ==
    allowlist = {} \/ Everything \in allowlist \/ dataset \in allowlist

\* _evaluate_canary_rollout
Selected(settings, dataset, run) ==
    /\ Allowed(dataset, settings.datasets)
    /\ settings.percent > 0 /\ Bucket[<<dataset, run>>] < settings.percent

\* evaluate_vault_rollout
LetsIn(settings, dataset, run) ==
    \/ settings.mode \in {"full", "staging_dry_run"}
    \/ settings.mode = "canary" /\ Selected(settings, dataset, run)

Enabled(requested, dataset, run) == requested /\ LetsIn(rollout, dataset, run)

ForcesDryRun(requested, command) ==
    requested /\ rollout.mode = "staging_dry_run" /\ command = "import-apply"

Blocked(requested, dataset, run) == requested /\ ~ Enabled(requested, dataset, run)

\* vault_ready: the key is derived from the passphrase typed.
Opens(typed) == vault # Nil /\ typed = vault

\* How a command ends that stops before its work, "OK" if it goes on.
Entry(mode, requires, dataset, run, typed) ==
    LET requested == Requested(mode, requires)
    IN IF \/ ModeRefused(mode, requires)
          \/ Blocked(requested, dataset, run)
          \/ Enabled(requested, dataset, run) /\ ~ Opens(typed)
       THEN "INTERNAL_ERROR" ELSE "OK"

\* A command is [command, code, asked, gate, dry, right, blocked, plan, report].
NoCommand == [command |-> "none", code |-> "OK", asked |-> << >>, gate |-> Nil,
              dry |-> FALSE, right |-> FALSE, blocked |-> FALSE, plan |-> Nil,
              report |-> Nil]

Ran(command, code, requested, dataset, run) ==
    [NoCommand EXCEPT
        !.command = command, !.code = code,
        !.blocked = Blocked(requested, dataset, run),
        !.asked = IF Enabled(requested, dataset, run) THEN <<"current">> ELSE << >>]

-----------------------------------------------------------------------------
(* enrich and import-plan                                                  *)

Used == DOMAIN stored \cup {p.run : p \in plans}

Store(run, dataset, requested) ==
    stored' = IF dataset \in SecretDatasets /\ requested
              THEN [r \in DOMAIN stored \cup {run} |-> IF r = run THEN "all" ELSE stored[r]]
              ELSE stored

EnrichRows(dataset, run, mode, typed) ==
    LET requires == dataset \in SecretDatasets
        requested == Requested(mode, requires)
        code == Entry(mode, requires, dataset, run, typed)
    IN /\ run \notin Used
       /\ last' = Ran("enrich", code, requested, dataset, run)
       /\ IF code = "OK" THEN Store(run, dataset, requested) ELSE UNCHANGED stored
       /\ UNCHANGED <<rollout, vault, plans, written>>

\* The rows planned may be without secrets, whatever the dataset declares.
ImportPlan(dataset, run, mode, typed, secret) ==
    LET requires == dataset \in SecretDatasets
        requested == Requested(mode, requires)
        code == Entry(mode, requires, dataset, run, typed)
    IN /\ run \notin Used
       /\ secret => requires
       /\ last' = Ran("import-plan", code, requested, dataset, run)
       /\ IF code # "OK" THEN UNCHANGED <<plans, stored>>
          ELSE /\ plans' = plans \cup {[dataset |-> dataset, run |-> run,
                                        secret |-> secret, made |-> rollout]}
               /\ Store(run, dataset, requested)
       /\ UNCHANGED <<rollout, vault, written>>

-----------------------------------------------------------------------------
(* import-apply                                                            *)

\* (mutant) the decision is made for the run of the apply itself.
OwnRun(plan, own) == own

\* plan.meta.run_id or run_id
RunOf(plan, own) == plan.run

\* _pct, in thousandths of a percent.
Pct(n, of) == IF of <= 0 THEN 0 ELSE (n * 200000 + of) \div (2 * of)

\* _compute_rollback_triggers; import-apply passes it no other measurements.
RollbackRequired(outcome) ==
    \/ Pct(outcome.failed, outcome.total) > RowThreshold
    \/ Pct(outcome.missing, outcome.total) > VaultThreshold

\* (mutant) the retention service is there in a dry run too.
RetainAlways(plan, dry) == plan.dataset \in Ephemeral

\* The retention service of an apply: none in a dry run.
Retains(plan, dry) == ~ dry /\ plan.dataset \in Ephemeral

\* What an apply leaves in the vault: the secrets of the rows that succeeded go.
Kept(plan, outcome) ==
    IF outcome.failed = 0 /\ outcome.total = PlanRows
    THEN RestrictDomain(stored, LAMBDA run : run # plan.run)
    ELSE IF outcome.total > outcome.failed THEN [stored EXCEPT ![plan.run] = "some"]
    ELSE stored

\* An apply that has been let in.
Applied(plan, dry, outcome) ==
    /\ outcome.missing > 0 =>
          plan.secret /\ ~ (plan.run \in DOMAIN stored /\ stored[plan.run] = "all")
    /\ written' = IF dry \/ outcome.total = outcome.failed THEN written
                  ELSE written \cup {plan.run}
    /\ stored' = IF plan.secret /\ plan.run \in DOMAIN stored /\ Retains(plan, dry)
                 THEN Kept(plan, outcome) ELSE stored

\* The run of the apply is only asked for where the plan has none.
ImportApply(plan, own, mode, typed) ==
    LET requested == Requested(mode, plan.secret)
        run == RunOf(plan, own)
        code == Entry(mode, plan.secret, plan.dataset, run, typed)
        ran == Ran("import-apply", code, requested, plan.dataset, run)
    IN /\ \/ /\ code # "OK"
             /\ last' = [ran EXCEPT !.plan = plan]
             /\ UNCHANGED <<stored, written>>
          \/ /\ code = "OK"
             /\ \E wantDry \in BOOLEAN, outcome \in Outcomes :
                   /\ Applied(plan, wantDry \/ ForcesDryRun(requested, "import-apply"),
                              outcome)
                   /\ last' = [ran EXCEPT
                                 !.report = [outcome |-> outcome,
                                             rollback |-> RollbackRequired(outcome)]]
       /\ UNCHANGED <<rollout, vault, plans>>

-----------------------------------------------------------------------------
(* vault-management.  An operator answers the confirmation, types an admin *)
(* password ("" or a failing prompt too) and passphrases.                  *)

\* VaultAdminPasswordHashStore and the check of the algorithm: what cannot be used,
\* whatever is typed.
Unusable == {"unset", "missing", "irregular", "open", "unreadable", "empty", "foreign"}

\* _verify_password: a hash that cannot be decoded shows when it is compared.
Verified(gate, password) ==
    CASE gate.hash = "malformed" -> "DATA_INVALID"
      [] gate.hash # "malformed" /\ password = gate.hash -> "OK"
      [] OTHER -> "AUTH_FORBIDDEN"

\* verify_manual_access: the file is read, then the password; without a terminal it
\* comes from the environment.
VerifyManualAccess(gate, nonInteractive, typed) ==
    CASE ~ gate.required -> [code |-> "OK", asked |-> << >>]
      [] gate.required /\ gate.hash \in Unusable ->
           [code |-> "DATA_INVALID", asked |-> << >>]
      [] gate.required /\ gate.hash \notin Unusable /\ nonInteractive ->
           [code |-> IF gate.env = Nil THEN "DATA_INVALID" ELSE Verified(gate, gate.env),
            asked |-> << >>]
      [] OTHER ->
           [code |-> IF typed = Nil THEN "AUTH_FORBIDDEN" ELSE Verified(gate, typed),
            asked |-> <<"admin">>]

\* _confirm_operation: "go" or the code the command ends with.
Confirmation(op, opts, confirms) ==
    CASE op = "status" \/ opts.dry \/ opts.force -> "go"
      [] op # "status" /\ ~ opts.dry /\ ~ opts.force /\ opts.nonInteractive ->
           "DATA_INVALID"
      [] OTHER -> IF confirms THEN "go" ELSE "OK"

Confirms(op, opts) ==
    op # "status" /\ ~ opts.dry /\ ~ opts.force /\ ~ opts.nonInteractive

\* can_apply of a dry run.
CanApply(op) == IF op = "init" THEN vault = Nil ELSE vault # Nil

\* The passphrases an operation asks for, once the admin is let in.
Asks(op, opts) ==
    CASE op = "status" -> IF opts.verify /\ vault # Nil THEN <<"current">> ELSE << >>
      [] op # "status" /\ opts.dry -> << >>
      [] op = "init" /\ ~ opts.dry -> <<"new">>
      [] op = "rotate" /\ ~ opts.dry -> <<"current", "new">>
      [] OTHER -> <<"current">>

\* The operation itself; the check after it may fail where it is asked for, which
\* undoes an init but not a rotation.
Operate(op, opts, typed, new, verifies) ==
    CASE op = "status" ->
           [code |-> IF ~ opts.verify \/ vault = Nil THEN "OK"
                     ELSE IF ~ Opens(typed) THEN "DATA_INVALID"
                     ELSE IF verifies THEN "OK" ELSE "INTERNAL_ERROR",
            vault |-> vault]
      [] op # "status" /\ opts.dry ->
           [code |-> IF CanApply(op) THEN "OK" ELSE "DATA_INVALID", vault |-> vault]
      [] op = "init" /\ ~ opts.dry ->
           IF vault = Nil /\ verifies THEN [code |-> "OK", vault |-> new]
           ELSE [code |-> "DATA_INVALID", vault |-> vault]
      [] op = "rotate" /\ ~ opts.dry ->
           IF Opens(typed)
           THEN [code |-> IF verifies THEN "OK" ELSE "DATA_INVALID", vault |-> new]
           ELSE [code |-> "DATA_INVALID", vault |-> vault]
      [] OTHER -> [code |-> IF Opens(typed) /\ verifies THEN "OK" ELSE "DATA_INVALID",
                   vault |-> vault]

Ended(op, opts, gate, right, code, asked) ==
    last' = [NoCommand EXCEPT !.command = op, !.code = code, !.asked = asked,
                              !.gate = gate, !.dry = opts.dry, !.right = right]

\* The handlers, with the answers of the operator: confirms, the admin password, the
\* passphrases; "right" where nothing typed was wrong and no check failed.
Manage(op, opts, gate, confirms, admin, typed, new, verifies) ==
    LET confirmation == Confirmation(op, opts, confirms)
        confirming == IF Confirms(op, opts) THEN <<"confirm">> ELSE << >>
        access == VerifyManualAccess(gate, opts.nonInteractive, admin)
        done == Operate(op, opts, typed, new, verifies)
    IN /\ Cardinality(Used) <= ManagedRuns
       /\ ~ verifies => opts.verify
       /\ IF confirmation # "go"
          THEN Ended(op, opts, gate, FALSE, confirmation, confirming) /\ UNCHANGED vault
          ELSE IF access.code # "OK"
          THEN /\ Ended(op, opts, gate, FALSE, access.code, confirming \o access.asked)
               /\ UNCHANGED vault
          ELSE /\ Ended(op, opts, gate, verifies /\ (vault # Nil => typed = vault),
                        done.code, confirming \o access.asked \o Asks(op, opts))
               /\ vault' = done.vault
       /\ UNCHANGED <<rollout, plans, stored, written>>

Reconfigure(settings) ==
    /\ settings # rollout
    /\ rollout' = settings /\ last' = NoCommand
    /\ UNCHANGED <<vault, plans, stored, written>>

-----------------------------------------------------------------------------

Init ==
    /\ rollout \in Rollouts
    /\ vault = Nil /\ plans = {} /\ stored = << >> /\ written = {} /\ last = NoCommand

Operations == {"init", "status", "rotate", "rewrap"}

Next ==
    \/ \E settings \in Rollouts : Reconfigure(settings)
    \/ \E dataset \in Datasets, run \in Runs, mode \in Modes, typed \in Passphrases :
          \/ EnrichRows(dataset, run, mode, typed)
          \/ \E secret \in BOOLEAN : ImportPlan(dataset, run, mode, typed, secret)
    \/ \E plan \in plans, own \in Runs, mode \in Modes, typed \in Passphrases :
          ImportApply(plan, own, mode, typed)
    \/ \E op \in Operations, opts \in Options, gate \in Gates, a \in Answers :
          Manage(op, opts, gate, a.confirms, a.admin, a.typed, a.new, a.verifies)

Spec == Init /\ [][Next]_vars

-----------------------------------------------------------------------------
(* Properties                                                              *)

\* The state has the types of the vault's settings, files and reports.
\* (VaultRolloutPolicySettings, VaultRolloutDecision, PlanMeta.)
TypeOK ==
    /\ rollout \in Rollouts /\ vault \in Passphrases \cup {Nil}
    /\ plans \subseteq [dataset : Datasets, run : Runs, secret : BOOLEAN, made : Rollouts]
    /\ DOMAIN stored \subseteq Runs /\ \A run \in DOMAIN stored : stored[run] \in {"all", "some"}
    /\ written \subseteq {p.run : p \in plans}

\* The settings let in whatever the others let in: a wider share of the same buckets,
\* a wider allowlist, or everything.
Covers(new, old) ==
    \/ new.mode \in {"full", "staging_dry_run"}
    \/ /\ new.mode = "canary" /\ old.mode = "canary"
       /\ new.percent >= old.percent
       /\ \/ new.datasets = {} \/ Everything \in new.datasets
          \/ old.datasets # {} /\ old.datasets \subseteq new.datasets

\* A plan that needed the vault can be applied as long as the rollout is not narrowed,
\* in whatever run: raising the canary share never strands a plan.  (import-apply asks
\* for the bucket of the run the plan was made in.)
PlansStayApplicable ==
    last.blocked /\ last.plan # Nil /\ last.plan.secret => ~ Covers(rollout, last.plan.made)

\* Under staging_dry_run no plan with secrets reaches the target.  (force_dry_run of
\* the decision; see the README for a plan without secrets.)
StagingWritesNoSecret ==
    [][rollout.mode = "staging_dry_run" =>
          \A p \in plans : p.secret /\ p.run \in written' => p.run \in written]_vars

\* A plan with secrets that has not been applied has all of them in the vault, whatever
\* dry runs and other runs came between.  (put_many under the run of the plan;
\* retention only in a real apply.)
UnappliedPlansKeepSecrets ==
    \A p \in plans : p.secret /\ p.run \notin written =>
        p.run \in DOMAIN stored /\ stored[p.run] = "all"

\* A dry run of a key operation foretells the operation: run next, with the right
\* answers, it ends as the dry run said.  (can_apply of the handlers and the checks of
\* VaultKeyManagementUseCase.)
DryRunForetells ==
    [][last.command \in {"init", "rotate", "rewrap"} /\ last.dry /\ last.right
       /\ last'.command = last.command /\ ~ last'.dry /\ last'.right
       => last'.code = last.code]_vars

-----------------------------------------------------------------------------
(* What the proofs need beyond the properties                              *)

\* A plan with secrets was let in under the settings it was made with, its run is no
\* other plan's, and an apply is only turned away by settings that do not let it in.
PlansWereLetIn ==
    /\ \A p, q \in plans : p.run = q.run => p = q
    /\ \A p \in plans : p.secret => LetsIn(p.made, p.dataset, p.run)
    /\ last.plan # Nil => last.plan \in plans
    /\ last.blocked /\ last.plan # Nil /\ last.plan.secret =>
          ~ LetsIn(rollout, last.plan.dataset, last.plan.run)

\* The verdict of a dry run is about the vault as it still is.
VerdictIsCurrent ==
    last.command \in {"init", "rotate", "rewrap"} /\ last.dry /\ last.right =>
        last.code = IF CanApply(last.command) THEN "OK" ELSE "DATA_INVALID"
=============================================================================
