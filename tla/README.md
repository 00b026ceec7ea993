# A verification project for nexus-etl

nexus-etl takes rows of employees and organizations from files, transforms and
matches them, writes an import plan, and applies the plan to a target system
over HTTP.  It runs as a command-line program; what its commands share is a
handful of SQLite files.  The hard part is not any single command but the
commands together: they overlap, they die half-way, their requests are lost or
served late, and the files they leave are read by the next one.

This directory holds TLA+ models of those parts, configurations that
model-check them with TLC, and theorems about them that TLAPS checks.  File
names below are relative to `src/connector/`.

- [Inventory](#inventory): the parts, their state, how they interact, what is hard
- [Modules](#modules): what is modelled, and how it corresponds to the code
- [Runs](#runs): the questions asked of the models, the bounds, the fairness
- [Proofs](#proofs): what holds for every value of the constants, and why
- [Disagreements](#disagreements): where code and documents say different things
- [Limits](#limits): what is not modelled, not proved, and why
- [Plan](#plan): what comes next

## Inventory

### Vault

*State.*  `vault.db`: the unseal metadata (salt, parameters and version of the
master key), the data-encryption keys (DEKs) wrapped by a master key, one of
them active, a startup probe encrypted by a DEK, the secrets, and the record of
the last rotation.  In a process: the master key derived from the passphrase
and cached at first use.
*Operations.*  `vault-management init | rotate | rewrap | status`; the startup
guard of every pipeline run; put, get and delete of secrets.
*Interactions.*  The enricher stores secrets, the apply adapter fetches them,
the retention service deletes them.
*Hard.*  Keys are derived before the transaction that uses them; DEK and probe
are created by whoever finds them missing; a process may hold a key that a
rotation has replaced; the verification of a rotation runs after its commit and
the record of its result is several commits more.
*Correct when* every DEK can be opened by the key the metadata names, whatever
overlapped; a rotation replaces the key it started from; at most one DEK is
active; no row names a DEK that does not exist; a recorded outcome is true.

### Rollout policy and admin gate

*State.*  The settings (rollout mode, canary share, allowlist, admin password),
which change between commands; the plans with the run they were made in.
*Operations.*  Deciding whether a command needs the vault and may have it; the
metrics of an apply and the triggers of a rollback; the checks in front of a
key operation and its dry run.
*Hard.*  A plan is made in one command and applied in another, under settings
that may have changed; the verdict of a dry run is computed apart from the
operation.
*Correct when* a plan stays applicable unless the rollout is narrowed, an
unapplied plan keeps its secrets, a dry run says what the operation will do.

### Pending links and the identity index

*State.*  `identity.db`, used with autocommit: `identity_index` (which key has
which id in the target) and `pending_links` (references that could not be
resolved, with the serialised row, a status, attempts and an expiry).
*Operations.*  Park, renew, count an attempt, resolve, put in conflict, expire,
purge; list for replay; sync an id and close what waited for it.
*Interactions.*  The resolver of a planning run parks and replays; import-apply
and cache-refresh sync.
*Hard.*  No call is protected by a transaction: the one around a micro-batch
belongs to the cache database.  Every call interleaves with those of other
commands.
*Correct when* a row is planned only with all its references, a link is closed
for a reason, attempts and duplicates stay bounded, a run ends.

### Import apply and the target gateway

*State.*  The plan file, the vault, the identity index and the target itself;
in the process the position in the plan, the id and the secrets of the item,
the retries used.
*Operations.*  Per item: fetch secrets, build the request, send it with
retries, on success sync the index and delete the secret.
*Hard.*  A request may be served and its answer lost, or be served after the
client gave up; a retry may carry a new id; there is no progress record, so a
plan is applied again from the start.
*Correct when* a person gets one record, a reported success is true, a secret
is deleted only when the target has it, and the application ends.

### Cache

*State.*  `cache.db`: a table per dataset with the records of the target, and
meta entries (hash of the schema, count, run, time).
*Operations.*  refresh (plan the datasets in dependency order, compare hashes,
rebuild or fail, read the pages, upsert, write the meta entries), clear, status.
*Hard.*  One transaction for many pages of HTTP; DEFERRED transactions of
several processes; item failures that do not fail the refresh; a schema that is
edited between, or during, refreshes; the identity index in another database.
*Correct when* counts, hashes and rows agree, rows of two schemas do not mix,
no record goes back to an older version, and a refresh without failures has
no gap.

### Planning pipeline

*State.*  The stream of rows with payload, errors and metadata; the dictionaries
loaded so far; the micro-batch of the matcher and its record of identities seen;
the transaction around the resolve loop.
*Operations.*  extract, map, filter, normalize, enrich, match, resolve, plan.
*Hard.*  Lazy generators: everything fires in the order of consumption, inside
whichever transaction the consumer has open; batches are flushed by size, by
time and at the end; errors of one stage meet those of the next; files and cache
change under the run.
*Correct when* no row is lost or moved, a plan has one item for an identity, the
decisions of a run are taken on one state of the cache and agree with it, looked
up values are the pinned ones, and a row that says it has a secret has it.

### Topology

*State.*  The hierarchy of the target, read from the cache, with its revision;
the adjacency list of the source file; what validation has dropped; the services
that match and resolve are given.
*Operations.*  Decide what a run needs, bootstrap, validate, wire, filter.
*Hard.*  Three queries and two readings of a file, with other processes between
them; the need for a snapshot is decided twice, by different rules; cycles,
missing parents and repeated ids in one list.
*Correct when* the filter lets through exactly what is anchored, a hard policy
stops a run without its snapshot, a consumer is given only a whole one, and a
hard validation is all or nothing.

### Command runtime

*State.*  The containers of a command, its result, its report, its entry in the
ledger, the streams and log context it has taken over.
*Operations.*  parse, validate, initialise resources, bootstrap topology, run
the handler, map the result, restore, shut down, finalise, record, close the
logging, clear its context, exit.
*Hard.*  Everything has a failure path, the failure paths have cleanups that
fail, and an interrupt is no `Exception`.
*Correct when* ledger and exit code agree, a failure shows in the report,
and everything taken is given back.

### Logs, reports, ledger

*State.*  The daily log with its backups and `current.log`, the reports with
`latest.json`, `index.jsonl`, the sweep markers: files several processes write.
*Operations.*  Write a line, rotate by size and day, sweep by age, publish a
report and its pointer, append to and prune the ledger.
*Hard.*  Nothing but the writing of a log line is locked: a rotation moves the
names one by one, and a sweep, which takes no lock, lists and unlinks beside it;
check, unlink and link are three steps; a prune reads the ledger and replaces it
later.
*Correct when* the active file stays bounded, a process loses its log only to a
sweep or an interrupt and a file its name only to newer ones, a pointer is there
or about to be, and a record is lost only by an overlap.

### The rest

Configuration is a ranking of sources (`Settings`); the DSL compilers, the
operations on values, presenters and message texts are functions without state,
whose results the models take as constants or initial choices.  `PROJECT.json`
lists every component with its files and its status, and the hazards with their
lines and the properties that would notice.

## Modules

| module | models | state |
|---|---|---|
| `VaultLifecycle` | the vault and the commands that share it | one variable per table column that matters, `pc` and `cmd` per process |
| `SealedVault` | what the vault promises, abstractly | the seal, the stored and the readable slots |
| `Settings` | file, environment and options, one over the other | none, operators |
| `VaultRollout` | modes, rollout policy, admin gate, and the commands they let in | `rollout`, `vault`, `plans`, `stored`, `written`, the verdict of the `last` command |
| `PendingLinks` | `pending_links`, the resolver that parks and replays, the syncer that closes | `links`, `indexed`, and `pc`, `run` per process |
| `ApplyDelivery` | import-apply, retries, retention, and the target as an external service | `target`, `late` requests, `stored` secrets, `identity`, and the `job` |
| `CacheDependencyGraph` | the dependency order of the datasets | none, operators |
| `CacheLifecycle` | refresh and clear over SQLite snapshots | `db`, the writer's `work`, `job` per process, the target and the YAML |
| `Dictionaries` | loading, pinning and looking up of dictionaries | none, operators |
| `RowRules` | what mapping, normalization and enrichment do to a row | none, operators; extends `Dictionaries` |
| `MatchRules` | what matching and the choice of the operation do to a row | none, operators; extends `RowRules`, `DependencyTree` |
| `RowPipeline` | a run of import-plan over its source | `buffer`, `batch`, `seen`, `context`, `plan`, `vault`, `snapshot`; extends `MatchRules` |
| `DependencyTree` | the hierarchy algorithms | none, operators |
| `TopologyRun` | decision, bootstrap, validation, wiring and filter of a run | `cache`, `file`, `artifacts`, `validated`, `services`, `passed`; extends `DependencyTree` |
| `CommandRuntime` | one process from its container to its exit code | `phase`, `result`, `opened`, `rep`, `disk`, `env` |
| `Retention` | what log, ledger and reports share: the processes and the cutoff | none |
| `DailyLog` | the rotating log several processes share, and its sweep | `names`, `size`, `stream`, `at`, `left`, `doomed`; extends `Retention` |
| `RunArtifacts` | reports, pointers, ledger and their sweeps, of several processes | `reports`, `pointer`, `ledger`, `temp`, `pc`, `my`; extends `Retention` |
| `MC...` | constants for TLC | |
| `..._proofs` | theorems; those about `RunArtifacts` and `DailyLog` are in `CommandRuntime_proofs` | |

The modules share tables (`identity_index`, `vault_secrets`, `pending_links`),
each abstracted to what the module is about: `PendingLinks` has the order of all
calls on the two identity tables; `ApplyDelivery` has which ids were recorded
for whom, and treats the closing of links as part of a sync; `CacheLifecycle`
leaves the identity rows out, because they are in another database and take part
in none of its transactions.  `RowPipeline` sees the cache as a sequence of
contents other processes commit, which is what `CacheLifecycle` makes of it.
`VaultRollout` takes a command for one step, since what overlaps is in
`VaultLifecycle` and `ApplyDelivery`.

### `VaultLifecycle`

A step is what SQLite makes atomic.  `InitTx`, `RotateTx` and `RewrapTx` are the
`BEGIN IMMEDIATE` transactions of `usecases/management/vault/usecase.py`, with
`RollbackTx` for their failures; `GuardReadProbe` to `GuardFail` are the
separate commits of `vault_startup_guard.py`; `MarkRun`, `MarkResult` and
`MarkRotatedAt` the autocommitted writes of `_mark_success` and `_mark_failed`;
`PutSecret`, `ReadSecret` and `DeleteSecret` what a pipeline run does with the
key it cached (`ProviderKey`).  Passphrases, salts and ciphertext are abstracted
to names: key *k* opens a DEK exactly when the DEK is wrapped by *k*.

`SealedVault` knows a seal and two sets of slots: re-sealing never changes which
secrets are readable.  The refinement maps the seal to the metadata, the stored
slots to the rows, the readable ones to the rows whose DEK the current key opens.

### `PendingLinks`

A planning run takes rows of its dataset from a queue and goes through their
link rules (`Resolve`), with the topology's say over several candidates
(`ConfirmByTopology`, `ApplyTopologyPolicy`).  What it cannot resolve it parks:
`add_pending` is a SELECT (`AddRead`) and then an INSERT or an UPDATE (`Insert`,
`Renew`), `touch_attempt` and the look at its result are `Touch` and `Judge`.
A replayed row may be taken for solved where its reference was filled in before
(`SkipSolved`): the code does so for integers under rules that do not look up the
id field, and since values are names here, either may happen to any.  The run
sweeps and purges, and at the end of a row closes the links of its line.  A
syncer records an id and then closes, one after the other, the links that wait
for it.  Time is abstract: an unanswered link may fall due at any moment.  Lines
and rows are different things, because `source_row_id` is a line number.

### `ApplyDelivery`

The item loop of `import_apply_service.py` with the adapter, the gateway and the
side effects of a success.  The target is external: `SendServed`,
`SendUnanswered`, `SendUnserved`, `SendTimesOut` and `LateArrives` are what may
become of a PUT, and `keysUnique` says whether the service refuses a second
record with the same key.  `CanRetry`, `FreshIds` and `Retry` are the retry
engine and `regenerate_target_id`.  `StorePlan` stands for a planning run: it
stores the secrets and leaves the plan file.  `MissingSecret` is every way the
adapter fails an item unsent: nothing found, or a read or a decryption that fails.
`delivered` and `conflicted` are
history variables, read by properties only.

### `CacheDependencyGraph`, `CacheLifecycle`

`TopologicalOrder` is Kahn's algorithm as the code runs it, queue and all.
`db` is what is committed, `work` what the process with the write lock has made
of it, `old` says that another commit has happened since a process took its
snapshot: SQLite then refuses its first write at once (`MayWrite`), and so it
does while another process holds the lock, because the busy handler is not
called for a transaction that has already read.  Inside the loop over the items
the refusal is one more failed item (`FailItem`), outside it ends the command
(`Locked`).  `EditSpec` gives the schema one more column, so a table made from
an older schema takes no row of a newer one.  `live` is history: the versions a
complete refresh promises.

Modelled as the target's behaviour, not the repository's: records are
soft-deleted and keep their place in the pages.

### `VaultRollout`

`LetsIn` is `VaultRolloutPolicy` with `vault_mode`, `Selected` the canary and
its allowlist; the bucket of a dataset and a run, a hash in the code, is a
constant.  `EnrichRows` and `ImportPlan` are the commands that store secrets,
`ImportApply` is `import_apply.py` with the decision that takes the run from the
plan's metadata, `Manage` for the three key operations with confirmation, admin
gate, dry run and the checks of the use case, `Reconfigure` for an edit of the
settings.  `Outcomes` are the counts an apply may end with; `Pct` and
`RollbackRequired` are the metrics with the rounding of the code.

### `Settings`

How `config/loader.py` comes by the settings of a command: a tree of
settings is a function from the paths of its leaves to values, `Over` is the deep
merge with its trace of sources, `FromEnvironment` the filter of what a variable
may set.  `SourcesAreRanked`, an assumption of `MCVaultRollout` that TLC evaluates
over four fields and all sources of up to two entries, says that a field has the
value of the source its trace names, options before environment before file, and
that neither the admin password nor the path of the vault is ever the
environment's.

### `Dictionaries`, `RowRules`, `MatchRules`, `RowPipeline`

The rules a DSL file compiles to are records in `Configs`; a row maps fields to
values, an operation is the function it computes with `Fails` where it raises.
`RowRules` goes rule by rule in the order the stages do: `MapRecord`, `Filter`,
`Normalize`, `Enrich` with lookups, generated values, existence checks and secrets.
`MatchRules` has identities, deduplication within a source, the search in the
cache, fuzzy scores with thresholds, blocking and ties, candidates narrowed by
topology, the merge, the changed fields and the operation.  Both are operators
over one row, so each is read beside one class of the code.

`RowPipeline` puts them in the order the generators run: `PullRow` takes a row
through the stages up to the matcher's buffer and flushes it when its time has
come, `EndOfSource` flushes the rest, `MatchRow` takes the rows of a flushed
batch, `BuildContext`, `Fetch` and `ResolveRow` are the loop of the resolve use
case inside its transaction, which `Commit` ends.  `Refresh` is another process's
refresh, `ReplaceFile` an edit of a dictionary's file.  A read of
the cache inside the transaction sees the revision of its first read.

### `DependencyTree`, `TopologyRun`

What the code computes by walking is stated on the k-th ancestor; the search for
cycles and the anchoring have a reference definition beside them, and
`AlgorithmsAgree` in `MCTopologyRun` compares the two over every parent function of
three nodes. `TopologyRun` has one action per step that another process can get
between: revision, hierarchy and membership are read one by one, the file is opened
twice. The validation reads the ids of the file as they stand there, the filter
those the mapping has made of them (`MappedId`); a configuration has its mapping.

### `CommandRuntime`

`phase` follows `run_with_report` and `run_without_report`; each phase may fail
where the code may raise, and `Interrupt` may fall between any two steps.  The
two `finally` blocks differ: an interrupt of the first goes on to the second, which
closes the logging (`CloseObservability`, whose own failure is swallowed and leaves
it open) and then clears its context (`ClearContext`); an interrupt of the second
leaves whatever it has not done.
Commands differ by what they feed to the report, by whether their handler
catches everything, and by the resources they require (`CommandTable`).
Resources are initialised and shut down in the order of the containers.

### `DailyLog`, `RunArtifacts`

In `DailyLog` a file is a number and a name a place in the directory, so a process
may write to a file whose name has gone.  A line without a rotation is one step, as
the lock of the day is held over it.  A rotation closes its stream and then goes
name by name (`FindOverflow`, `DropOverflow`, `ShiftName`, `ReopenLog`), still under
that lock.  The sweep takes none: it lists the directory (`ListLogs`), a listing that
beside a rotation may or may not have seen a file, and then unlinks file by file,
so a file may be gone between a look and an unlink on either side (`FailRotation`,
`EndSweep`).  A process may be killed, or interrupted and go on, between any two.

In `RunArtifacts` the sweeps of reports and ledger, the publication of a pointer and
the append to the ledger are as many steps as they have system calls, and `Crash` ends
a process between any two.  All that the sweep of the logs does to the others is to
end theirs when it fails, so here it is one step that may.  A symbolic link may fail
because there are none, and the report is then copied.  An empty ledger may be a
missing one, which a prune leaves alone, or one that a prune has emptied, which the
next rewrites: both are tried.

## Runs

| run | shows | bounds |
|---|---|---|
| `vault_verified` | the key hierarchy is recoverable, rotations are serial, `SealedVault` is implemented | 2 processes, 4 commands, 1 slot |
| `vault_unverified` | with `init --no-verify`: one active DEK, nothing dangles; a rotation mark is resolved | 2 processes, 3 commands |
| `rollout_safety` | plans stay applicable, unapplied plans keep their secrets | 2 datasets, 2 runs, 4 rollouts, 5 gates, 5 outcomes |
| `pending_strict` | rows are planned complete, links are closed for a reason | 3 rows, 2 datasets, 2 lookups, 1 planner and 1 syncer, 2 runs, 4 links, an ambiguous colleague under a topology policy |
| `pending_races` | attempts and duplicates stay bounded by the runs that overlap, runs end | 2 planners, 1 reference, 2 runs |
| `apply_safety` | one record per person and run, re-application is idempotent, the index names the owner, secrets survive, reports are true, an application ends | 2 plans, 3 items, 2 retries, 2 applications, 1 late request |
| `cache_safety` | counts, hashes and rows agree, no record goes back, no gap without a failure | 2 datasets, 1 key, 2 processes, 3 commands, 2 schemas, 2 versions |
| `pipeline_safety` | no row lost, one item per identity, one snapshot, the plan agrees with the cache, secrets are stored, lookups are pinned | every source of up to 2 rows out of 7 kinds of record, three of 3 rows, each also broken off midway; batches of 2; the rule sets of `MCRowPipeline` |
| `pipeline_failed_rows` | *violation*: a row whose enrichment failed is planned | as `pipeline_safety` |
| `topology_safety` | the filter is exact, hard policies stop and consumers have a whole snapshot, consumers agree, hard validation is all or nothing | 16 configurations, 5 hierarchies, 5 files, 1 refresh, 1 replacement |
| `command_safety` | ledger, report and exit code agree, nothing is left open | 8 commands that stand for all, 2 rows, 2 interrupts |
| `artifacts_safety` | pointers are there, a lone sweep keeps records; the active log is bounded, a process loses its log for a cause, the newest backups stay | 2 processes; 3 commands, 3 ticks of a day each, 1 crash; and for the log 2 days, 2 lines a file, 2 backups, 8 lines, 1 kill or interrupt |

**Why the bounds are enough to be interesting.**  Each race needs two processes
and the command before them that sets the stage: init, then two of anything, is
three commands, and the fourth is the one that suffers.  A link needs one run to
park it and one to replay it; a second dataset and a line number shared by two
rows bring out what `source_row_id` and `rule.target_dataset` do.  Two retries
and one late request let each kind of fault follow each other; two applications
are a crash and its repetition; two plans for one person are what makes a secret
or an id somebody else's.  For the cache, refresh, clear and refresh again with an
edit in between take three commands, and two of them may overlap.  A pipeline's
rows influence each other in pairs (a repeated identity, a name already taken,
the first load of a dictionary), and batches of two with a flush interval put a
pair in one batch or in two.  Three nodes make every shape a chain of parents
can have: a cycle, a node below one, a gap.  One refresh and one replacement of
the file can fall between any two reads of a run.  A rollout needs the settings a
plan is made under and those it is applied under; rows of 20 and 25 put one
failure on each side of the threshold.  Eight commands have each way to feed a
report with each kind of resource.  For reports and ledger, two processes and three
days with a retention of none let every sweep find something.  For the log, two
lines a file leave a process whose stream was rotated away a line to write before the
next rotation, eight lines are three rotations, as many as it takes to push a file
past two backups, and the second day makes the files of the first expire.  The two
parts of that run share no variable, so that what holds of each alone holds of both
together: `MCRunArtifacts` explores either while the other has not begun.
`ManagedRuns = 0` leaves the key operations of `rollout_safety` to the states
before the first planning run: planning and applying read of the vault only
whether the passphrase opens it, and a key operation changes nothing else.

Every bound is a constant of the module, named in a guard, and none is a bound
of the code.

**Every property can fail.**  For each property of a passing run `PROJECT.json`
names a mutant: a definition that differs from the one it replaces as a bug in
that code would (a dropped guard, a swapped order, a failure not counted), and
under which TLC finds the property violated.

**Fairness.**
- `VaultLifecycle!LiveSpec`: weak fairness of each process's own progress.  A
  command is a straight line of local calls and statements with a busy timeout,
  so nothing makes it wait for ever.  Processes may be killed, except between
  the commit of a management command and the record of its result: a kill
  there does leave the mark, in the code too.
- `PendingLinks!LiveSpec`: weak fairness of each planner's and each syncer's
  next step, for the same reason.  Crashes stay possible; `RunEnds` counts a
  crash as an end.
- `ApplyDelivery!LiveSpec`: weak fairness of the application.  Every request has
  a client timeout, so an answer, or the lack of one, always comes.  No fairness
  is asked of the target.
- The other modules have no liveness property: a refresh is as long as the
  target's list of pages, a pipeline as long as its source, and the phases of a
  command follow each other.

Deadlock is checked for `RowPipeline` and `VaultRollout`, whose runs may only
stop when they are done.  In the other modules a system all of whose commands
have been issued, within the bounds, is done.

## Proofs

All constants are arbitrary within the named assumptions of the modules.

**`VaultLifecycle_proofs`.**  `TypeCorrect`; and, for vaults whose init verifies
(`InitSkipsVerify = FALSE`), `ReadyCorrect`, `RecoverableCorrect`,
`InitLeavesVaultReadyCorrect`, `RotationIsSerialCorrect`,
`SealedVaultImplemented`.  `Recoverable` is not inductive by itself: a guard that
derived its key before a rotation could create a DEK under the old key after
it.  `ReadyInv` adds why it does not: a vault with metadata always has a probe
and an active DEK, so no process with a derived key is ever at a step that
creates one.  Rotations are serial because a rewrap opens every DEK with the key
it derived earlier, and there is at least one: the rewrap is a compare-and-swap.

Without that assumption, so with `init --no-verify` too: `DeksCorrect`,
`NoDanglingDekCorrect`, `AtMostOneActiveCorrect`, `RotatedAtIsCommittedCorrect`.
`DeksInv` says what a process holds while it is between two commits: the DEK a
guard is about to put into the probe, or a writer about to put into a row, has
its row (`HeldIsThere`), and of the DEKs one at most is active (`SingleActive`),
because whoever stores an active DEK deactivates every other row in the same
transaction.

**`VaultRollout_proofs`.**  `TypeCorrect`, `PlansWereLetInCorrect`,
`PlansStayApplicableCorrect`, `UnappliedPlansKeepSecretsCorrect`,
`StagingWritesNoSecretCorrect`, `VerdictIsCurrentCorrect`,
`DryRunForetellsCorrect`.  A plan carries the settings and the run it was made
under, and was let in by them (`PlansWereLetIn`).  Being let in is monotone in
the settings (`LetsIn` of a wider rollout), so an apply of the plan that is
turned away has settings that do not cover those.  That a dry run foretells the
operation is proved, and in no run: its verdict is still current when the operation
starts (`VerdictIsCurrent`).

**`ApplyDelivery_proofs`.**  `TypeCorrect`, `DeliverySafe`, `SecretsSurvive`,
`ReportsAreTrue`, `DryRunIsPure`.  `DeliveryInv` strengthens the two safety
invariants with what a job knows at each step: one that has heard a success, or
is past it, is at an item the target has served, and a dry run is never at a
step that sends, syncs or deletes.

`OneIdPerRunCorrect`, `ReapplyIsIdempotentCorrect`, `IdentityNamesOwnerCorrect`
rest on `WritesAgree`, whose invariant `WriteInv` says where the writes of an item
may be.  A request that has not arrived yet is as dangerous as a record: if it
arrives, no record of the same person may have got another id in the same run
(`Fits`).  The attempt at hand may only be a further one of records that have its
id, or whose own id is taken by then (`Sole`), because a fresh id is drawn only
after a conflict; an id is the planned one until there is a conflict
(`AsPlanned`); no later item has written anything yet (`NoneAhead`), so a run does
not meet its own item twice.  The index names the owner because an id that a
desired state names is nobody else's (`MayUse`), and an answer without an id is
credited to that id, although the attempt may by then be under a fresh one: this
is only tried when the person has a record elsewhere that makes the target refuse
it (`NamedElsewhere`).  The two facts about plans are `PlansAssumption`: a
person is planned once, which is `OnePlannedPerIdentity` of the pipeline with
source dedup, and an id that a desired state names is that of one person, having
been found in the cache.  For the same reason an id that somebody else holds at
the start is one a plan made up (`NewIds`).

**`CacheLifecycle_proofs`.**  `TypeCorrect`, `CacheInvCorrect`,
`MetaCountsRowsCorrect`, `RowsUnderRecordedHashCorrect`,
`CacheNeverGoesBackCorrect`.  These speak of committed tables, so none is
inductive: what a commit leaves was read and written many steps before.
`CacheInv` says what is known in between.  Whoever holds the write lock has a
snapshot that is still current, and its uncommitted database differs from the
committed one only in its own datasets, only by rows of its own schema and of no
older version (`WorkOf`); a refresh that has not written yet, and whose snapshot
is current, sees in its datasets rows of its own schema, or has them on its list
to rebuild (`Unwritten`); a page in memory is no older than the row it will
replace and no newer than the target (`PageAged`).  Another process's commit
breaks these facts and ages the snapshot in the same step, after which the first
write is refused, so nothing needs them any more.

`CleanRefreshIsCompleteCorrect` needs `PromiseInv` beside it.  A refresh promises
the records that were live when it began, as long as they do not change; an item
that fails takes the promise back.  What it has passed, dataset by dataset and
within a page item by item (`Passed`), and still promises is in its uncommitted
database at the promised version (`Written`), and as long as it has not written it
has passed nothing it promises (`Owes`), for a promised record on the page is the
live one in the target (`Sound`) and so is not skipped.  A change of the target in
the meantime ends the promise rather than the invariant.

`TopologicalOrderCorrect`, `RefreshPlansCorrect` and `ClearPlansCorrect` are about
the graph itself, and hold for any datasets and dependencies.  After every round of
the queue, what is ordered or queued is exactly the datasets all of whose
dependencies are ordered (`Sorting`, kept by `VisitSorts`); a round that finds the
queue not empty orders one dataset more, so as many rounds as there are datasets
empty it (`OrderSorts`, by counting with `DistinctCount`).  Then the order is closed:
what it lacks is a set in which each dataset waits for one of the set, which is what
a cycle is, and no dataset of such a set is ever freed.  The scope of a plan grows
until it is closed, in at most as many steps, and is the least closed set
(`ExpandIsLeast`); taking the scope from the order keeps dependencies first
(`WithinKeepsOrder`).  That a clear with `--cascade` plans for the named datasets only
(noted under Disagreements) is `ClearPlansCorrect`.

**`CommandRuntime_proofs`.**  `TypeCorrect`, `LedgerAgreement`,
`FirstResultSurvives`, `NothingLeftOpenCorrect`, `FailureReachesReportCorrect`, for
any set of commands, rows and interrupts.  `ResultInv` ties the ledger status to the
result it was computed from, from the phase that writes it to the exit. `OpenInv`
follows the resources: during the shutdown every open one that has not failed to
close belongs to a container still on the list, and what follows the body has the
streams restored.  It holds of runs in whose `finally` block no interrupt fell.
Past the closing the log runtime is open only if its shutdown failed, and past the
clearing the context is unbound, unless an interrupt fell between the two or before
them in the inner block.  `FailureInv` says how a failure gets into the report
before there is a status: a plan or apply that ends with errors has counted failed
rows, and an item with errors has blocked a row or keeps the plan from being
written, so the status derived at the end is not `SUCCESS`.  For that the
diagnostics of each result must be known where it is made (`ResultKnown`).

The module extends `RunArtifacts` and `DailyLog` too, and proves what several such
processes may do to the files they share, for any number of processes, days, backups,
commands, crashes and interrupts.  `PointerOrPublisherCorrect` and
`LoneSweepKeepsRecordsCorrect` are of `DiskSpec`; its types are proved in
`ArtifactTypesCorrect`.  `ArtifactInv` has three parts besides the types.

- `MemoryInv` says that a process remembers no later second than the clock's, and so
  lists for deletion only reports that are old by now.
- `PublishersHaveReports` follows from it: as long as no report can be old, a process
  that publishes finds the report it has rendered.
- `PointerOrPublisher` is then inductive.  Whoever unlinks the pointer goes on to make
  one, and gives up only when another has made it by then; whoever finds it gone
  leaves that to the one who took it.  A crash and a swept report are the two cases
  the property excludes.

A step that shortens the ledger either replaces it with what the process has read and
kept, where every young record read is found (`PruneKeeps`), or is one of the two
excuses of `LoneSweepKeepsRecords`.

`ActiveFileBoundedCorrect` and `LossesHaveACauseCorrect` are of `LogSpec`, by
`LogInv`.  Files are numbered as they are made (`Numbered`), a file has names of one
day only (`FilesOfDay`), and a file that is open is one of that day
(`StreamsOfDay`); of the processes in a rotation of a day there is at most one
(`OneRotator`).  So a line goes either to the file that has the active name of the
day, whose size was looked at under the lock, or to an older file, which never gets
that name back.  For the losses, `Victims` are the processes that are shut out and
those whose overflow has been unlinked between their look and their own unlink; a
sweep's unlink adds at most the one that rotates that day, an interrupt at most its
own, and nothing else adds any (`VictimsCounted`).  Without the latter the count
would not be inductive: a rotation fails a step after the sweep that made it fail.

**`PendingLinks_proofs`.**  `TypeCorrect`, `PlannedRowsAreCompleteCorrect`,
`ResolvedIsJustifiedCorrect`, `RacesAreBoundedCorrect`.  The types already need an
argument: a process refers to links by id across many steps, and the ids stay those
of existing rows because a link somebody refers to is neither purged nor its id
reused (`LinksInv`; the table is AUTOINCREMENT).  `CompleteInv` says that as long as
a row need not stop, every reference before the current rule is solved, so a row
that reaches its end is complete.  `SyncInv` says that a syncer lists and closes
only what waits for a row the index has by then, which nothing removes.

`RacesAreBounded` counts.  Twins come from planners that have all looked before one
of them inserts; `CrowdInv` says that the waiting links of a reference and the
planners about to insert one are together no more than the planners, because
whoever inserts gives up a place among those, and nobody takes one while a link
waits.  `AttemptsInv` says that whoever counts the last attempt stays to judge it,
or dies, and a crash is counted.  The planners are a finite set for this, and none
is a syncer.

**`RowPipeline_proofs`.**  `RowInvCorrect`, `TypeCorrect`, `NoRowLostCorrect`,
`OnePlannedPerIdentityCorrect`, `DecisionsShareASnapshotCorrect`,
`SecretsAreStoredCorrect`, `PlanAgreesWithCacheCorrect`, `LookupsArePinnedCorrect`,
for any sources, rules, histories of the cache and sizes of batches.  None of the
properties is inductive: each speaks of a row wherever it is.  `RowInv` places each
row taken from the source: at the index of its line in the list of the context
stage, or behind that in the batch, or behind that in the buffer (`Held`).  So lines
are lost by no flush, and two held rows are the same only at the same place.  With
source dedup the rows that go on have different identities, all of them in the store
(`Deduped`), and the items of the plan are in the order of the source, each under
the identity of its row (`Planned`); the counters are those of the rows behind the
resolver (`Counted`). `Views` has the revisions of the cache: while the source is
pulled the open snapshot is the one that was read, so all later reads are of it.
`Marked` says that a row whose secret fields are marked has them in the vault
wherever it is held, and later rows, which write the vault again, leave those slots
there.

`PlanAgreesWithCacheCorrect` has a hypothesis, `IdentitiesAreDesired`: the primary
field of an identity rule is one of the rule's fields and one of the desired state.
The matcher looks an identity up by the fields of the row, and the property compares
it with the item, which has the projection.  A given `primary` outside `fields` is
refused (`specs/match.py:30`); without one the rule's name takes its place
(`compilers/match.py:217`), and neither this nor a field the projection drops is
refused.  The rule sets of the runs satisfy it
(`MCRowPipeline` assumes it, so TLC evaluates it).  `AgreeInv` carries the decision
of the matcher with its row to the plan.

`LookupsArePinnedCorrect` has one too, `LookupsStandAlone`, without which the property
is not one of the code: a field that is also mapped, or generated, may hold a value
no dictionary has, and a key that enrichment rewrites after the lookup is not the
key that was asked for.  So what is looked up in a dictionary reaches the enricher
empty from every record of the sources and is written by no other operation, and its
key is a field of the desired state that no operation writes.  The compiler checks
none of this; the rule sets of the runs satisfy it, and TLC evaluates it there.
`LookupInv` says that what is loaded is the content the manifest pins, that a
dictionary answers from it or not at all, and that every row in buffer or batch, and
every desired state in the context, has its value from a line under its own key.  An
operation keeps that whichever it is (`ExecuteKeepsPinned`): another one writes
another field, and the lookup itself takes over a row under the key it asked for
(`LookupAnswers`).

`CandidatesCorrect` and `FuzzyMatchIsClear` are about the fuzzy matcher alone.  The
candidates are collected key by key and record by record; each step adds what it
finds and no id a second time (`Adds`), and steps compose (`AddsAdd`), so all keys
together add all they name (`CollectedIs`), and the limit cuts the end off.  Hence a
record that two keys find does not tie with itself.  The order of the ranking is
total: of any set of candidates one goes before the others, the one with the fewest
before it (`OneGoesFirst`).  Used twice, this gives the first and the second place,
and the tie check compares those; everybody else is behind the second.  Scores are
taken to be numbers; how the comparators make them is a table of the rules.

**`TopologyRun_proofs`.**  `TypeCorrect`, `FilterIsExactCorrect`,
`RowsHaveTheirSnapshotCorrect`, `HardValidationIsAllOrNothingCorrect`,
`ConsumersAgreeCorrect`, for any hierarchies and files.  The two walks of
`anchor_source_nodes` are recursive, and `DroppedExactly` says what they drop of
any finite list: exactly what is not grounded.  The argument is by sets of numbers
closed under successor (`AllNumbers`): after k rounds the anchored nodes are a
growing set, which has stopped to grow after as many rounds as there are nodes,
and then is the least closed one (`AnchoredIsLeast`); a lineage reaches no new node
after as many steps (`LineageIsLeast`).  A repeated id is found by counting
(`NoDuplicates`), and a file read without repeats has the ids of the file
(`DistinctRows`).  `RunInv` says what is known at each step: the decision is that
of the configuration, errors found so far stay, what was dropped is of the nodes
that were read, a snapshot has the nodes of the hierarchy that was read and no
others, and what was read of the rows is passed, or dropped by its mapped id.

`CyclesAreFound` and `SnapshotsAreForests` say what the builder of the snapshot makes
of any rows.  Where no node is in the lineage of its parent, a node is deeper than
its parent by one (`DepthOfParent`), so depths are a ranking; where there is a
ranking, what ranks below a node is closed under parents and holds the lineage of its
parent, but not the node.  So the check refuses exactly what cannot be ranked, a
snapshot is a forest whatever the target holds, the loops that walk to a root end, and
the path of a node is that of its parent with its own label (`PathsGrow`).

**Assumptions.**  The `ASSUME` of each module, named after it: the types of the
constants, that `None` is not a name of something else, that a plan has rows, that
the rows of a source have ids (its reader filters the others), what the operators on
rows are given (`RowPipelineAssumption`), what is assumed of plans (above) and that
no record is `None`, that the planners are finitely many, for the files of several
processes that the clock lasts for a day or more, for the log that there is a day
and that a file has room for a line, and for the cache that there is a dataset and
that the dependencies have no cycle (the constructor of the graph raises
otherwise).  TLC evaluates them in every run.

**Out of the prover's reach**, and left to TLC: liveness.  What the rungs of the
topology ladder accept and what the comparators score has no theorem either.
Induction over data is done without the theorems of the library on it: a set of
numbers that has 0 and is closed under successor has them all.

## Disagreements

With a run, listed under `findings`: a row whose enrichment failed is planned,
because the resolve stage puts its own errors in the place of those the row came
with (`docs/dev/layers/enrich/enrich-dsl.md:411`).

Noticed while modelling, without a run:

- *Pending links.*  Terminal statuses are not final: `sweep_expired`,
  `mark_resolved` and `mark_conflict` update by id whatever the status is by then
  (`docs/uml/cache/.../cache_pending_state_machine.puml:16` draws them final).
  `mark_resolved_for_source` closes the links of every dataset's row with the same
  line.  The loop over the link rules goes on after the attempts are used up
  (`resolve-core.md:669` says it breaks).  A link is closed when its key is synced
  although its row has not been replayed (`identity_sync.py:69`), and is parked
  under the rule's target dataset but replayed by runs of that dataset
  (`resolve_core.py:421`, `cache-ports.md:284,432`).  `sweep_expired` marks and does
  not delete.  import-plan drains expired links without reporting them.
  `purge_stale` compares timestamps of two formats as strings.
- *Vault.*  `init --no-verify` leaves metadata without probe and DEK
  (`vault-delivery.md:271` states the invariant without the exception).  A failed
  rotation goes from ok to failed, since the rotating mark is rolled back with the
  transaction (`vault_management_state_machine.puml:26`); one whose verification
  fails after the commit is reported as failed (`usecase.py:187`).
- *Rollout.*  A startup failure of import-apply returns before the metrics, so the
  trigger `startup_error` is never reported (`import_apply.py:156`).
  `staging_dry_run` forces a dry run only when the vault is requested
  (`vault-delivery.md:474`); the canary chooses runs, not rows (`:471`).  Key
  operations prompt under `--non-interactive`; a declined confirmation exits 0.
  Re-applying an applied ephemeral plan fails its rows for missing secrets and asks
  for a rollback.  A share just over the threshold may be rounded down to it.
- *Settings.*  The trace of sources keeps the leaves that a section displaced.
- *Apply.*  A plan may send a secret stored by another planning run
  (`repository.py:131`, `vault-storage.md:557`).  If the answer names no id and
  `desired_state` does, the index gets the id of `desired_state`.
- *Cache.*  After an edit of the schema, a clear and a refresh, the new hash is
  recorded for a table with the old columns: clear forgets the hash and keeps the
  table, the refresh finds nothing to compare, every item fails, and no later
  refresh rebuilds.  `cache-clear --cascade` clears the given datasets only
  (`cache_clear.py:39`).  The hash of the sync section is compiled and never
  compared.  A clear of all datasets goes in dependency order (`cache-core.md:499`
  says reverse).  `cache-infra.md:478` describes nested savepoints, which the engine
  refuses.  `preserve_service_tables`, `reset_meta_on_clear` and the status flags of
  the policy are compiled and never read.  `cache-dsl.md` names drift values the
  code does not have.
- *Pipeline.*  What the merge policy `fill_empty_from_existing` fills in is undone
  afterwards (`resolve_core.py:205`, `resolve-dsl.md:400`).  Two rows with different
  identities may match the same record.  `run_when_errors: if_any` names a member
  the enumeration lacks.  An identity rule whose primary field is not among its
  fields never fires.  A row dropped as a duplicate has already overwritten the
  secret of its key.  Generated values are not compared with those of the same run.
  `max_candidates` may cut off the better fuzzy candidate.  The command `match`
  alone has no transaction around its reads.  A source that breaks midway still
  gives a plan of the rows before.  The schema hash of a dictionary does not cover
  delimiter and encoding.
- *Topology.*  `resolve` under a match policy fails when nothing else asks for the
  snapshot, and with a link to another dataset compares paths in that dataset's
  hierarchy.  With a source given as adjacency list, match policies are wired to
  nothing.  Without a snapshot the bootstrap lets a run with soft policies (skip,
  pending) go on, and the wiring of match and resolve then raises
  (`containers.py:680,761`), so an empty cache stops the command under every policy;
  `topology-consumers.md:66`, `topology-core.md:323`, `topology-runtime.md:165,262`
  and `topology-dsl.md:153` say that only a hard one makes it fatal.  `Wire` does
  what the code does, and no property says either.  A node below a dropped one is
  dropped even if the target knows its own parent (the docstring at
  `anchoring.py:63` says otherwise).  A candidate the snapshot does not know raises
  `KeyError`.  `SourcePathTopologyBuilder` is not wired.
- *Command runtime.*  An interrupted command leaves no result, and ledger and report
  call it a success (`orchestrator.py:1316`, `observability-runtime.md:202`).  The
  item that stands for a second failure has status OK, which turns FAILED into
  PARTIAL (`result_mapper.py:151`).  A failure after rows were reported may not show
  in the report (`result_mapper.py:229`).  A failed finalisation never changes the
  exit code.  import-plan with no valid row exits 0 while its report says FAILED.
  After a failure past `write_plan` the pointer names the plan of a failed run.
- *Artifacts.*  Two runs of one second overwrite a report.  A process whose log
  another process has rotated goes on writing to what is a backup by then, and lets
  it grow past the limit (`runtime.py:264`); its docstring (`runtime.py:205`) and
  `observability-logging.md:227` say that the active file always has the active
  name. A process whose rotation fails, because a sweep unlinked the overflow
  meanwhile, or is interrupted, keeps its closed stream and logs no more that day
  unless the file fills up again (`runtime.py:264,280-301`).  `copy2` in
  `pointers.py:66` may write through a link another process has just made, and
  concurrent publications of `current.log` may raise and skip the other pointers
  (`observability-artifacts.md:324,331,339`).  Lock files are never swept; all
  processes prune the ledger through one temporary file (`ledger.py:142`). The JSONL
  and the SQLite ledger disagree about the latest record.

## Limits

Not modelled: what the cipher and key derivation compute; the DSL compilers and
the functions on values; the checks of single settings and the projections made
of them; wording, formats and layout of reports; HTTP encoding and the delays
between retries.  The models take SQLite's isolation as given and the file system
as reliable.  The target of `ApplyDelivery` and of `CacheLifecycle`, and the edits
of files, are modelled from how the code uses or meets them.

Hazards that no model reaches yet: the vault's schema is reset outside a
transaction (`secrets/sqlite/schema.py:84`); `transaction()` rolls back on
`Exception` only (`sqlite/engine.py:133`); links of other items to a regenerated
id (`apply_adapter.py:45`); a table that survives a clear with its old columns
(`cache_lifecycle_engine.py:115`); a record soft-deleted in the target keeps its
row (`cache_refresh_service.py:175`); the identity index keeps the entries of a
refresh that was rolled back (`cache_refresh_service.py:206`); pages move when a
record goes (`gateway.py:207`); links are closed before the plan file is written
(`resolve_core.py:270`); a replayed row carries the match decision of the run that
parked it (`pending_codec.py:104`).

Modelled, with no property that says it should be otherwise: the revision, the
hierarchy and the membership of the target are three queries, and a refresh in between
leaves a filter, a snapshot and a revision of different contents
(`topology_bootstrap.py:638`).

Where a model has more behaviours than the code: which solved values of a replayed
row are integers is left open, and where such a reference is looked up again it is
by the key the row was parked with; `exists` and `replace` of one name in a rotation
are one step, and a directory listed beside a rotation is a choice of what was seen.

Only model-checked: `BackupsComeFirst` of the log; the ladder of the topology; what
the folds of the mapper and of the merge compute; all liveness.

## Plan

1. *Composition* of `RowPipeline` with `PendingLinks`, so that a replayed row with a
   stale match decision, and links closed before the plan file is written, can be
   seen.
2. *Vault schema reset* in `VaultLifecycle`: a crash in the middle of it.
3. *Cache and identity index*: a refresh whose transaction is rolled back while the
   index keeps what it recorded; a target whose pages move.
4. *Theorems*: the folds of the mapper and of the merge.
