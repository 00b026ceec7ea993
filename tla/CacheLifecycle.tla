--------------------------- MODULE CacheLifecycle ---------------------------
(***************************************************************************)
(* The cache of target records: cache-refresh reads every record of the    *)
(* chosen datasets from the target, page by page, into one SQLite          *)
(* transaction, after comparing the recorded hash of each table's schema   *)
(* with the one in the YAML specification; cache-clear empties tables and  *)
(* forgets what was recorded about them.                                   *)
(*                                                                         *)
(* Commands run in processes of their own.  The cache database is in WAL   *)
(* mode and its transactions are DEFERRED: the first SELECT of a           *)
(* transaction fixes the snapshot it sees, the first write takes the write *)
(* lock, and fails at once when another process holds the lock or has      *)
(* committed since the snapshot was taken.  While they run the target      *)
(* changes, the YAML is edited, and a process may die.                     *)
(***************************************************************************)
EXTENDS Integers, Sequences, FiniteSets, CacheDependencyGraph

CONSTANTS Datasets,     \* the registry: a sequence of dataset names
          Deps,         \* Deps[d]: the datasets d depends on
          Keys,         \* primary keys of the records of a dataset
          Procs,        \* processes that run cache commands
          None,
          Rebuilds,     \* drift policy: soft mode with on_hash_mismatch rebuild
          RebuildsAll,  \* drift policy: rebuild_scope is all
          Refreshes,    \* the options cache-refresh is called with
          Clears,       \* the options cache-clear is called with
          MaxSpec,      \* bound: versions of the YAML specification
          MaxVersion,   \* bound: versions of a record in the target
          MaxCommands   \* bound: commands started

Names == {Datasets[i] : i \in DOMAIN Datasets}
Specs == 1..MaxSpec

ASSUME CacheAssumption ==
  /\ Datasets \in Seq(Names) /\ Datasets # <<>>
  /\ \A i, j \in DOMAIN Datasets : Datasets[i] = Datasets[j] => i = j
  /\ Deps \in [Names -> SUBSET Names] /\ ~HasCycle(Datasets, Deps)
  /\ Rebuilds \in BOOLEAN /\ RebuildsAll \in BOOLEAN
  /\ Refreshes \subseteq [chosen: SUBSET Names, withDeps: BOOLEAN,
                          withDeleted: BOOLEAN, partial: BOOLEAN]
  /\ Clears \subseteq [chosen: SUBSET Names, cascade: BOOLEAN]
  /\ None \notin Procs /\ IsFiniteSet(Keys)
  /\ MaxSpec \in Nat \ {0} /\ MaxVersion \in Nat /\ MaxCommands \in Nat

\* The graph of CacheLifecycleEngine.clear when the command gives it no planner:
\* the datasets without their dependencies.
ClearGraph == [d \in Names |-> {}]

\* What the planners return for the options.
RefreshPlan(o) == RefreshOrder(Datasets, Deps, o.chosen, o.withDeps)
ClearPlan(o)   == ClearOrder(Datasets, ClearGraph, o.chosen, o.cascade)

VARIABLES
  target,   \* target[d][k]: the record [ver, gone], Nothing before it exists
  spec,     \* the version of the YAML files
  db,       \* the committed cache database
  work,     \* what the process holding the write lock has made of it
  writer,   \* that process, or None
  job,      \* job[p]: volatile state of the command p runs
  commands  \* how many commands were started

vars == <<target, spec, db, work, writer, job, commands>>

Nothing == [ver |-> 0, gone |-> FALSE]
Record  == [ver: 1..MaxVersion, gone: BOOLEAN] \cup {Nothing}
NoRow  == [ver |-> 0, spec |-> 0]
Row    == [ver: 1..MaxVersion, spec: Specs] \cup {NoRow}
NoMeta == [hash |-> 0, count |-> 0]
Meta   == [hash: Specs, count: Nat] \cup {NoMeta}

\* A database: for each dataset the specification its table was created from,
\* the rows, and the meta entries a refresh leaves.
Database == [layout: [Names -> Specs], rows: [Names -> [Keys -> Row]],
             meta: [Names -> Meta]]

Empty == [k \in Keys |-> NoRow]
Count(table) == Cardinality({k \in Keys : table[k] # NoRow})

\* No promise: a refresh that is partial, or has counted a failure.
Unchecked == [d \in Names |-> [k \in Keys |-> 0]]

\* The page in memory, when all its records are dealt with.
NoPage == [k \in Keys |-> Nothing]

NoJob == [pc |-> "idle", spec |-> 1, scope |-> <<>>, at |-> 0, todo |-> {}, page |-> NoPage,
          rebuild |-> {}, old |-> FALSE, withDeleted |-> FALSE, partial |-> FALSE,
          cascade |-> FALSE, live |-> Unchecked]
PCs == {"idle", "drift", "rebuild", "items", "finish", "count", "clear"}
Job == [pc: PCs, spec: Specs, scope: Seq(Names), at: Nat, todo: SUBSET Keys,
        page: [Keys -> Record], rebuild: SUBSET Names, old: BOOLEAN, withDeleted: BOOLEAN,
        partial: BOOLEAN, cascade: BOOLEAN,
        live: [Names -> [Keys -> 0..MaxVersion]]]

\* The tables exist: some command has opened this cache before.
Init ==
  /\ target = [d \in Names |-> [k \in Keys |-> Nothing]]
  /\ spec = 1
  /\ db = [layout |-> [d \in Names |-> 1], rows |-> [d \in Names |-> Empty],
           meta |-> [d \in Names |-> NoMeta]]
  /\ work = db
  /\ writer = None
  /\ job = [p \in Procs |-> NoJob]
  /\ commands = 0

----------------------------------------------------------------------------
(* Transactions of SQLite                                                  *)

Update(p, changed) == job' = [job EXCEPT ![p] = changed]

\* May p write: it has the lock, or nobody has and its snapshot is current?
MayWrite(p) == writer = p \/ (writer = None /\ ~job[p].old)

\* What p sees: its own writes, or the committed database (whose rows nobody
\* reads in a transaction with an old snapshot to any effect).
View(p) == IF writer = p THEN work ELSE db

Write(p, changed) ==
  /\ writer' = p
  /\ work' = changed

\* (mutant) a transaction has no snapshot before its first write.
CommitUnseen(p, changed) ==
  /\ db' = changed
  /\ work' = changed
  /\ writer' = None
  /\ job' = [job EXCEPT ![p] = NoJob]

\* COMMIT, by which the snapshot of every other open transaction grows old.
Commit(p, changed) ==
  /\ db' = changed
  /\ work' = changed
  /\ writer' = None
  /\ job' = [q \in Procs |->
               IF q = p THEN NoJob
               ELSE [job[q] EXCEPT !.old = job[q].pc \notin {"idle", "drift", "count"}]]

\* ROLLBACK, by an exception or because the process is gone.
Rollback(p) ==
  /\ job' = [job EXCEPT ![p] = NoJob]
  /\ IF writer = p THEN writer' = None /\ work' = db ELSE UNCHANGED <<writer, work>>
  /\ UNCHANGED db

----------------------------------------------------------------------------
(* cache-refresh                                                           *)

CanStart(p) == job[p].pc = "idle" /\ commands < MaxCommands

\* (history) what a full refresh promises: the live versions at its start.
LiveVersions ==
  [d \in Names |-> [k \in Keys |-> IF target[d][k].gone THEN 0 ELSE target[d][k].ver]]

StartRefresh(p, o) ==
  /\ CanStart(p)
  /\ commands' = commands + 1
  /\ Update(p, [NoJob EXCEPT !.pc = "drift", !.spec = spec, !.at = 1, !.todo = Keys,
                             !.scope = RefreshPlan(o), !.withDeleted = o.withDeleted,
                             !.partial = o.partial,
                             !.live = IF o.partial THEN Unchecked ELSE LiveVersions])
  /\ UNCHANGED <<target, spec, db, work, writer>>

Scope(p) == {job[p].scope[i] : i \in DOMAIN job[p].scope}

\* The tables whose recorded hash is not the hash of the specification in use.
Drifted(p) ==
  {d \in Scope(p) : db.meta[d] # NoMeta /\ db.meta[d].hash # job[p].spec}

\* _apply_drift_policy_for_scope, the SELECTs: they take the snapshot.
CheckDrift(p) ==
  /\ job[p].pc = "drift"
  /\ IF Drifted(p) = {}
     THEN /\ Update(p, [job[p] EXCEPT !.pc = "items"])
          /\ UNCHANGED <<db, work, writer>>
     ELSE IF ~Rebuilds
     THEN Rollback(p)
     ELSE /\ Update(p, [job[p] EXCEPT !.pc = "rebuild",
                        !.rebuild = IF RebuildsAll THEN Scope(p) ELSE Drifted(p)])
          /\ UNCHANGED <<db, work, writer>>
  /\ UNCHANGED <<target, spec, commands>>

\* (mutant) the table is recreated, but only if it is missing.
RebuildKeepsRows(p) ==
  /\ job[p].pc = "rebuild"
  /\ MayWrite(p)
  /\ Write(p, View(p))
  /\ Update(p, [job[p] EXCEPT !.pc = "items"])
  /\ UNCHANGED <<target, spec, db, commands>>

\* DROP TABLE and CREATE TABLE, in the transaction.
Rebuild(p) ==
  /\ job[p].pc = "rebuild"
  /\ MayWrite(p)
  /\ Write(p, [View(p) EXCEPT
                 !.rows = [d \in Names |-> IF d \in job[p].rebuild THEN Empty ELSE @[d]],
                 !.layout = [d \in Names |-> IF d \in job[p].rebuild
                                               THEN job[p].spec ELSE @[d]]])
  /\ Update(p, [job[p] EXCEPT !.pc = "items"])
  /\ UNCHANGED <<target, spec, db, commands>>

Dataset(p) == job[p].scope[job[p].at]

\* iter_pages yields the next page: the records of ks as they are now.
ReadPage(p, ks) ==
  /\ job[p].pc = "items" /\ job[p].page = NoPage
  /\ ks # {} /\ ks \subseteq job[p].todo
  /\ Update(p, [job[p] EXCEPT !.todo = @ \ ks,
       !.page = [k \in Keys |-> IF k \in ks THEN target[Dataset(p)][k] ELSE Nothing]])
  /\ UNCHANGED <<target, spec, db, work, writer, commands>>

\* The record of the page that the loop is at, and the job when it is done with it.
Listed(p, k) == job[p].pc = "items" /\ job[p].page[k] # Nothing
ItemDone(p, k) == [job[p] EXCEPT !.page[k] = Nothing]

\* A record deleted in the target is skipped.  The row of an earlier refresh stays.
SkipItem(p, k) ==
  /\ Listed(p, k)
  /\ job[p].page[k].gone /\ ~job[p].withDeleted
  /\ Update(p, ItemDone(p, k))
  /\ UNCHANGED <<target, spec, db, work, writer, commands>>

\* A record that is written.  An error after the row was written (the identity
\* index is another database) is counted and the row stays.
UpsertItem(p, k) ==
  /\ Listed(p, k)
  /\ LET d == Dataset(p)
         r == job[p].page[k]
     IN /\ r.gone => job[p].withDeleted
        /\ MayWrite(p)
        /\ View(p).layout[d] >= job[p].spec
        /\ Write(p, [View(p) EXCEPT !.rows[d][k] = [ver |-> r.ver, spec |-> job[p].spec]])
        /\ \/ Update(p, ItemDone(p, k))
           \/ Update(p, [ItemDone(p, k) EXCEPT !.live = Unchecked])
  /\ UNCHANGED <<target, spec, db, commands>>

\* (mutant) the exception is swallowed before it is counted.
FailItemUncounted(p, k) ==
  /\ Listed(p, k)
  /\ Update(p, ItemDone(p, k))
  /\ UNCHANGED <<target, spec, db, work, writer, commands>>

\* A record whose row is not written: its data does not fit the cache
\* specification, the table lacks a column, or the database is locked.  The
\* exception is logged and counted and the loop goes on; a statement that broke
\* a constraint has taken the write lock all the same.
FailItem(p, k) ==
  /\ Listed(p, k)
  /\ Update(p, [ItemDone(p, k) EXCEPT !.live = Unchecked])
  /\ \/ UNCHANGED <<work, writer>>
     \/ MayWrite(p) /\ Write(p, View(p))
  /\ UNCHANGED <<target, spec, db, commands>>

\* A page that could not be read ends the refresh, whatever was written so far.
PageFails(p) ==
  /\ job[p].pc = "items" /\ job[p].page = NoPage /\ job[p].todo # {}
  /\ Rollback(p)
  /\ UNCHANGED <<target, spec, commands>>

\* The last page of a dataset, or the last one max_pages allows.
NextDataset(p) ==
  /\ job[p].pc = "items" /\ job[p].page = NoPage
  /\ job[p].todo = {} \/ job[p].partial
  /\ Update(p, IF job[p].at < Len(job[p].scope)
               THEN [job[p] EXCEPT !.at = @ + 1, !.todo = Keys]
               ELSE [job[p] EXCEPT !.pc = "finish", !.todo = {}, !.withDeleted = FALSE])
  /\ UNCHANGED <<target, spec, db, work, writer, commands>>

\* (mutant) the rows are counted before the items are written.
FinishCountsFirst(p) ==
  /\ job[p].pc = "finish"
  /\ MayWrite(p)
  /\ Commit(p, [View(p) EXCEPT !.meta = [d \in Names |->
       IF d \in Scope(p) THEN [hash |-> job[p].spec, count |-> Count(db.rows[d])]
       ELSE @[d]]])
  /\ UNCHANGED <<target, spec, commands>>

\* The meta entries of every refreshed dataset, and COMMIT.
Finish(p) ==
  /\ job[p].pc = "finish"
  /\ MayWrite(p)
  /\ Commit(p, [View(p) EXCEPT !.meta = [d \in Names |->
       IF d \in Scope(p) THEN [hash |-> job[p].spec, count |-> Count(View(p).rows[d])]
       ELSE @[d]]])
  /\ UNCHANGED <<target, spec, commands>>

----------------------------------------------------------------------------
(* cache-clear                                                             *)

StartClear(p, o) ==
  /\ CanStart(p)
  /\ commands' = commands + 1
  /\ Update(p, [NoJob EXCEPT !.pc = "count", !.spec = spec, !.cascade = o.cascade,
                             !.scope = ClearPlan(o)])
  /\ UNCHANGED <<target, spec, db, work, writer>>

\* count(name) takes the snapshot.
ClearCounts(p) ==
  /\ job[p].pc = "count"
  /\ Update(p, [job[p] EXCEPT !.pc = "clear"])
  /\ UNCHANGED <<target, spec, db, work, writer, commands>>

\* clear(name) and reset_meta(name) for every dataset, and COMMIT.
Clear(p) ==
  /\ job[p].pc = "clear"
  /\ MayWrite(p)
  /\ Commit(p, [View(p) EXCEPT
       !.rows = [d \in Names |-> IF d \in Scope(p) THEN Empty ELSE @[d]],
       !.meta = [d \in Names |-> IF d \in Scope(p) THEN NoMeta ELSE @[d]]])
  /\ UNCHANGED <<target, spec, commands>>

\* "database is locked" outside the loop over the items.
Locked(p) ==
  /\ job[p].pc \in {"rebuild", "finish", "clear"}
  /\ ~MayWrite(p)
  /\ Rollback(p)
  /\ UNCHANGED <<target, spec, commands>>

Crash(p) ==
  /\ job[p].pc # "idle"
  /\ Rollback(p)
  /\ UNCHANGED <<target, spec, commands>>

----------------------------------------------------------------------------
(* The target and the operator                                             *)

TargetChanges(d, k) ==
  /\ target[d][k].ver < MaxVersion
  /\ \E gone \in BOOLEAN :
       target' = [target EXCEPT ![d][k] = [ver |-> @.ver + 1, gone |-> gone]]
  /\ UNCHANGED <<spec, db, work, writer, job, commands>>

\* The schema section of the YAML gains a column.  (The sync section, which says
\* how a record becomes a row, is in no recorded hash: an edit of it is not
\* noticed, and is not an action here.)
EditSpec ==
  /\ spec < MaxSpec
  /\ spec' = spec + 1
  /\ UNCHANGED <<target, db, work, writer, job, commands>>

Start(p) ==
  \/ \E o \in Refreshes : StartRefresh(p, o)
  \/ \E o \in Clears : StartClear(p, o)

RefreshStep(p) ==
  \/ CheckDrift(p) \/ Rebuild(p) \/ PageFails(p) \/ NextDataset(p) \/ Finish(p)
  \/ \E ks \in SUBSET Keys : ReadPage(p, ks)
  \/ \E k \in Keys : SkipItem(p, k) \/ UpsertItem(p, k) \/ FailItem(p, k)

ClearStep(p) == ClearCounts(p) \/ Clear(p)

Next ==
  \/ \E p \in Procs :
       Start(p) \/ RefreshStep(p) \/ ClearStep(p) \/ Locked(p) \/ Crash(p)
  \/ \E d \in Names, k \in Keys : TargetChanges(d, k)
  \/ EditSpec

Spec == Init /\ [][Next]_vars

----------------------------------------------------------------------------
(* Properties                                                              *)

\* Types; and a refresh is at a dataset of its scope.
TypeOK ==
  /\ target \in [Names -> [Keys -> Record]]
  /\ spec \in Specs
  /\ db \in Database
  /\ work \in Database
  /\ writer \in Procs \cup {None}
  /\ job \in [Procs -> Job]
  /\ \A p \in Procs : job[p].pc \in {"drift", "rebuild", "items", "finish"}
                        => job[p].at \in DOMAIN job[p].scope
  /\ commands \in 0..MaxCommands

\* count_total, which cache-status shows next to the rows, is the number of rows,
\* whichever commands overlapped, failed or died.
MetaCountsRows ==
  \A d \in Names : db.meta[d] # NoMeta => db.meta[d].count = Count(db.rows[d])

\* Rows never mix: every row was written by a refresh with the cache schema whose
\* hash is recorded for its table, however the schema changed between or during
\* refreshes.
RowsUnderRecordedHash ==
  \A d \in Names : \A k \in Keys :
    db.rows[d][k] # NoRow => /\ db.meta[d] # NoMeta
                             /\ db.rows[d][k].spec = db.meta[d].hash

\* Two refreshes that overlap never bring back an older version of a record: the
\* snapshot a refresh depends on is older than every page it reads.
CacheNeverGoesBack ==
  [][\A d \in Names : \A k \in Keys :
       db'.rows[d][k] # NoRow => db'.rows[d][k].ver >= db.rows[d][k].ver]_vars

\* A refresh that reads every page and reports no failure leaves no gap: when it
\* commits, a record of its scope that was live at its start and has not changed
\* since is cached in that version.
CleanRefreshIsComplete ==
  [][\A p \in Procs :
       /\ job[p].pc = "finish"
       /\ job'[p].pc = "idle" /\ db' # db
       => \A d \in Scope(p) : \A k \in Keys :
            job[p].live[d][k] \in {0, db'.rows[d][k].ver}
              \/ target[d][k].ver # job[p].live[d][k]]_vars

=============================================================================
