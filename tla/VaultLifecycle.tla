--------------------------- MODULE VaultLifecycle ---------------------------
(***************************************************************************)
(* The lifecycle of the envelope-encrypted vault.  One SQLite file holds   *)
(* the unseal metadata (it names the master key), the data-encryption keys *)
(* (DEKs) wrapped by a master key, a startup probe and the secrets, each   *)
(* encrypted by a DEK.  Several operating-system processes share the file: *)
(* `vault-management init | rotate | rewrap | status --verify` commands    *)
(* and pipeline runs that read, write and delete secrets.                  *)
(*                                                                         *)
(* A step is what SQLite makes atomic: one BEGIN IMMEDIATE transaction, or *)
(* one autocommitted statement.  Between two steps of a process any other  *)
(* process may run, and a process may die.  Passphrases, salts and key     *)
(* material are abstracted to key versions: key k opens a DEK exactly when *)
(* that DEK is wrapped by k.  A run generates at most one master key and   *)
(* at most one DEK, both of them uuid4 names; both are named by the run.   *)
(***************************************************************************)
EXTENDS Naturals, FiniteSets

CONSTANTS
  Procs,            \* processes that run one CLI command after another
  Slots,            \* rows of vault_secrets: (dataset, field, locator, run scope)
  MaxRuns,          \* bound on the number of commands ever started
  InitSkipsVerify   \* TRUE if operators use `init --no-verify`

ASSUME LifecycleConstants ==
  /\ MaxRuns \in Nat
  /\ InitSkipsVerify \in BOOLEAN

None == 0           \* no key, no DEK, no run
Runs == 1..MaxRuns
Keys == Runs        \* the master key a run of init or rotate generates
Deks == Runs        \* the DEK a run creates when no active one exists

Statuses == {"none", "rotating", "ok", "failed"}
Ops      == {"none", "init", "rotate", "rewrap", "check", "run"}
Labels   == {"idle", "tx", "probe", "dek", "newdek", "wprobe", "check",
             "mark_run", "mark_result", "mark_rotated", "running"}

VARIABLES
  meta,       \* vault_unseal_meta.key_version
  wrappedBy,  \* vault_dek: the key that wraps each DEK, None if there is no row
  active,     \* vault_dek.is_active
  probe,      \* vault_probe.dek_version
  secrets,    \* vault_secrets: the DEK each row is encrypted with, None if absent
  lastRun,    \* vault_management_meta: last_rotation_run_id
  lastResult, \* ... last_rotation_result, and the operation its reason names
  rotatedAt,  \* ... last_rotated_at, named by the run whose clock it is
  pc,         \* where each process stands in its command
  cmd,        \* the local variables of that command
  nextRun,    \* the next run id
  committed   \* history: runs whose init or rewrap transaction committed

db   == <<meta, wrappedBy, active, probe, secrets>>
log  == <<lastRun, lastResult, rotatedAt>>
vars == <<db, log, pc, cmd, nextRun, committed>>

Command == [op     : Ops,
            run    : 0..MaxRuns,
            key    : 0..MaxRuns,  \* the key derived from the passphrase
            verify : BOOLEAN,     \* --verify (default) or --no-verify
            dek    : 0..MaxRuns,  \* DEK named by the probe or chosen for it
            cache  : 0..MaxRuns,  \* key cached by the run's vault services
            ok     : BOOLEAN]     \* about to record success or failure

NoCommand == [op |-> "none", run |-> None, key |-> None, verify |-> TRUE,
              dek |-> None, cache |-> None, ok |-> TRUE]

TypeOK ==
  /\ meta \in 0..MaxRuns
  /\ wrappedBy \in [Deks -> 0..MaxRuns]
  /\ active \in SUBSET Deks
  /\ probe \in 0..MaxRuns
  /\ secrets \in [Slots -> 0..MaxRuns]
  /\ lastRun \in 0..MaxRuns
  /\ lastResult \in [status : Statuses, op : Ops]
  /\ rotatedAt \in 0..MaxRuns
  /\ pc \in [Procs -> Labels]
  /\ cmd \in [Procs -> Command]
  /\ \A p \in Procs : pc[p] # "idle" => cmd[p].run \in Runs
  /\ nextRun \in 1..(MaxRuns + 1)
  /\ committed \in SUBSET Runs

DekRows == {d \in Deks : wrappedBy[d] # None}
Opens(k, d) == d \in DekRows /\ wrappedBy[d] = k

Init ==
  /\ meta = None
  /\ wrappedBy = [d \in Deks |-> None]
  /\ active = {}
  /\ probe = None
  /\ secrets = [s \in Slots |-> None]
  /\ lastRun = None
  /\ lastResult = [status |-> "none", op |-> "none"]
  /\ rotatedAt = None
  /\ pc = [p \in Procs |-> "idle"]
  /\ cmd = [p \in Procs |-> NoCommand]
  /\ nextRun = 1
  /\ committed = {}

-----------------------------------------------------------------------------
(* Starting a command.  Each reads the unseal metadata outside any          *)
(* transaction and derives its key from it; a command whose check of the    *)
(* metadata or of the passphrase fails ends here and leaves no trace.       *)

Start(p, op, key, verify, label) ==
  /\ pc[p] = "idle"
  /\ nextRun <= MaxRuns
  /\ nextRun' = nextRun + 1
  /\ cmd' = [cmd EXCEPT ![p] = [op |-> op, run |-> nextRun, key |-> key,
                                verify |-> verify, dek |-> None,
                                cache |-> None, ok |-> TRUE]]
  /\ pc' = [pc EXCEPT ![p] = label]
  /\ UNCHANGED <<db, log, committed>>

StartInit(p) ==
  /\ meta = None
  /\ \E v \in BOOLEAN : /\ v \/ InitSkipsVerify
                        /\ Start(p, "init", nextRun, v, "tx")

StartRotate(p) ==
  /\ meta # None
  /\ \E v \in BOOLEAN : Start(p, "rotate", meta, v, "tx")

StartRewrap(p) ==
  /\ meta # None
  /\ \E v \in BOOLEAN : Start(p, "rewrap", meta, v, "tx")

StartCheck(p) == meta # None /\ Start(p, "check", meta, TRUE, "probe")

StartRun(p) == meta # None /\ Start(p, "run", meta, TRUE, "probe")

-----------------------------------------------------------------------------
(* The transactions of the management commands.                             *)

Goto(p, label) == pc' = [pc EXCEPT ![p] = label]

HoldKey(p, k)   == cmd' = [cmd EXCEPT ![p].key = k]
HoldDek(p, d)   == cmd' = [cmd EXCEPT ![p].dek = d]
HoldCache(p, k) == cmd' = [cmd EXCEPT ![p].cache = k]
NoteFailure(p)  == cmd' = [cmd EXCEPT ![p].ok = FALSE]

\* The new master key is fresh, so it opens no DEK that is already there:
\* the guard inside the transaction succeeds only by creating both rows.
InitTx(p) ==
  LET c == cmd[p] IN
  /\ pc[p] = "tx" /\ c.op = "init"
  /\ meta' = c.key
  /\ \/ /\ ~c.verify
        /\ UNCHANGED <<wrappedBy, active, probe>>
     \/ /\ c.verify
        /\ probe = None /\ active = {}
        /\ wrappedBy' = [wrappedBy EXCEPT ![c.run] = c.key]
        /\ active' = {c.run}
        /\ probe' = c.run
  /\ committed' = committed \union {c.run}
  /\ Goto(p, "mark_run")
  /\ UNCHANGED <<secrets, log, cmd, nextRun>>

\* (mutant) a DEK the old key does not open is skipped, not an error.
RewrapAllSkipping(p, newKey) ==
  LET c == cmd[p] IN
  /\ wrappedBy' = [d \in Deks |-> IF d \in DekRows /\ wrappedBy[d] = c.key
                                  THEN newKey ELSE wrappedBy[d]]
  /\ lastRun' = c.run
  /\ lastResult' = [status |-> "rotating", op |-> c.op]
  /\ committed' = committed \union {c.run}
  /\ HoldKey(p, newKey)
  /\ Goto(p, IF c.verify THEN "probe" ELSE "mark_run")
  /\ UNCHANGED <<active, probe, secrets, rotatedAt, nextRun>>

\* Every DEK is unwrapped by the key the command derived before the
\* transaction, and wrapped by newKey.
RewrapAll(p, newKey) ==
  LET c == cmd[p] IN
  /\ \A d \in DekRows : wrappedBy[d] = c.key
  /\ wrappedBy' = [d \in Deks |-> IF d \in DekRows THEN newKey ELSE None]
  /\ lastRun' = c.run
  /\ lastResult' = [status |-> "rotating", op |-> c.op]
  /\ committed' = committed \union {c.run}
  /\ HoldKey(p, newKey)
  /\ Goto(p, IF c.verify THEN "probe" ELSE "mark_run")
  /\ UNCHANGED <<active, probe, secrets, rotatedAt, nextRun>>

\* (mutant) the new metadata is not part of the rewrap transaction.
RotateTxKeepsMeta(p) ==
  /\ pc[p] = "tx" /\ cmd[p].op = "rotate"
  /\ RewrapAll(p, cmd[p].run)
  /\ UNCHANGED meta

RotateTx(p) ==
  /\ pc[p] = "tx" /\ cmd[p].op = "rotate"
  /\ RewrapAll(p, cmd[p].run)
  /\ meta' = cmd[p].run

RewrapTx(p) ==
  /\ pc[p] = "tx" /\ cmd[p].op = "rewrap"
  /\ RewrapAll(p, cmd[p].key)
  /\ UNCHANGED meta

\* A lock timeout, a DEK that does not unwrap, a failed guard: the exception
\* rolls the transaction back and the failure is recorded.
RollbackTx(p) ==
  /\ pc[p] = "tx"
  /\ NoteFailure(p)
  /\ Goto(p, "mark_run")
  /\ UNCHANGED <<db, log, nextRun, committed>>

-----------------------------------------------------------------------------
(* VaultStartupGuard.ensure_ready outside a transaction: at the start of a  *)
(* pipeline run, for `status --verify`, and after rotate and rewrap have    *)
(* committed.  It uses the key derived when the command started.            *)

GuardReadProbe(p) ==
  /\ pc[p] = "probe"
  /\ HoldDek(p, probe)
  /\ Goto(p, IF probe = None THEN "dek" ELSE "check")
  /\ UNCHANGED <<db, log, nextRun, committed>>

GuardUseDek(p) ==
  /\ pc[p] = "dek"
  /\ \E d \in active :
       /\ Opens(cmd[p].key, d)
       /\ HoldDek(p, d)
  /\ Goto(p, "wprobe")
  /\ UNCHANGED <<db, log, nextRun, committed>>

GuardNoDek(p) ==
  /\ pc[p] = "dek"
  /\ active = {}
  /\ Goto(p, "newdek")
  /\ UNCHANGED <<db, log, cmd, nextRun, committed>>

\* (mutant) the other rows stay active.
InsertDekKeepsOthers(d, key) ==
  /\ wrappedBy' = [wrappedBy EXCEPT ![d] = key]
  /\ active' = active \union {d}

\* upsert_dek of an active record deactivates every other row.
InsertDek(d, key) ==
  /\ wrappedBy' = [wrappedBy EXCEPT ![d] = key]
  /\ active' = {d}

\* (mutant) the new DEK is used before it is saved.
GuardCreateDekUnsaved(p) ==
  /\ pc[p] = "newdek"
  /\ HoldDek(p, cmd[p].run)
  /\ Goto(p, "wprobe")
  /\ UNCHANGED <<db, log, nextRun, committed>>

GuardCreateDek(p) ==
  /\ pc[p] = "newdek"
  /\ InsertDek(cmd[p].run, cmd[p].key)
  /\ HoldDek(p, cmd[p].run)
  /\ Goto(p, "wprobe")
  /\ UNCHANGED <<meta, probe, secrets, log, nextRun, committed>>

\* The guard loads the probe again after it has written it.
GuardWriteProbe(p) ==
  /\ pc[p] = "wprobe"
  /\ probe' = cmd[p].dek
  /\ Goto(p, "probe")
  /\ UNCHANGED <<meta, wrappedBy, active, secrets, log, cmd, nextRun, committed>>

AfterGuard(c) ==
  CASE c.op \in {"rotate", "rewrap"} -> "mark_run"
    [] c.op = "run"                  -> "running"
    [] OTHER                         -> "idle"

GuardPass(p) ==
  /\ pc[p] = "check"
  /\ Opens(cmd[p].key, cmd[p].dek)
  /\ Goto(p, AfterGuard(cmd[p]))
  /\ UNCHANGED <<db, log, cmd, nextRun, committed>>

\* (mutant) a failed post-verify ends the command without a record.
GuardFailSilent(p) ==
  /\ pc[p] \in {"probe", "dek", "newdek", "wprobe", "check"}
  /\ NoteFailure(p)
  /\ Goto(p, "idle")
  /\ UNCHANGED <<db, log, nextRun, committed>>

\* A key that no longer opens the DEK, a lock timeout in the writability test,
\* a storage error: rotate and rewrap record a failure, the others just exit.
GuardFail(p) ==
  /\ pc[p] \in {"probe", "dek", "newdek", "wprobe", "check"}
  /\ NoteFailure(p)
  /\ Goto(p, IF cmd[p].op \in {"rotate", "rewrap"} THEN "mark_run" ELSE "idle")
  /\ UNCHANGED <<db, log, nextRun, committed>>

-----------------------------------------------------------------------------
(* _mark_success and _mark_failed: separate autocommitted writes.           *)

MarkRun(p) ==
  /\ pc[p] = "mark_run"
  /\ lastRun' = cmd[p].run
  /\ Goto(p, "mark_result")
  /\ UNCHANGED <<db, lastResult, rotatedAt, cmd, nextRun, committed>>

MarkResult(p) ==
  LET c == cmd[p] IN
  /\ pc[p] = "mark_result"
  /\ lastResult' = [status |-> IF c.ok THEN "ok" ELSE "failed", op |-> c.op]
  /\ Goto(p, IF c.ok /\ c.op \in {"init", "rotate"} THEN "mark_rotated"
                                                    ELSE "idle")
  /\ UNCHANGED <<db, lastRun, rotatedAt, cmd, nextRun, committed>>

MarkRotatedAt(p) ==
  /\ pc[p] = "mark_rotated"
  /\ rotatedAt' = cmd[p].run
  /\ Goto(p, "idle")
  /\ UNCHANGED <<db, lastRun, lastResult, cmd, nextRun, committed>>

-----------------------------------------------------------------------------
(* A pipeline run after its startup check.  The vault services share a key  *)
(* provider of their own: it derives the key at its first use and keeps it. *)
(* Deriving fails, and so does the call, if the passphrase no longer fits   *)
(* the metadata; it may still fit after a rotation to the same passphrase.  *)

ProviderKey(c) == IF c.cache # None THEN c.cache ELSE meta

PutSecret(p, s) ==
  LET k == ProviderKey(cmd[p]) IN
  /\ pc[p] = "running"
  /\ HoldCache(p, k)
  /\ \/ \E d \in active :
          /\ Opens(k, d)
          /\ secrets' = [secrets EXCEPT ![s] = d]
          /\ UNCHANGED <<wrappedBy, active>>
     \/ /\ active = {}
        /\ InsertDek(cmd[p].run, k)
        /\ secrets' = [secrets EXCEPT ![s] = cmd[p].run]
  /\ UNCHANGED <<meta, probe, log, pc, nextRun, committed>>

\* A secret is read, or a write is rolled back: only the cache may change.
ReadSecret(p) ==
  /\ pc[p] = "running"
  /\ HoldCache(p, ProviderKey(cmd[p]))
  /\ UNCHANGED <<db, log, pc, nextRun, committed>>

DeleteSecret(p, s) ==
  /\ pc[p] = "running"
  /\ secrets[s] # None
  /\ secrets' = [secrets EXCEPT ![s] = None]
  /\ UNCHANGED <<meta, wrappedBy, active, probe, log, pc, cmd, nextRun, committed>>

Finish(p) ==
  /\ pc[p] = "running"
  /\ Goto(p, "idle")
  /\ UNCHANGED <<db, log, cmd, nextRun, committed>>

\* The process is killed, or a write of its final record raises: open
\* transactions roll back and committed steps stay.
Crash(p) ==
  /\ pc[p] # "idle"
  /\ Goto(p, "idle")
  /\ UNCHANGED <<db, log, cmd, nextRun, committed>>

-----------------------------------------------------------------------------
Begin(p) == StartInit(p) \/ StartRotate(p) \/ StartRewrap(p) \/ StartCheck(p)
            \/ StartRun(p)

Manage(p) == InitTx(p) \/ RotateTx(p) \/ RewrapTx(p) \/ RollbackTx(p)

Guard(p) == GuardReadProbe(p) \/ GuardUseDek(p) \/ GuardNoDek(p)
            \/ GuardCreateDek(p) \/ GuardWriteProbe(p) \/ GuardPass(p)
            \/ GuardFail(p)

Mark(p) == MarkRun(p) \/ MarkResult(p) \/ MarkRotatedAt(p)

Use(p) == \/ \E s \in Slots : PutSecret(p, s) \/ DeleteSecret(p, s)
          \/ ReadSecret(p)

Progress(p) == Manage(p) \/ Guard(p) \/ Mark(p) \/ Finish(p)

Next == \E p \in Procs : Begin(p) \/ Progress(p) \/ Use(p) \/ Crash(p)

Spec == Init /\ [][Next]_vars

\* Every command that can take its next step does: a CLI process is scheduled
\* and none of its calls waits without a timeout.  Processes may be killed, but
\* not between the commit of a management command and the record of its result.
MarkedStep ==
  \E p \in Procs : \/ Begin(p) \/ Progress(p) \/ Use(p)
                   \/ Crash(p) /\ cmd[p].run \notin committed
LiveSpec == Init /\ [][MarkedStep]_vars /\ \A p \in Procs : WF_vars(Progress(p))

-----------------------------------------------------------------------------
(* Properties.                                                              *)

\* The secrets, and those of them that the current key opens.
StoredSlots   == {s \in Slots : secrets[s] # None}
ReadableSlots == {s \in StoredSlots : Opens(meta, secrets[s])}

Sealed == INSTANCE SealedVault WITH NoSeal <- None, seal <- meta,
            stored <- StoredSlots, readable <- ReadableSlots

\* The vault implements a store sealed by one key at a time: whatever the
\* interleaving of rotations, writers with a cached key and crashes, no step
\* of the code makes a stored secret unreadable under the current key.
ImplementsSealedVault == Sealed!Spec

\* Every DEK can be unwrapped by the key the unseal metadata names, so the
\* current passphrase opens the whole vault.  Rotation keeps it by replacing
\* metadata and DEKs in one transaction; a writer with a key cached before
\* the rotation must not be able to break it.
Recoverable == \A d \in DekRows : wrappedBy[d] = meta

\* The documented invariant of init: no state has unseal metadata without a
\* startup probe and an active DEK (init_keyring creates the three together).
InitLeavesVaultReady == meta # None => probe # None /\ active # {}

\* The inductive strengthening of both, for vaults whose init is verified: the
\* vault is either empty or completely ready, and a command that has derived a
\* key from the metadata never has to create the probe or a DEK itself.
EmptyVault ==
  meta = None => /\ DekRows = {} /\ active = {} /\ probe = None
                 /\ \A s \in Slots : secrets[s] = None
ReadyVault ==
  meta # None => /\ active # {} /\ probe \in DekRows
                 /\ \A s \in Slots : secrets[s] # None => secrets[s] \in DekRows
SealedCommands ==
  \A p \in Procs :
    /\ pc[p] \notin {"dek", "newdek", "wprobe"}
    /\ pc[p] # "idle" /\ cmd[p].op # "init" => meta # None
    /\ pc[p] # "idle" /\ cmd[p].op = "init" =>
         pc[p] \in {"tx", "mark_run", "mark_result", "mark_rotated"}
    /\ pc[p] = "tx" /\ cmd[p].op = "init" =>
         cmd[p].verify /\ cmd[p].key = cmd[p].run
    /\ pc[p] = "tx" => cmd[p].op \in {"init", "rotate", "rewrap"}
ReadyInv ==
  /\ EmptyVault /\ ReadyVault /\ SealedCommands
  /\ active \subseteq DekRows
  /\ Recoverable

\* Two processes that both found no active DEK must not leave two of them
\* active (upsert_dek deactivates the others in the same transaction).
AtMostOneActive == Cardinality(active) <= 1

\* The probe and the secrets name DEKs that exist: a row that is written
\* several steps after its DEK was chosen never dangles.
NoDanglingDek ==
  /\ active \subseteq DekRows
  /\ probe # None => probe \in DekRows
  /\ \A s \in Slots : secrets[s] # None => secrets[s] \in DekRows

\* The inductive strengthening of both, however inits are verified: at most one
\* DEK is active, the DEK a guard holds has its row, and no command works with
\* the key of a vault that has none.
SingleActive == active = {} \/ \E d \in Deks : active = {d}
HeldIsThere ==
  \A p \in Procs : pc[p] # "idle" =>
    /\ cmd[p].key # None
    /\ cmd[p].op # "init" => meta # None
    /\ pc[p] = "running" => cmd[p].op = "run"
    /\ pc[p] \in {"wprobe", "check"} => cmd[p].dek \in DekRows
DeksInv == NoDanglingDek /\ SingleActive /\ HeldIsThere

\* last_rotated_at names a command whose transaction really committed, whatever
\* the guard that follows it finds (mark_run, mark_result and mark_rotated are
\* reached with a success to record only by way of a commit).
RotatedAtIsCommitted == rotatedAt # None => rotatedAt \in committed
SuccessIsCommitted ==
  \A p \in Procs :
    /\ pc[p] = "mark_rotated" => cmd[p].ok /\ cmd[p].op \in {"init", "rotate"}
    /\ pc[p] \notin {"idle", "tx"} /\ cmd[p].ok /\ cmd[p].op \in {"init", "rotate"}
         => cmd[p].run \in committed

\* A rotation replaces exactly the key it derived its old key from: of two
\* rotations that started from the same key, the second cannot commit.
RotationIsSerial ==
  [][\A p \in Procs : RotateTx(p) => meta = cmd[p].key]_vars

\* A record left at "rotating" is eventually replaced by an outcome, because
\* every command that commits the mark goes on to record its result.
RotationResolves == (lastResult.status = "rotating") ~> (lastResult.status # "rotating")
=============================================================================
