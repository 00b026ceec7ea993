---------------------------- MODULE MCVaultRollout ----------------------------
(* Two datasets, two runs in buckets at the canary share and under it. *)
EXTENDS VaultRollout, TLC

CONSTANTS d1, d2, r1, r2, any

MCBucket == <<d1, r1>> :> 20 @@ <<d1, r2>> :> 10 @@ <<d2, r1>> :> 0 @@ <<d2, r2>> :> 99

Canary(percent, datasets) == [mode |-> "canary", percent |-> percent, datasets |-> datasets]

MCRollouts ==
    {Canary(20, {d1}), Canary(100, {any}),
     [mode |-> "staging_dry_run", percent |-> 100, datasets |-> {}],
     [mode |-> "off", percent |-> 100, datasets |-> {}]}

MCGates ==
    {[required |-> FALSE, hash |-> "unset", env |-> Nil],
     [required |-> TRUE, hash |-> "open", env |-> "admin"],
     [required |-> TRUE, hash |-> "malformed", env |-> "admin"],
     [required |-> TRUE, hash |-> "admin", env |-> Nil],
     [required |-> TRUE, hash |-> "admin", env |-> "admin"]}

Flags(force, dry, nonInteractive, verify) ==
    [force |-> force, dry |-> dry, nonInteractive |-> nonInteractive, verify |-> verify]
MCOptions ==
    {Flags(FALSE, FALSE, FALSE, TRUE), Flags(TRUE, FALSE, FALSE, TRUE),
     Flags(TRUE, FALSE, FALSE, FALSE), Flags(FALSE, TRUE, FALSE, TRUE),
     Flags(FALSE, TRUE, TRUE, FALSE), Flags(FALSE, FALSE, TRUE, TRUE),
     Flags(TRUE, FALSE, TRUE, TRUE)}

Answer(confirms, admin, typed, new, verifies) ==
    [confirms |-> confirms, admin |-> admin, typed |-> typed, new |-> new,
     verifies |-> verifies]
MCAnswers ==
    {Answer(TRUE, "admin", "p", "q", TRUE), Answer(TRUE, "admin", "q", "p", TRUE),
     Answer(TRUE, "admin", "p", "q", FALSE), Answer(TRUE, "admin", "q", "p", FALSE),
     Answer(FALSE, "admin", "p", "q", TRUE), Answer(TRUE, "other", "p", "q", TRUE),
     Answer(TRUE, Nil, "p", "q", TRUE)}

\* Rows of 25: one failure is under the tolerated share, two are over it; of 20 one is
\* just the share.
Counts(total, failed, missing) == [total |-> total, failed |-> failed, missing |-> missing]
MCOutcomes ==
    {Counts(25, 0, 0), Counts(25, 1, 0), Counts(25, 2, 1), Counts(20, 1, 1),
     Counts(0, 0, 0)}

\* The settings a command starts with: fields of the key operations, of the target and
\* of a section within a section; the file gives 1, the environment 2, the options 3.
Hash    == <<"vault_management", "admin_password_hash_file">>
Host    == <<"api", "host">>
VaultDb == <<"sqlite", "vault_db_path">>
Level   == <<"observability", "logging", "level">>

Config == INSTANCE Settings WITH
    Fields <- {Hash, Host, VaultDb, Level}, Default <- LAMBDA field : 0,
    Valid <- LAMBDA field, value : value \in 1 .. 3,
    DeniedSections <- {"vault_management", "runtime"}, DeniedFields <- {VaultDb},
    Unset <- Nil

Entries(paths, value) ==
    LET entry == [path : paths, value : {value, Nil}]
    IN  {<<>>} \cup {<<e>> : e \in entry} \cup {<<e, f>> : e, f \in entry}

\* Whatever the sources hold, in whatever order, with empty values or a leaf where a
\* section should be: a field has the value of the source its trace names, options come
\* before the environment and that before the file, and neither the password of the key
\* operations nor the place of the vault is ever the environment's (load_app_config).
ASSUME SourcesAreRanked ==
    \A given \in SUBSET {Hash, Host, VaultDb, Level},
       variables \in Entries({Hash, Host, VaultDb, Level, <<"observability", "logging">>}, 2),
       options \in Entries({Host, VaultDb, Level}, 3) :
        LET read == Config!Merged([field \in given |-> 1], variables, options)
            loaded == Config!Loaded(read)
            set(entries, field) ==
                \E i \in DOMAIN entries : entries[i].path = field /\ entries[i].value # Nil
        IN  Config!Loads(read) =>
              \A field \in {Hash, Host, VaultDb, Level} :
                 /\ loaded.values[field]
                       = [cli |-> 3, env |-> 2, config |-> 1, default |-> 0][loaded.trace[field]]
                 /\ set(options, field) => loaded.trace[field] = "cli"
                 /\ set(variables, field) /\ field \notin {Hash, VaultDb}
                       => loaded.trace[field] \in {"cli", "env"}
                 /\ field \in {Hash, VaultDb} => loaded.trace[field] # "env"
===============================================================================
