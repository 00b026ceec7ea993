---------------------------- MODULE RowPipeline ----------------------------
(***************************************************************************)
(* A run of import-plan over the rows of a source: the stages map, filter, *)
(* normalize, enrich, match, resolve-context and resolve, the micro-       *)
(* batches between them, the transactions of the cache around them and the *)
(* plan built from what comes out.                                         *)
(*                                                                         *)
(* The stages are generators: a step takes one row as far as the next      *)
(* place where rows are held, the buffer of the matcher, the list of the   *)
(* context stage, the plan.  All of it happens in the first fetch of the   *)
(* resolve loop, inside its transaction; another process may refresh the   *)
(* cache meanwhile.                                                        *)
(***************************************************************************)
EXTENDS MatchRules

CONSTANTS
    Configs,        \* the compiled rules a run may be started with, by name
    Sources,        \* the sources: sequences of records, Broken where reading raises
    Broken,
    Histories,      \* by name, the contents other processes commit to the cache
    Files,          \* by name of the rules, the contents the dictionary files may have
    MatchBatch,     \* batch size of the matcher
    ResolveBatch,   \* batch size of resolve
    Intervals,      \* whether a flush interval may elapse
    VaultFails      \* whether the vault may refuse secrets

ASSUME RowPipelineAssumption ==
    /\ MatchBatch \in Nat \ {0} /\ ResolveBatch \in Nat \ {0}
    /\ Intervals \in BOOLEAN /\ VaultFails \in BOOLEAN
    /\ \A name \in DOMAIN Histories : Len(Histories[name]) \in Nat \ {0}
    /\ \A s \in Sources : Len(s) \in Nat
    /\ \A name \in DOMAIN Configs :
          LET c == Configs[name]
          IN /\ Len(c.normalize) \in Nat /\ Len(c.enrich) \in Nat
             /\ DOMAIN c.enrich = 1 .. Len(c.enrich)
             /\ \A n \in DOMAIN c.enrich : c.enrich[n].limit \in Nat
             /\ DOMAIN c.match.identity \subseteq Nat
             /\ \A d \in DOMAIN c.manifest : Len(c.manifest[d].content) \in Nat

VARIABLES
    config,         \* the rules of this run
    source,         \* its source
    history,        \* what is committed while it runs
    revision,       \* the revision of the cache, as committed
    files,          \* the dictionary files
    loaded,         \* the dictionaries the run has loaded, by name
    snapshot,       \* the revision the open transaction reads, 0 before its first read
    phase,          \* "pull", "fetch", "resolve", "done"
    taken,          \* rows taken from the source
    exhausted,      \* the source is at its end
    buffer,         \* the micro-batch of the matcher
    batch,          \* rows of a flushed micro-batch not yet matched
    seen,           \* source dedup: fingerprints by identity
    context,        \* the list of the resolve-context stage
    fetched,        \* rows of it taken by the resolve loop
    resolving,      \* rows of a micro-batch of resolve not yet resolved
    vault,          \* secrets, by key and field
    failures,       \* lines with an error before the resolve stage
    reads,          \* the revisions enrichment and matching read
    plan            \* the plan built so far

world == <<config, source, history, revision, files>>
rows == <<loaded, taken, exhausted, buffer, batch, seen, context, vault, failures, reads>>
vars == <<world, snapshot, phase, rows, fetched, resolving, plan>>

conf == Configs[config]
tables == Histories[history]

EmptyPlan == [items |-> << >>, total |-> 0, failed |-> 0, valid |-> 0, skipped |-> 0,
              create |-> 0, update |-> 0]

\* dictionary_backend_resource: a command whose dictionaries do not compile, or do
\* not load under the eager strategy, does not start.
StartDictionaries ==
    /\ Compiles(conf.specs, conf.manifest)
    /\ files \in [DOMAIN conf.specs -> Files[config]]
    /\ \/ conf.strategy = "lazy" /\ loaded = << >>
       \/ /\ conf.strategy = "eager" /\ loaded = files
          /\ \A d \in DOMAIN files :
                Load(conf.specs[d], conf.manifest[d], files[d]) # Fails

Init ==
    /\ config \in DOMAIN Configs /\ source \in Sources /\ history \in DOMAIN Histories
    /\ StartDictionaries
    /\ revision = 1 /\ snapshot = 0
    /\ phase = "pull" /\ taken = 0 /\ exhausted = FALSE
    /\ buffer = << >> /\ batch = << >> /\ seen = << >>
    /\ context = << >> /\ fetched = 0 /\ resolving = << >>
    /\ vault = << >> /\ failures = {} /\ reads = {} /\ plan = EmptyPlan

-----------------------------------------------------------------------------
(* The transaction: the first read of the cache in it fixes what it reads. *)

View == IF snapshot = 0 THEN revision ELSE snapshot

\* (mutant) the transaction is opened when the batch has been fetched.
ReadCommitted == snapshot' = 0 /\ reads' = reads \cup {revision}

ReadSnapshot == snapshot' = View /\ reads' = reads \cup {View}

ReadsCache ==
    \E i \in DOMAIN conf.enrich :
        \/ conf.enrich[i].kind = "lookup" /\ conf.enrich[i].provider = "sink_cache"
        \/ conf.enrich[i].kind = "generate" /\ conf.enrich[i].exists # Nil

-----------------------------------------------------------------------------
(* From the source to the buffer of the matcher                            *)

\* Extractor and MapStage: a source that cannot be read on is a row with an error.
Mapped(c, record, line) ==
    LET mapped == IF record = Broken
                  THEN [row |-> Nil, errors |-> {<<"SOURCE_ERROR", "source">>},
                        warnings |-> {}]
                  ELSE MapRecord(c, record)
    IN [row |-> mapped.row, errors |-> mapped.errors, warnings |-> mapped.warnings,
        line |-> line, key |-> Nil, secrets |-> << >>, secretFields |-> {}, asked |-> {}]

\* What reaches the enricher of a record.
Prepared(c, record, line) == Normalize(c, Filter(c, Mapped(c, record, line)))

\* What a dictionary answers from: the rows it has, else those a load gets now.
Available ==
    [d \in DOMAIN conf.specs |->
        IF d \in DOMAIN loaded THEN loaded[d]
        ELSE Load(conf.specs[d], conf.manifest[d], files[d])]

\* _require_loaded: what was loaded for the lookups stays, what failed is tried again.
LoadAsked(names) ==
    LET kept == {d \in names \cap DOMAIN conf.specs : Available[d] # Fails}
    IN loaded' = [d \in DOMAIN loaded \cup kept |-> Available[d]]

Enriched(line) ==
    Enrich(conf, Prepared(conf, source[line], line),
           [sink_cache |-> tables[View], specs |-> conf.specs, dictionaries |-> Available])

Locator(line) == IF source[line] = Broken THEN Nil ELSE conf.locator[source[line]]

\* put_many: the secrets of a row replace those of its key.
PutSecrets(enriched) ==
    LET slots == {<<enriched.key, f>> : f \in DOMAIN enriched.secrets}
    IN [slot \in slots \cup DOMAIN vault |->
            IF slot \in slots THEN enriched.secrets[slot[2]] ELSE vault[slot]]

\* iter_micro_batches: the item waits in the buffer, a full buffer is flushed with
\* it, one whose interval has elapsed without it.
Buffer(item) ==
    \/ /\ Len(buffer) + 1 < MatchBatch
       /\ buffer' = Append(buffer, item) /\ batch' = << >>
    \/ /\ Len(buffer) + 1 >= MatchBatch
       /\ buffer' = << >> /\ batch' = Append(buffer, item)
    \/ /\ Intervals /\ buffer # << >>
       /\ buffer' = <<item>> /\ batch' = buffer

PullRow ==
    /\ phase = "pull" /\ ~ exhausted /\ batch = << >> /\ taken < Len(source)
    /\ \E enriched \in {Enriched(taken + 1)} :
       \E stored \in IF VaultFails THEN BOOLEAN ELSE {TRUE} :
         LET stores == enriched.row # Nil /\ enriched.key # Nil
                          /\ DOMAIN enriched.secrets # {}
             item == StoreSecrets(enriched, stored)
         IN /\ stored \/ stores
            /\ vault' = IF stores /\ stored THEN PutSecrets(enriched) ELSE vault
            /\ failures' = IF item.errors = {} THEN failures ELSE failures \cup {item.line}
            /\ LoadAsked(enriched.asked)
            /\ Buffer(item)
            /\ IF enriched.row # Nil /\ ReadsCache THEN ReadSnapshot
               ELSE UNCHANGED <<snapshot, reads>>
    /\ taken' = taken + 1
    /\ exhausted' = (source[taken + 1] = Broken)
    /\ UNCHANGED <<world, phase, seen, context, fetched, resolving, plan>>

\* (mutant) what is left in the buffer is not flushed.
DropLast == batch' = << >> /\ buffer' = << >>

FlushLast == batch' = buffer /\ buffer' = << >>

EndOfSource ==
    /\ phase = "pull" /\ batch = << >> /\ taken = Len(source)
    /\ ~ exhausted \/ buffer # << >>
    /\ exhausted' = TRUE
    /\ FlushLast
    /\ UNCHANGED <<world, snapshot, phase, loaded, taken, seen, context, vault, failures,
                   reads, fetched, resolving, plan>>

-----------------------------------------------------------------------------
(* The matcher and its dedup store                                         *)

\* (mutant) only a row with the same fingerprint is dropped.
DropSame(matched, key) ==
    IF key \notin DOMAIN seen \/ seen[key] # matched.row.fingerprint THEN matched
    ELSE [matched EXCEPT !.row = Nil,
                         !.warnings = @ \cup {<<"MATCH_DUPLICATE_SOURCE", "identity">>}]

\* match_with_source_dedup: a row of an identity that has been is dropped, with a
\* warning if it is the same row, else as on_conflict says.
DropRepeated(matched, key) ==
    IF key \notin DOMAIN seen THEN matched
    ELSE IF seen[key] = matched.row.fingerprint
    THEN [matched EXCEPT !.row = Nil,
                         !.warnings = @ \cup {<<"MATCH_DUPLICATE_SOURCE", "identity">>}]
    ELSE Report([matched EXCEPT !.row = Nil],
                {<<"MATCH_CONFLICT_SOURCE", "identity">>}, conf.onConflict)

\* check_and_register
Register(matched, key) ==
    IF key \in DOMAIN seen THEN seen ELSE Put(seen, key, matched.row.fingerprint)

Pass(result) ==
    /\ context' = Append(context, result)
    /\ failures' = IF result.errors = {} THEN failures ELSE failures \cup {result.line}

\* MatchStage.run for one row; its results go to the list of ResolveContextStage.
MatchRow ==
    /\ phase = "pull" /\ batch # << >>
    /\ LET item == Head(batch)
       IN \/ /\ item.row = Nil
             /\ Pass(item)
             /\ UNCHANGED <<seen, snapshot, reads>>
          \/ /\ item.row # Nil
             /\ \E matched \in {Match(conf.match, item, tables[View],
                                      Locator(item.line), conf.snapshot)} :
                  IF matched.row = Nil \/ ~ conf.dedup
                  THEN Pass(matched) /\ UNCHANGED seen
                  ELSE /\ Pass(DropRepeated(matched, DedupKey(matched.row)))
                       /\ seen' = Register(matched, DedupKey(matched.row))
             /\ ReadSnapshot
    /\ batch' = Tail(batch)
    /\ UNCHANGED <<world, phase, loaded, taken, exhausted, buffer, vault, fetched, resolving, plan>>

\* ResolveContextStage.run: its source is exhausted, the index of the rows is built
\* and they flow on into the first fetch.
BuildContext ==
    /\ phase = "pull" /\ exhausted /\ batch = << >> /\ buffer = << >>
    /\ phase' = "fetch"
    /\ UNCHANGED <<world, snapshot, rows, fetched, resolving, plan>>

-----------------------------------------------------------------------------
(* The resolve loop and the plan                                           *)

\* next(batches), a full micro-batch or one whose interval has elapsed.
Fetch ==
    /\ phase = "fetch" /\ fetched < Len(context)
    /\ \E n \in 1 .. ResolveBatch :
         /\ fetched + n <= Len(context)
         /\ Intervals \/ n = ResolveBatch \/ fetched + n = Len(context)
         /\ resolving' = SubSeq(context, fetched + 1, fetched + n)
         /\ fetched' = fetched + n
    /\ phase' = "resolve"
    /\ UNCHANGED <<world, snapshot, rows, plan>>

\* build_from_stream, add_resolved
Add(result) ==
    IF result.row = Nil \/ result.errors # {}
    THEN [plan EXCEPT !.total = @ + 1, !.failed = @ + 1]
    ELSE IF result.row.op = "skip"
    THEN [plan EXCEPT !.total = @ + 1, !.valid = @ + 1, !.skipped = @ + 1]
    ELSE [plan EXCEPT !.total = @ + 1, !.valid = @ + 1,
                      !.create = @ + (IF result.row.op = "create" THEN 1 ELSE 0),
                      !.update = @ + (IF result.row.op = "create" THEN 0 ELSE 1),
                      !.items = Append(@, Put(result.row, "line", result.line))]

ResolveRow ==
    /\ phase = "resolve" /\ resolving # << >>
    /\ \E result \in {IF Head(resolving).row = Nil THEN Head(resolving)
                      ELSE Resolve(conf.match, Head(resolving))} : plan' = Add(result)
    /\ resolving' = Tail(resolving)
    /\ UNCHANGED <<world, snapshot, phase, rows, fetched>>

\* The transaction of a micro-batch is committed, the next one opened.
Commit ==
    /\ phase = "resolve" /\ resolving = << >>
    /\ phase' = "fetch" /\ snapshot' = 0
    /\ UNCHANGED <<world, rows, fetched, resolving, plan>>

\* The rows are at their end: the plan is built.
Finish ==
    /\ phase = "fetch" /\ fetched = Len(context)
    /\ phase' = "done" /\ snapshot' = 0
    /\ UNCHANGED <<world, rows, fetched, resolving, plan>>

\* Another process commits a refresh.
Refresh ==
    /\ phase # "done" /\ revision < Len(tables)
    /\ revision' = revision + 1
    /\ UNCHANGED <<config, source, history, files, snapshot, phase, rows, fetched,
                   resolving, plan>>

\* Somebody replaces the file of a dictionary.
ReplaceFile ==
    /\ phase = "pull"
    /\ \E d \in DOMAIN files : \E content \in Files[config] \ {files[d]} :
          files' = [files EXCEPT ![d] = content]
    /\ UNCHANGED <<config, source, history, revision, snapshot, phase, rows, fetched,
                   resolving, plan>>

Step == \/ PullRow \/ EndOfSource \/ MatchRow \/ BuildContext
        \/ Fetch \/ ResolveRow \/ Commit \/ Finish

\* The plan is written and the run is over.
Over == phase = "done" /\ UNCHANGED vars

Next == Step \/ Refresh \/ ReplaceFile \/ Over

Spec == Init /\ [][Next]_vars

-----------------------------------------------------------------------------
(* Properties                                                              *)

Counters == {"total", "failed", "valid", "skipped", "create", "update"}

\* The state has the types of the pipeline's records.  (TransformResult,
\* PlanSummary, BatchConfig.)
TypeOK ==
    /\ config \in DOMAIN Configs /\ source \in Sources
    /\ revision \in 1 .. Len(tables) /\ snapshot \in 0 .. revision
    /\ phase \in {"pull", "fetch", "resolve", "done"} /\ exhausted \in BOOLEAN
    /\ taken \in 0 .. Len(source) /\ fetched \in 0 .. Len(context)
    /\ Len(buffer) < MatchBatch /\ Len(batch) <= MatchBatch
    /\ Len(resolving) <= ResolveBatch
    /\ failures \subseteq 1 .. taken /\ reads \subseteq 1 .. revision
    /\ \A c \in Counters : plan[c] \in 0 .. Len(source)

\* Every row taken from the source is in one place, in the order of the source: the
\* list of the context stage, the batch under way or the buffer.  (iter_micro_batches
\* flushes by size, by interval and at the end; a row with an error flows on.)
NoRowLost ==
    LET held == context \o batch \o buffer
    IN [i \in DOMAIN held |-> held[i].line] = [i \in 1 .. taken |-> i]

\* A plan has at most one item for an identity.  (match_with_source_dedup drops what
\* repeats an identity of the run, whatever batch it is in.)
OnePlannedPerIdentity ==
    conf.dedup =>
        \A i, j \in DOMAIN plan.items :
            DedupKey(plan.items[i]) = DedupKey(plan.items[j]) => i = j

\* What enrichment and matching decide in a run they decide on one state of the
\* cache, though another process refreshes it.  (_iter_resolved fetches the first
\* batch, and with it the whole source, inside the transaction.)
DecisionsShareASnapshot == Cardinality(reads) <= 1

\* Identities are by fields of the desired state.  A primary field that is given must
\* belong to the fields of its rule (MatchRule._validate_fields); a name that takes its
\* place, or a field that match drops, is let through.
DesiredIdentities(match) ==
    \A i \in DOMAIN match.identity :
        LET rule == match.identity[i]
        IN /\ rule.primary \in ToSet(rule.fields) /\ rule.primary # "match_key"
           /\ rule.primary \in ToSet(match.desired) \ match.drop

IdentitiesAreDesired ==
    \A name \in DOMAIN Configs : DesiredIdentities(Configs[name].match)

\* The records of the cache the run decided on that an identity of a planned item
\* names.
Holders(item, f) ==
    {record \in ToSet(tables[Max(reads)]) :
        /\ record.deleted => conf.match.includeDeleted
        /\ Field(record.row, f) = item.desired[f]}

\* The plan agrees with the cache it was decided on: a creation is of something none
\* of its identities finds, an update of something of which nothing else has the
\* identity.  (_match_identity, _decide_op.)
PlanAgreesWithCache ==
    \A i \in DOMAIN plan.items :
        LET item == plan.items[i]
        IN /\ item.op = "create" =>
                 \A r \in ToSet(conf.match.identity) :
                     Present(Field(item.desired, r.primary)) =>
                         Holders(item, r.primary) = {}
           /\ item.op = "update" =>
                 \A record \in Holders(item, item.identity.primary) :
                     record.row["_id"] = item.targetId

\* A lookup in a dictionary, by a field as it is.
LooksUp(c, r) == r.kind = "lookup" /\ r.provider \in DOMAIN c.specs /\ r.build.ops = << >>

\* A field that is looked up has no other source, and the field it is looked up by is
\* one of the desired state that enrichment does not write.
LookupsStandAlone ==
    \A name \in DOMAIN Configs :
        LET c == Configs[name]
        IN \A n \in DOMAIN c.enrich :
             LET r == c.enrich[n]
             IN LooksUp(c, r) =>
                  /\ r.provider # "sink_cache" /\ ~ r.secret
                  /\ Len(r.build.from) = 1
                  /\ r.build.from[1] \in ToSet(c.match.desired) \ c.match.drop
                  /\ \A m \in DOMAIN c.enrich :
                        /\ c.enrich[m].target # r.build.from[1]
                        /\ m # n => c.enrich[m].target # r.target
                  /\ \A s \in Sources : \A line \in 1 .. Len(s) :
                        LET row == Prepared(c, s[line], line).row
                        IN row # Nil => ~ Present(Field(row, r.target))

\* A value looked up in a dictionary is one the file of the manifest has under the
\* key, though the file is replaced while the run goes on and a dictionary may be
\* loaded late.  (load_dictionary_into compares the digests, _loaded keeps the rows.)
LookupsArePinned ==
    \A i \in DOMAIN context, r \in ToSet(conf.enrich) :
        LET row == context[i].row
            spec == conf.specs[r.provider]
        IN row # Nil /\ LooksUp(conf, r) /\ Present(Field(row.desired, r.target))
           => \E line \in ToSet(conf.manifest[r.provider].content) :
                 /\ line[r.path] = row.desired[r.target]
                 /\ NormalKey(spec, line[spec.key])
                       = NormalKey(spec, row.desired[r.build.from[1]])

\* A row that carries the mark of a secret and no error has it in the vault, under
\* its key.  (_store_secrets takes the secrets out of the row even if put_many
\* raised.)
SecretsAreStored ==
    \A i \in DOMAIN context :
        context[i].line \notin failures =>
            \A f \in context[i].secretFields : <<context[i].key, f>> \in DOMAIN vault

\* A row that failed is not planned.  (enrich-dsl.md:411: an error of enrichment goes
\* to the errors and the row becomes None; plan_builder.py:130 skips a row with
\* errors, but resolve replaces the errors of the stages before it.)
FailedRowsAreNotPlanned ==
    \A i \in DOMAIN plan.items : plan.items[i].line \notin failures
=============================================================================
