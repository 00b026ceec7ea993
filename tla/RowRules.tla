------------------------------ MODULE RowRules ------------------------------
(***************************************************************************)
(* What mapping, normalization and enrichment do to one row, as operators  *)
(* over the compiled rules of a dataset.                                   *)
(*                                                                         *)
(* A row maps fields to values; Nil is None, which a missing field reads   *)
(* as, and Empty the empty string.  An operation of the DSL is a function  *)
(* from the values it changes to results, Fails where it raises.           *)
(***************************************************************************)
EXTENDS Dictionaries, FiniteSets

CONSTANTS Empty

Present(v) == v \notin {Nil, Empty}

Field(row, name) == IF name \in DOMAIN row THEN row[name] ELSE Nil

Put(row, name, v) == [f \in DOMAIN row \cup {name} |-> IF f = name THEN v ELSE row[f]]

\* TransformationEngine.apply: the first operation that raises ends the chain, with
\* the value the operations before it made.
ApplyOps(v, ops) ==
    FoldLeft(LAMBDA done, op :
                IF done.failed \/ done.value \notin DOMAIN op THEN done
                ELSE IF op[done.value] = Fails THEN [done EXCEPT !.failed = TRUE]
                ELSE [done EXCEPT !.value = op[done.value]],
             [value |-> v, failed |-> FALSE], ops)

\* append_dsl_issue: an issue is a warning under on_error = "warn".
Report(result, issues, onError) ==
    IF onError = "warn" THEN [result EXCEPT !.warnings = @ \cup issues]
    ELSE [result EXCEPT !.errors = @ \cup issues]

Read(row, from) ==
    IF Len(from) = 1 THEN Field(row, from[1])
    ELSE [i \in DOMAIN from |-> Field(row, from[i])]

\* validate_sink_fields
SinkIssues(row, sink, fields) ==
    {<<"SINK_REQUIRED_MISSING", f>> :
        f \in {g \in fields \cap DOMAIN sink :
                  /\ sink[g].required
                  /\ \/ g \notin DOMAIN row
                     \/ ~ sink[g].nullable /\ ~ Present(row[g])}}
    \cup {<<"SINK_TYPE_INVALID", f>> :
        f \in {g \in fields \cap DOMAIN sink :
                  Field(row, g) # Nil /\ Field(row, g) \notin sink[g].type}}

-----------------------------------------------------------------------------
(* MapperCore                                                              *)

\* _assign_targets: the parts of a list go to the targets in order, a scalar to all.
Assign(row, rule, v) ==
    FoldLeft(LAMBDA done, i :
                Put(done, rule.to[i],
                    IF Len(rule.from) = 1 \/ Len(rule.to) = 1 THEN v
                    ELSE IF i <= Len(v) THEN v[i] ELSE Nil),
             row, [i \in DOMAIN rule.to |-> i])

CheckRequired(result, rule) ==
    Report(result, {<<"REQUIRED_FIELD_MISSING", t>> :
                      t \in {u \in ToSet(rule.to) :
                               rule.required /\ ~ Present(Field(result.row, u))}},
           rule.onError)

MapValue(result, rule, source, resolved) ==
    LET issues == {<<"missing_source_column", column>> :
                      column \in ToSet(rule.from) \ DOMAIN source}
                  \cup {<<"DSL_OP_FAILED", t>> : t \in {u \in ToSet(rule.to) : resolved.failed}}
    IN IF issues # {} THEN Report(result, issues, rule.onError)
       ELSE CheckRequired([result EXCEPT !.row = Assign(@, rule, resolved.value)], rule)

MapRule(result, rule, source) ==
    MapValue(result, rule, source, ApplyOps(Read(source, rule.from), rule.ops))

CheckSchema(conf, result) ==
    Report(result, {<<"REQUIRED_FIELD_MISSING", f>> :
                      f \in {g \in conf.schemaRequired : ~ Present(Field(result.row, g))}},
           "error")

WarnOfSink(conf, result) ==
    Report(result, {issue \in SinkIssues(result.row, conf.sink, DOMAIN conf.sink) :
                      issue[1] = "SINK_REQUIRED_MISSING"}, "warn")

\* A row with errors is no row.
Judge(result) ==
    IF result.errors = {} THEN result ELSE [result EXCEPT !.row = Nil]

\* map_record
MapRecord(conf, source) ==
    Judge(WarnOfSink(conf, CheckSchema(conf,
        FoldLeft(LAMBDA done, rule : MapRule(done, rule, source),
                 [row |-> << >>, errors |-> {}, warnings |-> {}], conf.map))))

-----------------------------------------------------------------------------
(* NormalizerCore                                                          *)

\* SourceTopologyFilterStage: a row of a node that is not anchored.
Filter(conf, result) ==
    LET found == {<<"TOPOLOGY_SOURCE_UNANCHORED", conf.nodeField>>}
    IN IF result.row = Nil \/ Field(result.row, conf.nodeField) \notin conf.unanchored
       THEN result
       ELSE IF conf.onUnanchored = "warn" THEN Report(result, found, "warn")
       ELSE Report([result EXCEPT !.row = Nil], found, "error")

NormalizeValue(result, rule, resolved) ==
    Report([result EXCEPT !.row = Put(@, rule.field, resolved.value)],
           IF resolved.failed THEN {<<"DSL_OP_FAILED", rule.field>>} ELSE {}, rule.onError)

CheckSink(conf, result) ==
    LET touched == {conf.normalize[i].field :
                      i \in {j \in DOMAIN conf.normalize : conf.normalize[j].ops # << >>}}
    IN Report(result, SinkIssues(result.row, conf.sink,
                                 IF conf.touchedOnly THEN touched ELSE DOMAIN conf.sink),
              conf.sinkOnError)

\* A rule with operations rewrites its field, also by what a failed chain left.
NormalizeBy(result, rule) ==
    IF rule.ops = << >> THEN result
    ELSE NormalizeValue(result, rule, ApplyOps(Field(result.row, rule.field), rule.ops))

NormalizeByAll(conf, result) ==
    LET done[k \in 0 .. Len(conf.normalize)] ==
            IF k = 0 THEN result ELSE NormalizeBy(done[k - 1], conf.normalize[k])
    IN done[Len(conf.normalize)]

\* normalize
Normalize(conf, result) ==
    IF result.row = Nil \/ result.errors # {} THEN result
    ELSE Judge(CheckSink(conf, NormalizeByAll(conf, result)))

-----------------------------------------------------------------------------
(* EnricherCore.  A result of it also has the key, the candidates for the  *)
(* vault and the fields an earlier operation wrote.                        *)

ValueOf(resolved) == IF resolved.failed THEN Nil ELSE resolved.value

\* _resolve_rule_value: a failed chain is None.
BlockValue(result, block) ==
    ValueOf(ApplyOps(IF block.from = <<"match_key">> THEN result.key
                     ELSE Read(result.row, block.from), block.ops))

\* ConflictResolver.decide: no source of the compiled rules has a priority of its
\* own, so two candidates always tie.
Decide(candidates) ==
    CASE candidates = << >> -> "NONE"
      [] Len(candidates) = 1 -> "SELECTED"
      [] OTHER -> "AMBIGUOUS"

\* MergeEngine.should_apply
ShouldApply(current, rule) ==
    \/ rule.merge = "recompute_always"
    \/ rule.merge = "override_if_authoritative" /\ rule.provider = "sink_cache"
    \/ rule.merge \in {"fill_only_if_empty", "override_if_empty"} /\ ~ Present(current)

\* _strictness_for: the outcome of a failure, by the rule or by its on_error.
Outcome(rule, kind) ==
    IF kind \in DOMAIN rule.strictness THEN rule.strictness[kind]
    ELSE CASE kind = "on_missing_key" -> "SKIPPED"
           [] kind = "on_ambiguous" -> "NEEDS_RESOLVE"
           [] OTHER -> IF rule.onError = "warn" THEN "WARNED" ELSE "FAILED"

\* _report_by_policy
ByPolicy(result, rule, outcome, code) ==
    CASE outcome = "FAILED" ->
           [result EXCEPT !.errors = @ \cup {<<code, rule.target>>}]
      [] outcome \in {"WARNED", "NEEDS_RESOLVE"} ->
           [result EXCEPT !.warnings = @ \cup {<<code, rule.target>>}]
      [] OTHER -> result

\* _apply_candidates, for the one target a compiled operation has.
Apply(result, rule, conf, v) ==
    LET current == IF rule.secret THEN Field(result.secrets, rule.target)
                   ELSE Field(result.row, rule.target)
    IN IF ~ ShouldApply(current, rule) THEN result
       ELSE IF SinkIssues(Put(<< >>, rule.target, v), conf.sink, {rule.target}) # {}
       THEN ByPolicy(result, rule, Outcome(rule, "on_provider_error"), "SINK_INVALID")
       ELSE IF rule.secret
       THEN [result EXCEPT !.secrets = Put(@, rule.target, v)]
       ELSE [result EXCEPT !.row = Put(@, rule.target, v)]

FirstHit(hits) == IF hits = << >> THEN Nil ELSE hits[1]

\* The first record of the cache with the value, None if there is none.
Existing(cache, field, v) ==
    FirstHit(SelectSeq(cache, LAMBDA record : Field(record.row, field) = v))

AllowedBy(rule, existing, result) ==
    \/ existing = Nil
    \/ /\ rule.allow # Nil
       /\ Field(existing.row, rule.allow) = Field(result.row, rule.allow)

\* A generated value is free: nothing has it, or what has it allows it.
IsFree(rule, v, result, cache) ==
    \/ rule.exists = Nil
    \/ AllowedBy(rule, Existing(cache, rule.exists, v), result)

Joined(rule, base, appended) ==
    IF ~ Present(appended) THEN base
    ELSE IF Present(base) THEN rule.join[<<base, appended>>] ELSE appended

\* _build_compiled_base_candidate
BaseCandidate(result, rule) ==
    Joined(rule, BlockValue(result, rule.build),
           IF rule.when.from # << >> /\ Present(BlockValue(result, rule.when))
           THEN BlockValue(result, rule.then) ELSE Nil)

\* The first of the values tried that is free; without one an error if the rule
\* names one.
FirstFree(rule, tried, result, cache) ==
    LET free == SelectSeq(tried, LAMBDA v : Present(v) /\ IsFree(rule, v, result, cache))
    IN IF free # << >> THEN <<free[1]>>
       ELSE IF rule.conflictCode THEN Fails ELSE << >>

\* _generate_compiled_candidates: the base and its suffixed forms.
Suffixed(rule, base, result, cache) ==
    IF ~ Present(base) THEN IF rule.missingCode THEN Fails ELSE << >>
    ELSE FirstFree(rule, <<base>> \o [i \in DOMAIN rule.suffixes |-> rule.suffixes[i][base]],
                   result, cache)

Generate(result, rule, cache) == Suffixed(rule, BaseCandidate(result, rule), result, cache)

\* read_value_path of the candidates; a None is no candidate.
ValuesAt(path, records) ==
    LET told == RowsAt(records, {i \in DOMAIN records : Field(records[i], path) # Nil})
    IN [i \in DOMAIN told |-> told[i][path]]

CacheRows(rule, v, cache) ==
    LET hits == SelectSeq(cache, LAMBDA record : Field(record.row, rule.by) = v)
    IN [i \in DOMAIN hits |-> hits[i].row]

\* ProviderGateway.lookup: cache.by_field or dictionary.by_key.
Provided(rule, v, tables) ==
    IF rule.provider = "sink_cache" THEN CacheRows(rule, v, tables.sink_cache)
    ELSE RowsUnder(tables.specs, tables.dictionaries, rule.provider, v, rule.limit)

FoundUnder(rule, key, tables) ==
    IF key.failed THEN Fails
    ELSE IF ~ Present(key.value) THEN << >>
    ELSE LET found == Provided(rule, key.value, tables)
         IN IF found = Fails THEN Fails ELSE ValuesAt(rule.path, found)

KeyOf(result, rule) == ApplyOps(Read(result.row, rule.build.from), rule.build.ops)

\* _DslLookupProvider.fetch: the values of the records under the key; a failed chain
\* of the key raises.
Lookup(result, rule, tables) == FoundUnder(rule, KeyOf(result, rule), tables)

\* A lookup with a key asks its provider.
Ask(result, rule) ==
    IF rule.kind = "lookup" /\ ~ KeyOf(result, rule).failed
         /\ Present(KeyOf(result, rule).value)
    THEN [result EXCEPT !.asked = @ \cup {rule.provider}]
    ELSE result

\* What the candidates of an operation make of the row.
Weigh(result, rule, conf, candidates) ==
    IF candidates = Fails
    THEN ByPolicy(result, rule, Outcome(rule, "on_provider_error"), "ENRICH_PROVIDER_ERROR")
    ELSE CASE Decide(candidates) = "NONE" ->
                ByPolicy(result, rule, Outcome(rule, "on_no_candidates"),
                         "ENRICH_NO_CANDIDATES")
           [] Decide(candidates) = "AMBIGUOUS" ->
                ByPolicy(result, rule, Outcome(rule, "on_ambiguous"), "ENRICH_AMBIGUOUS")
           [] OTHER -> Apply(result, rule, conf, candidates[1])

\* _execute_operation and _should_run_operation: with errors, only an operation
\* that always runs does.
Execute(result, rule, conf, tables) ==
    IF result.errors # {} /\ ~ rule.always THEN result
    ELSE Weigh(Ask(result, rule), rule, conf,
                  IF rule.kind = "lookup" THEN Lookup(result, rule, tables)
                  ELSE Generate(result, rule, tables.sink_cache))

\* _build_match_key_operation, the first operation, whatever the errors.
BuildKey(conf, result) ==
    LET parts == [i \in DOMAIN conf.key |-> Field(result.row, conf.key[i])]
    IN IF conf.keyStrict /\ \E i \in DOMAIN parts : ~ Present(parts[i])
       THEN [result EXCEPT !.errors = @ \cup {<<"MATCH_KEY_MISSING", "matchKey">>}]
       ELSE [result EXCEPT !.key = parts]

ExecuteAll(conf, result, tables) ==
    LET done[k \in 0 .. Len(conf.enrich)] ==
            IF k = 0 THEN result ELSE Execute(done[k - 1], conf.enrich[k], conf, tables)
    IN done[Len(conf.enrich)]

\* The operations of enrich, before the secrets are stored.
Enrich(conf, result, tables) ==
    IF result.row = Nil THEN result ELSE ExecuteAll(conf, BuildKey(conf, result), tables)

\* (mutant) a refusal of the vault is not an error of the row.
IgnoreRefusal(result, taken) ==
    IF result.row = Nil \/ DOMAIN result.secrets = {} THEN result
    ELSE [result EXCEPT !.secretFields = DOMAIN result.secrets, !.secrets = << >>]

\* _store_secrets, after the vault took them or refused.
StoreSecrets(result, taken) ==
    IF result.row = Nil \/ DOMAIN result.secrets = {} THEN result
    ELSE IF result.key = Nil
    THEN [result EXCEPT !.errors = @ \cup {<<"SECRET_MATCH_KEY_MISSING", "matchKey">>}]
    ELSE [result EXCEPT
              !.row = [f \in DOMAIN @ |-> IF f \in DOMAIN result.secrets THEN Nil ELSE @[f]],
              !.secretFields = DOMAIN result.secrets,
              !.secrets = << >>,
              !.errors = IF taken THEN @ ELSE @ \cup {<<"SECRET_STORE_ERROR", "vault">>}]
=============================================================================
