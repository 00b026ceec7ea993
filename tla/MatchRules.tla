----------------------------- MODULE MatchRules -----------------------------
(***************************************************************************)
(* What matching and the decision of an operation do to one row, as        *)
(* operators over the compiled match and resolve rules of a dataset.       *)
(*                                                                         *)
(* A record of the cache is [row, deleted]; its field "_id" is the id of   *)
(* the target.  Scores are percentages; a comparator is a function from    *)
(* pairs of values to percentages.                                         *)
(***************************************************************************)
EXTENDS RowRules, DependencyTree

\* cache_gateway.find: the records with the value, in the order of the cache.
Names(record, field, v, includeDeleted) ==
    Field(record.row, field) = v /\ (record.deleted => includeDeleted)

-----------------------------------------------------------------------------
(* Identity                                                                *)

\* _build_identity: the values of the fields of a rule, None read as "".
Identity(rule, result) ==
    LET value(f) == IF f = "match_key" THEN result.key ELSE Field(result.row, f)
    IN [primary |-> rule.primary,
        values |-> [f \in ToSet(rule.fields) |->
                        IF value(f) = Nil THEN Empty ELSE value(f)]]

Primary(identity) ==
    IF identity.primary \in DOMAIN identity.values
    THEN identity.values[identity.primary] ELSE Empty

\* The rules whose identity has a value.
WithValue(conf, result) ==
    {i \in DOMAIN conf.identity : Present(Primary(Identity(conf.identity[i], result)))}

\* The records the identity of each of them names.
Searched(conf, result, cache) ==
    [i \in WithValue(conf, result) |->
        LET identity == Identity(conf.identity[i], result)
        IN [identity |-> identity,
            hits |-> {n \in DOMAIN cache : Names(cache[n], identity.primary, Primary(identity),
                                                conf.includeDeleted)}]]

Found(search, cache) ==
    CASE search.hits = {} ->
           [status |-> "NOT_FOUND", identity |-> search.identity, existing |-> Nil]
      [] \E n \in search.hits : search.hits = {n} ->
           [status |-> "MATCHED", identity |-> search.identity,
            existing |-> cache[CHOOSE n \in search.hits : TRUE]]
      [] OTHER -> [status |-> "MATCH_CONFLICT_TARGET"]

\* (mutant) the first rule with a value decides, found or not.
FirstRule(searched, cache) ==
    IF DOMAIN searched = {} THEN [status |-> "MATCH_IDENTITY_MISSING"]
    ELSE Found(searched[Min(DOMAIN searched)], cache)

\* _match_identity: the first rule with a value that finds anything decides, and
\* several records under it are a conflict; without one the identity of the first
\* rule that has a value stays.
FirstTelling(searched, cache) ==
    LET telling == {i \in DOMAIN searched : searched[i].hits # {}}
    IN IF DOMAIN searched = {} THEN [status |-> "MATCH_IDENTITY_MISSING"]
       ELSE Found(searched[Min(IF telling # {} THEN telling ELSE DOMAIN searched)], cache)

Identify(conf, result, cache) == FirstTelling(Searched(conf, result, cache), cache)

\* build_desired_state, build_fingerprint: the fields of the target, and those of
\* them that are compared.
Desired(conf, row) ==
    [f \in ToSet(conf.desired) \ conf.drop |-> Field(row, f)]

Fingerprint(conf, desired) ==
    [f \in DOMAIN desired \ conf.ignored |-> desired[f]]

-----------------------------------------------------------------------------
(* Fuzzy matching                                                          *)

\* _read_value
ReadValue(row, desired, identity, f) ==
    IF f \in DOMAIN desired THEN desired[f]
    ELSE IF f = identity.primary THEN Primary(identity)
    ELSE Field(row, f)

\* The values a row is compared by.
Values(conf, row, desired, identity) ==
    [f \in DOMAIN conf.fuzzy.weights \cup ToSet(conf.fuzzy.blocking) |->
        ReadValue(row, desired, identity, f)]

\* _candidate_dedup_key: the id of a record.
AddNew(found, record) ==
    IF \E i \in DOMAIN found : found[i].row["_id"] = record.row["_id"]
    THEN found ELSE Append(found, record)

\* What the records that a blocking key names add to the candidates.
Collected(found, cache, field, v, includeDeleted) ==
    LET done[k \in 0 .. Len(cache)] ==
            IF k = 0 THEN found
            ELSE IF Names(cache[k], field, v, includeDeleted)
            THEN AddNew(done[k - 1], cache[k]) ELSE done[k - 1]
    IN done[Len(cache)]

UpTo(limit, s) == SubSeq(s, 1, IF Len(s) < limit THEN Len(s) ELSE limit)

\* _collect_blocking_candidates: the records any blocking key finds, each once, up
\* to the limit.
Blocked(conf, cache, values) ==
    LET keys == conf.fuzzy.blocking
        found[k \in 0 .. Len(keys)] ==
            IF k = 0 THEN << >>
            ELSE IF Present(values[keys[k]])
            THEN Collected(found[k - 1], cache, keys[k], values[keys[k]], conf.includeDeleted)
            ELSE found[k - 1]
    IN UpTo(conf.fuzzy.limit, found[Len(keys)])

\* score_candidate, rounded down to a percentage.
Score(fuzzy, record, values) ==
    LET fields == {f \in DOMAIN fuzzy.weights : fuzzy.weights[f] > 0}
        like(f) == IF values[f] = Nil \/ Field(record.row, f) = Nil THEN 0
                   ELSE fuzzy.like[f][<<values[f], record.row[f]>>]
        total == FoldFunctionOnSet(+, 0, fuzzy.weights, fields)
    IN IF fields = {} THEN 0
       ELSE FoldFunctionOnSet(+, 0, [f \in fields |-> fuzzy.weights[f] * like(f)], fields)
              \div total

\* The candidates that go before one of them.
Before(scored, i) ==
    {j \in DOMAIN scored : \/ scored[j].score > scored[i].score
                           \/ scored[j].score = scored[i].score /\ j < i}

Sorted(scored) ==
    [n \in DOMAIN scored |->
        scored[CHOOSE i \in DOMAIN scored : Cardinality(Before(scored, i)) = n - 1]]

\* rank_candidates: the best first, equals in the order they were found.
Ranked(fuzzy, candidates, values) ==
    Sorted([i \in DOMAIN candidates |->
               [record |-> candidates[i], score |-> Score(fuzzy, candidates[i], values)]])

IsTie(fuzzy, ranked) ==
    Len(ranked) >= 2 /\ ranked[1].score < ranked[2].score + fuzzy.tie

\* _match_with_fuzzy, for the ranked candidates.
Fuzzy(fuzzy, ranked) ==
    LET none == [status |-> "NOT_FOUND", existing |-> Nil]
        unsure == [status |-> "AMBIGUOUS", existing |-> Nil]
    IN IF ranked = << >> THEN none
       ELSE IF IsTie(fuzzy, ranked) THEN unsure
       ELSE CASE ranked[1].score >= fuzzy.accept ->
                   [status |-> "MATCHED", existing |-> ranked[1].record]
              [] ranked[1].score >= fuzzy.review /\ ranked[1].score < fuzzy.accept -> unsure
              [] OTHER -> none

-----------------------------------------------------------------------------
(* Topology.  A policy is [enabled, applyOn, onMissing, ladder, node], the *)
(* locator of a row the path of its record or Nil, the snapshot Nil where  *)
(* the run wired no service.                                               *)

\* _should_apply_topology
TopologyApplies(policy, status, candidates) ==
    /\ policy.enabled /\ candidates # << >>
    /\ \/ policy.applyOn = "all_candidates"
       \/ policy.applyOn = "ambiguous_only" /\ status = "AMBIGUOUS"
            /\ Len(candidates) > 1

\* What the comparison of the candidates, by their nodes, makes of a decision: of
\* the candidates of one node the first.
Settle(decision, candidates, nodes, verdict) ==
    CASE verdict.mode = "raises" -> [decision EXCEPT !.status = "BOUNDARY"]
      [] verdict.mode \in {"ambiguous", "no_match"} ->
           [decision EXCEPT !.status = "AMBIGUOUS"]
      [] OTHER ->
           [decision EXCEPT !.status = "MATCHED",
                            !.existing = candidates[Min({i \in DOMAIN nodes :
                                                          nodes[i] \in verdict.matched})]]

Compared(policy, decision, candidates, nodes, locator, snapshot) ==
    IF DOMAIN nodes = {} THEN decision
    ELSE Settle(decision, candidates, nodes,
                Compare(snapshot, locator, Range(nodes), policy.ladder))

\* The nodes of the candidates that have one.
NodesOf(policy, candidates) ==
    [i \in {j \in DOMAIN candidates : Present(Field(candidates[j].row, policy.node))} |->
        Field(candidates[i].row, policy.node)]

\* _refine_with_topology, on what the steps before it decided.
Refine(policy, decision, candidates, locator, snapshot) ==
    IF ~ TopologyApplies(policy, decision.status, candidates) \/ snapshot = Nil
    THEN decision
    ELSE IF locator # Nil
    THEN Compared(policy, decision, candidates, NodesOf(policy, candidates), locator, snapshot)
    ELSE IF policy.onMissing = "hard_error"
    THEN [decision EXCEPT !.status = "TOPOLOGY_SOURCE_PATH_EMPTY"]
    ELSE decision

-----------------------------------------------------------------------------
(* MatchCore.match                                                         *)

\* The decision on a row whose identity is settled, with the candidates topology
\* may choose from.
DecideFuzzy(conf, found, ranked, locator, snapshot) ==
    Refine(conf.topology, Fuzzy(conf.fuzzy, ranked),
           [i \in DOMAIN ranked |-> ranked[i].record], locator, snapshot)

DecideMatch(conf, found, cache, values, locator, snapshot) ==
    IF found.status = "MATCHED"
    THEN Refine(conf.topology, [status |-> "MATCHED", existing |-> found.existing],
                <<found.existing>>, locator, snapshot)
    ELSE IF conf.fuzzy.enabled
    THEN DecideFuzzy(conf, found,
                     Ranked(conf.fuzzy, Blocked(conf, cache, values), values),
                     locator, snapshot)
    ELSE [status |-> "NOT_FOUND", existing |-> Nil]

FailMatch(result, code) ==
    [result EXCEPT !.row = Nil, !.errors = @ \cup {<<code, "identity">>}]

MatchedRow(conf, result, found, desired, decision) ==
    IF decision.status \notin {"MATCHED", "AMBIGUOUS", "NOT_FOUND"}
    THEN FailMatch(result, decision.status)
    ELSE [result EXCEPT !.row = [identity |-> found.identity, desired |-> desired,
                                 fingerprint |-> Fingerprint(conf, desired),
                                 existing |-> decision.existing,
                                 status |-> decision.status,
                                 targetId |-> Field(result.row, "target_id")]]

MatchIdentified(conf, result, found, desired, cache, locator, snapshot) ==
    IF found.status \notin {"MATCHED", "NOT_FOUND"} THEN FailMatch(result, found.status)
    ELSE MatchedRow(conf, result, found, desired,
                    DecideMatch(conf, found, cache,
                                Values(conf, result.row, desired, found.identity),
                                locator, snapshot))

Match(conf, result, cache, locator, snapshot) ==
    MatchIdentified(conf, result, Identify(conf, result, cache),
                    Desired(conf, result.row), cache, locator, snapshot)

\* _build_source_dedup_key
DedupKey(matched) == <<matched.identity.primary, Primary(matched.identity)>>

-----------------------------------------------------------------------------
(* ResolveCore.resolve, without its links: see PendingLinks.               *)

\* _compile_merge: an empty field takes the value of the existing record.
Fill(state, rule, old) ==
    IF Present(Field(state, rule.field)) \/ ~ Present(Field(old, rule.existing))
    THEN state ELSE Put(state, rule.field, Field(old, rule.existing))

\* What the merge filled of the desired state becomes again what it was, empty or not.
Restore(desired, merged) ==
    [f \in DOMAIN desired \cup DOMAIN merged |->
        IF f \in DOMAIN desired THEN desired[f] ELSE merged[f]]

Merge(conf, matched) ==
    IF matched.existing = Nil THEN matched.desired
    ELSE Restore(matched.desired,
                 FoldLeft(LAMBDA state, rule : Fill(state, rule, matched.existing.row),
                          matched.desired, conf.merge))

\* _compile_diff
Changes(conf, matched, desired) ==
    LET differing(rule) == /\ rule.field \notin conf.diffIgnored
                           /\ Field(matched.existing.row, rule.existing)
                                # Field(desired, rule.field)
    IN IF matched.existing = Nil THEN {}
       ELSE {<<rule.output, Field(desired, rule.field)>> :
                rule \in {r \in ToSet(conf.diff) : differing(r)}}

\* _resolve_target_id
TargetId(matched) ==
    IF matched.status = "MATCHED"
    THEN Field(matched.existing.row, "_id") ELSE matched.targetId

\* _decide_op
Op(matched, changes) ==
    CASE matched.status = "NOT_FOUND" -> "create"
      [] matched.status # "NOT_FOUND" /\ changes = {} -> "skip"
      [] OTHER -> "update"

ResolvedRow(conf, matched, desired, changes, op) ==
    [identity |-> matched.identity, op |-> op, desired |-> desired, changes |-> changes,
     targetId |-> TargetId(matched), secretFields |-> conf.secretsFor[op]]

ResolveMerged(conf, result, matched, desired, changes) ==
    IF SinkIssues(desired, conf.sink, DOMAIN desired \ DOMAIN matched.desired) # {}
    THEN [result EXCEPT !.row = Nil, !.errors = {<<"SINK_INVALID", "row">>}]
    ELSE IF TargetId(matched) = Nil
    THEN [result EXCEPT !.row = Nil,
                        !.errors = {<<"RESOLVE_TARGET_ID_MISSING", "target_id">>}]
    ELSE [result EXCEPT !.row = ResolvedRow(conf, matched, desired, changes,
                                            Op(matched, changes)),
                        !.errors = {}]

ResolveDesired(conf, result, matched, desired) ==
    ResolveMerged(conf, result, matched, desired, Changes(conf, matched, desired))

\* ResolveStage.run: the errors of a resolved row are those of resolve.
Resolve(conf, result) ==
    IF result.row.status = "AMBIGUOUS"
    THEN [result EXCEPT !.row = Nil,
                        !.errors = {<<"RESOLVE_AMBIGUOUS", result.row.identity.primary>>}]
    ELSE ResolveDesired(conf, result, result.row, Merge(conf, result.row))
=============================================================================
