---------------------------- MODULE MCRowPipeline ----------------------------
(* Instances of RowPipeline for TLC.  A source has the columns of a name, a   *)
(* mail address, a unit and a password; enrichment adds the department, the   *)
(* login and the id of the target.                                            *)
EXTENDS RowPipeline

CONSTANTS n1, n2, m1, m2, blank, d1, d2, l1, l2, l1x, p1, p2, t1, t2, t3, u1, top, bad,
          MaxRows

Ops(from, to) == [v \in {from} |-> to]

MapTo(column, field, required, onError) ==
    [from |-> <<column>>, to |-> <<field>>, ops |-> << >>, required |-> required,
     onError |-> onError]

Block(field, op) == [from |-> <<field>>, ops |-> IF op = << >> THEN << >> ELSE <<op>>]
NoBlock == [from |-> << >>, ops |-> << >>]

Rule(kind, target, build) ==
    [kind |-> kind, target |-> target, build |-> build, secret |-> FALSE,
     provider |-> "none", by |-> "none", path |-> "none", limit |-> 0, when |-> NoBlock,
     then |-> NoBlock, join |-> << >>, suffixes |-> << >>, exists |-> Nil, allow |-> Nil,
     missingCode |-> FALSE, conflictCode |-> FALSE, strictness |-> << >>,
     onError |-> "error", merge |-> "fill_only_if_empty", always |-> FALSE]

Department == [Rule("lookup", "dept", Block("name", << >>)) EXCEPT
                 !.provider = "departments", !.path = "dept",
                 !.onError = "warn"]
Login == [Rule("generate", "login", Block("name", (n1 :> l1) @@ (n2 :> l2))) EXCEPT
            !.exists = "login", !.suffixes = <<l1 :> l1x @@ l2 :> l1x>>,
            !.conflictCode = TRUE]
Target == Rule("generate", "target_id", Block("name", (n1 :> t1) @@ (n2 :> t2)))
Password == [Rule("generate", "code", Block("code", << >>)) EXCEPT
               !.secret = TRUE, !.merge = "recompute_always"]

Known == {n1, n2, m1, m2, d1, d2, l1, l2, l1x, p1, p2, t1, t2, t3, u1, top}
SinkField(required, nullable, type) ==
    [required |-> required, nullable |-> nullable, type |-> type]

Fuzzy0 == [enabled |-> FALSE, blocking |-> <<"dept">>, weights |-> "name" :> 1 @@ "mail" :> 1,
           like |-> [f \in {"name", "mail"} |->
                        [pair \in Known \X Known |-> IF pair[1] = pair[2] THEN 100 ELSE 40]],
           accept |-> 70, review |-> 40, tie |-> 5, limit |-> 2]

Topology0 == [enabled |-> FALSE, applyOn |-> "ambiguous_only", onMissing |-> "skip",
              ladder |-> <<"exact_canonical_path", "exact_leaf_parent_chain">>,
              node |-> "unit"]

Matching ==
    [identity |-> <<[primary |-> "mail", fields |-> <<"mail">>],
                    [primary |-> "name", fields |-> <<"name">>]>>,
     includeDeleted |-> FALSE,
     desired |-> <<"name", "mail", "dept", "login", "code">>, drop |-> {"code"},
     ignored |-> {"dept"}, fuzzy |-> Fuzzy0, topology |-> Topology0,
     merge |-> <<[field |-> "unit", existing |-> "unit"]>>,
     diff |-> [i \in 1 .. 2 |-> LET f == <<"name", "mail">>[i]
                               IN [field |-> f, existing |-> f, output |-> f]],
     diffIgnored |-> {}, sink |-> "unit" :> SinkField(FALSE, TRUE, {u1, d2}),
     secretsFor |-> [op \in {"create", "update", "skip"} |->
                        IF op = "create" THEN {"code"} ELSE {}]]

\* The departments by name.
Departments == <<[name |-> n1, dept |-> d1], [name |-> n2, dept |-> d2]>>
Moved == <<[name |-> n1, dept |-> d2], [name |-> n2, dept |-> d2]>>
DepartmentSpec ==
    [key |-> "name", values |-> {"dept"}, nullable |-> {}, normal |-> << >>,
     repeats |-> FALSE]

Basic ==
    [specs |-> "departments" :> DepartmentSpec,
     manifest |-> "departments" :> [schema |-> Schema(DepartmentSpec),
                                    content |-> Departments, rows |-> 2],
     strategy |-> "eager",
     map |-> <<MapTo("n", "name", TRUE, "error"), MapTo("m", "mail", FALSE, "warn"),
               MapTo("p", "code", FALSE, "warn")>>,
     schemaRequired |-> {"name"},
     sink |-> "name" :> SinkField(TRUE, FALSE, {n1, n2})
                @@ "mail" :> SinkField(FALSE, TRUE, {m1, m2}),
     nodeField |-> "name", unanchored |-> {}, onUnanchored |-> "error",
     normalize |-> <<[field |-> "mail", ops |-> <<blank :> Nil @@ bad :> Fails>>,
                      onError |-> "warn"]>>,
     sinkOnError |-> "error", touchedOnly |-> FALSE,
     key |-> <<"name">>, keyStrict |-> TRUE,
     enrich |-> <<Department, Login, Target, Password>>,
     dedup |-> TRUE, onConflict |-> "error", match |-> Matching,
     locator |-> << >>, snapshot |-> Nil]

Record(n, m, p) == [n |-> n, m |-> m, p |-> p]

SomeRecords == {Record(n1, m1, p1), Record(n1, m1, p2), Record(n1, m2, Nil),
                Record(n2, blank, p1), Record(n2, m1, Nil), Record(Nil, m2, p1),
                Record(n1, bad, Nil)}

SomeSources ==
    LET full == UNION {[1 .. k -> SomeRecords] : k \in 0 .. MaxRows}
        longer == {<<Record(n1, m1, p1), Record(n2, blank, p1), Record(n1, m2, Nil)>>,
                   <<Record(n1, m1, p1), Record(n1, m1, p2), Record(n2, m1, Nil)>>,
                   <<Record(n2, blank, p1), Record(Nil, m2, p1), Record(n1, bad, Nil)>>}
    IN full \cup longer \cup {Append(s, Broken) : s \in {r \in full : Len(r) > 0}}

\* Fuzzy candidates refined by topology, for the records with a mail address of
\* nobody; conflicts that are warnings, nodes that are not anchored.
Tree == [parent |-> u1 :> top @@ top :> NoParent, label |-> u1 :> u1 @@ top :> top]
Paths == [r \in SomeRecords |-> IF r.p = p2 THEN Nil ELSE <<top, u1>>]
Warning == [Basic EXCEPT !.onConflict = "warn"]
Undeduped == [Basic EXCEPT !.dedup = FALSE, !.unanchored = {n1}, !.onUnanchored = "warn"]
Scored(topology) ==
    [Basic EXCEPT !.match.fuzzy.enabled = TRUE, !.match.topology = topology,
                  !.match.identity = <<[primary |-> "mail", fields |-> <<"mail">>],
                                       [primary |-> "login", fields |-> <<"login">>]>>,
                  !.locator = Paths, !.snapshot = Tree]

SomeConfigs ==
    [basic |-> Basic, late |-> [Basic EXCEPT !.strategy = "lazy"], warning |-> Warning, undeduped |-> Undeduped,
     scored |-> [Scored(Topology0) EXCEPT !.unanchored = {n2}],
     refined |-> Scored([Topology0 EXCEPT !.enabled = TRUE, !.onMissing = "hard_error"]),
     judged |-> Scored([Topology0 EXCEPT !.enabled = TRUE, !.applyOn = "all_candidates"])]

Entry(id, name, mail, dept, login, unit) ==
    [deleted |-> FALSE, row |-> ("_id" :> id) @@ [name |-> name, mail |-> mail,
        dept |-> dept, login |-> login, unit |-> unit]]

\* The people of the source, and nobody; one of them; two who share the name and the
\* department; someone else with the login, and a deleted record.
Nobody == << >>
One == <<Entry(t1, n1, m1, d1, l1, u1)>>
Two == <<Entry(t1, n1, m2, d1, l1, u1), Entry(t3, n1, m2, d1, l2, top)>>
Other == <<Entry(t3, n2, m2, d1, l1, d2),
           [Entry(t1, n1, m1, d1, l1x, u1) EXCEPT !.deleted = TRUE]>>

SomeHistories ==
    [one |-> <<One>>, two |-> <<Two>>, other |-> <<Other>>,
     filled |-> <<Nobody, One>>, emptied |-> <<Two, Nobody>>]

\* The file may be another one only where the rules load it late.
SomeFiles ==
    [name \in DOMAIN SomeConfigs |->
        IF name = "late" THEN {Departments, Moved} ELSE {Departments}]

\* The rules here look identities up by fields of the desired state, and look up what
\* nothing else gives.
ASSUME IdentitiesAreDesired
ASSUME LookupsStandAlone
=============================================================================
