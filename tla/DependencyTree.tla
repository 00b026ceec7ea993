--------------------------- MODULE DependencyTree ---------------------------
(***************************************************************************)
(* The hierarchy algorithms of domain/dependency_tree, as operators: the   *)
(* snapshot built from the rows of the target, the anchoring of the rows   *)
(* of the source, the ladder that compares a path of the source with       *)
(* candidates of the target.                                               *)
(*                                                                         *)
(* A row is [id, parent, label].  The parent function of some rows maps    *)
(* their ids to parents, NoParent for a root; a parent need not be one of  *)
(* the ids.  What the code computes by walking and recursion is stated on  *)
(* the k-th ancestor, a recursive function of k.                           *)
(***************************************************************************)
EXTENDS Naturals, Sequences, FiniteSets, SequencesExt

CONSTANT NoParent    \* None, as a parent id

Ids(rows) == {rows[i].id : i \in DOMAIN rows}

\* The first row of an id: a later row of the same id is reported and skipped.
FirstOf(rows, id) ==
    rows[CHOOSE i \in DOMAIN rows :
            /\ rows[i].id = id
            /\ \A j \in DOMAIN rows : rows[j].id = id => i <= j]

ParentById(rows) == [id \in Ids(rows) |-> FirstOf(rows, id).parent]

Duplicates(rows) ==
    {id \in Ids(rows) : Cardinality({i \in DOMAIN rows : rows[i].id = id}) > 1}

-----------------------------------------------------------------------------
(* Walking up                                                              *)

\* The k-th ancestor of n, NoParent above the topmost one the rows know.
Ancestor(parent, n, k) ==
    LET up[i \in 0 .. k] ==
            IF i = 0 THEN n
            ELSE IF up[i - 1] \in DOMAIN parent THEN parent[up[i - 1]] ELSE NoParent
    IN up[k]

\* n and its ancestors among the rows.
Lineage(parent, n) ==
    {Ancestor(parent, n, k) : k \in 0 .. Cardinality(DOMAIN parent)}
        \cap DOMAIN parent

\* _has_cycle: no topological order exists.
HasCycle(parent) ==
    \E n \in DOMAIN parent : n \in Lineage(parent, parent[n])

Depth(parent, n) == Cardinality(Lineage(parent, n)) - 1

-----------------------------------------------------------------------------
(* TargetHierarchyTopologyBuilder and TopologySnapshot                     *)

EmptySnapshot == [parent |-> << >>, label |-> << >>]

Nodes(snapshot) == DOMAIN snapshot.parent

MissingParents(rows) ==
    {id \in Ids(rows) : ParentById(rows)[id] \notin Ids(rows) \cup {NoParent}}

BuildErrors(rows) ==
    LET broken == {<<"duplicate_node", id>> : id \in Duplicates(rows)}
                    \cup {<<"parent_missing", id>> : id \in MissingParents(rows)}
    IN IF broken = {} /\ HasCycle(ParentById(rows))
       THEN {<<"cycle_detected", NoParent>>}
       ELSE broken

\* Any error leaves the empty snapshot.
BuildSnapshot(rows) ==
    IF BuildErrors(rows) # {} THEN EmptySnapshot
    ELSE [parent |-> ParentById(rows),
          label |-> [id \in Ids(rows) |-> FirstOf(rows, id).label]]

\* canonical_path: the labels from the root down to n.
CanonicalPath(snapshot, n) ==
    LET depth == Depth(snapshot.parent, n)
    IN [i \in 1 .. depth + 1 |->
            snapshot.label[Ancestor(snapshot.parent, n, depth + 1 - i)]]

-----------------------------------------------------------------------------
(* anchor_source_nodes                                                     *)

\* The memo of visit: what the walk from each node finds first, a root or a
\* parent the target has, an unknown parent, or a node it has been at.
Verdicts(parent, targetIds) ==
    LET seen[k \in 0 .. Cardinality(DOMAIN parent)] ==
            IF k = 0 THEN [n \in DOMAIN parent |-> "cycle"]
            ELSE [n \in DOMAIN parent |->
                    CASE parent[n] \in targetIds \cup {NoParent} -> "anchored"
                      [] parent[n] \notin DOMAIN parent \cup targetIds \cup {NoParent}
                           -> "missing_parent"
                      [] OTHER ->
                           IF seen[k - 1][parent[n]] = "missing_parent"
                           THEN "unanchored_subtree"
                           ELSE seen[k - 1][parent[n]]]
    IN seen[Cardinality(DOMAIN parent)]

\* What is dropped, and why: a node whose walk failed, and every node below one,
\* even when the target has its own parent.
Dropped(parent, targetIds) ==
    LET verdicts == Verdicts(parent, targetIds)
        failed(n) == {a \in Lineage(parent, n) : verdicts[a] # "anchored"}
    IN [n \in {m \in DOMAIN parent : failed(m) # {}} |->
            IF verdicts[n] # "anchored" THEN verdicts[n]
            ELSE IF \E a \in failed(n) : verdicts[a] = "cycle" THEN "cycle"
            ELSE "unanchored_subtree"]

-----------------------------------------------------------------------------
(* compare_topology_candidates                                             *)

\* _candidate_matches_mode, for a path of the target and one of the source.
Agrees(mode, path, segments) ==
    CASE mode = "exact_canonical_path" -> path = segments
      [] mode = "exact_leaf_parent_chain" ->
            /\ Len(path) > 1 /\ Len(segments) > 1
            /\ SubSeq(path, Len(path) - 1, Len(path))
                 = SubSeq(segments, Len(segments) - 1, Len(segments))
      [] mode = "exact_leaf_root_depth" ->
            /\ Len(path) = Len(segments)
            /\ Last(path) = Last(segments) /\ Head(path) = Head(segments)
      [] OTHER -> FALSE

Rung(snapshot, segments, candidates, mode) ==
    {c \in candidates : Agrees(mode, CanonicalPath(snapshot, c), segments)}

NoMatch == [mode |-> "no_match", matched |-> {}]

\* The first rung of the ladder that any candidate passes decides.  A candidate
\* the snapshot does not know raises KeyError at the first rung.
Compare(snapshot, segments, candidates, ladder) ==
    LET hit == {i \in DOMAIN ladder :
                    Rung(snapshot, segments, candidates, ladder[i]) # {}}
    IN IF segments = << >> \/ candidates = {} \/ ladder = << >> THEN NoMatch
       ELSE IF ~ candidates \subseteq Nodes(snapshot)
            THEN [mode |-> "raises", matched |-> {}]
       ELSE IF hit = {} THEN NoMatch
       ELSE LET first == CHOOSE i \in hit : \A j \in hit : i <= j
                matched == Rung(snapshot, segments, candidates, ladder[first])
            IN [mode |-> IF Cardinality(matched) = 1 THEN ladder[first] ELSE "ambiguous",
                matched |-> matched]

-----------------------------------------------------------------------------
(* References the algorithms are compared with                             *)

\* A forest: every parent is a node, and some ranking decreases towards it.
IsForest(parent) ==
    /\ \A n \in DOMAIN parent : parent[n] \in DOMAIN parent \cup {NoParent}
    /\ \E rank \in [DOMAIN parent -> 0 .. Cardinality(DOMAIN parent)] :
          \A n \in DOMAIN parent : parent[n] # NoParent => rank[parent[n]] < rank[n]

\* The nodes the root or the target reaches: the smallest set closed under
\* being a child, and of those the ones with no other node above them.
Grounded(parent, targetIds) ==
    LET closed(S) == \A n \in DOMAIN parent :
                        parent[n] \in S \cup targetIds \cup {NoParent} => n \in S
        least == {n \in DOMAIN parent :
                    \A S \in SUBSET DOMAIN parent : closed(S) => n \in S}
        kept(S) == \A n \in S : parent[n] \in DOMAIN parent => parent[n] \in S
    IN UNION {S \in SUBSET least : kept(S)}
=============================================================================
