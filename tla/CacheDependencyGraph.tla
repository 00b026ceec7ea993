------------------------ MODULE CacheDependencyGraph ------------------------
(***************************************************************************)
(* The dependency graph of the cached datasets: the order in which a       *)
(* refresh visits them and the datasets a clear empties.  datasets is the  *)
(* sequence of their names as the registry lists them, deps[d] the set of  *)
(* datasets that d depends on.                                             *)
(***************************************************************************)
EXTENDS Naturals, Sequences, FiniteSets

Members(seq) == {seq[i] : i \in DOMAIN seq}

\* The elements of seq that are in set, in the order of seq.
Within(seq, set) ==
  LET kept[k \in 0..Len(seq)] ==
        IF k = 0 THEN <<>>
        ELSE IF seq[k] \in set THEN Append(kept[k-1], seq[k]) ELSE kept[k-1]
  IN kept[Len(seq)]

\* Kahn's algorithm: one dataset leaves the queue per round, and those that
\* waited only for it join the queue in the order of the registry.
Freed(datasets, deps, before, current) ==
  Within(datasets, {d \in Members(datasets) :
                      current \in deps[d] /\ deps[d] \subseteq before \cup {current}})

Visit(s, datasets, deps) ==
  LET current == Head(s.queue)
  IN [queue   |-> Tail(s.queue) \o Freed(datasets, deps, Members(s.ordered), current),
      ordered |-> Append(s.ordered, current)]

TopologicalOrder(datasets, deps) ==
  LET start == [queue   |-> Within(datasets, {d \in Members(datasets) : deps[d] = {}}),
                ordered |-> <<>>]
      round[n \in 0..Len(datasets)] ==
        IF n = 0 THEN start
        ELSE IF round[n-1].queue = <<>> THEN round[n-1]
             ELSE Visit(round[n-1], datasets, deps)
  IN round[Len(datasets)].ordered

\* The constructor of the graph raises when the order is not complete.
HasCycle(datasets, deps) == Len(TopologicalOrder(datasets, deps)) < Len(datasets)

\* What is reached from scope along next: dependencies or dependents.
Expand(scope, next) ==
  LET reached[n \in 0..Cardinality(DOMAIN next)] ==
        IF n = 0 THEN scope
        ELSE reached[n-1] \cup UNION {next[d] : d \in reached[n-1]}
  IN reached[Cardinality(DOMAIN next)]

Dependents(deps) == [d \in DOMAIN deps |-> {e \in DOMAIN deps : d \in deps[e]}]

\* All datasets, or one, or one after everything it depends on.
RefreshOrder(datasets, deps, chosen, withDeps) ==
  LET all   == TopologicalOrder(datasets, deps)
      scope == IF withDeps THEN Expand(chosen, deps) ELSE chosen
  IN IF chosen = {} THEN all ELSE Within(all, scope)

\* All datasets, or one, or one with everything that depends on it.  (A cascade
\* visits them last to first; a clear is one transaction, so that makes no
\* difference.)
ClearOrder(datasets, deps, chosen, cascade) ==
  LET all   == TopologicalOrder(datasets, deps)
      scope == IF cascade THEN Expand(chosen, Dependents(deps)) ELSE chosen
  IN IF chosen = {} THEN all ELSE Within(all, scope)

=============================================================================
