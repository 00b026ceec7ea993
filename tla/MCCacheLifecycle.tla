-------------------------- MODULE MCCacheLifecycle --------------------------
(***************************************************************************)
(* Employees depend on organizations; two commands at a time.              *)
(***************************************************************************)
EXTENDS CacheLifecycle, TLC

CONSTANTS orgs, employees

TwoDatasets == <<employees, orgs>>
EmployeesNeedOrgs == (employees :> {orgs}) @@ (orgs :> {})

Everything == [chosen |-> {}, withDeps |-> TRUE, withDeleted |-> TRUE, partial |-> FALSE]
OneWithDeps == [chosen |-> {employees}, withDeps |-> TRUE, withDeleted |-> FALSE, partial |-> FALSE]
FirstPages == [chosen |-> {employees}, withDeps |-> FALSE, withDeleted |-> TRUE, partial |-> TRUE]

TwoRefreshes == {OneWithDeps, FirstPages}
TwoClears == {[chosen |-> {}, cascade |-> FALSE], [chosen |-> {orgs}, cascade |-> TRUE]}

Symmetric == Permutations(Procs)

=============================================================================
