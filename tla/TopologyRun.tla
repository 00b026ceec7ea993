----------------------------- MODULE TopologyRun -----------------------------
(***************************************************************************)
(* The topology of one run of a pipeline command: what its policies ask    *)
(* for, the bootstrap that reads the hierarchy of the target from the      *)
(* cache and the adjacency list of the source from its file, the wiring of *)
(* the match and resolve stages, and the stage that filters the rows.      *)
(*                                                                         *)
(* The cache belongs to other processes too, a refresh of one of them may  *)
(* commit between any two reads, and the file of the source may be         *)
(* replaced.  The command opens the file twice, once to validate it and    *)
(* once to import it.                                                      *)
(***************************************************************************)
EXTENDS DependencyTree

CONSTANTS
    Own, Other,        \* the dataset of the command, the one its link points to
    Configs,           \* command and policies, see Config
    TargetContents,    \* hierarchies a refresh may leave in the cache
    SourceFiles,       \* adjacency lists the source file may hold
    MaxRefreshes,      \* bound on the refreshes of other processes
    MaxEdits           \* bound on the replacements of the file

Datasets == {Own, Other}

SourceIds == UNION {Ids(rows) : rows \in SourceFiles}

\* Policies of a dataset: match and link are "off" or the on_missing_topology of
\* an enabled policy, validation is "none" unless topology.source is an adjacency
\* list, and then its on_unanchored.  The mapper makes the id of a pipeline row of
\* the one in the file, NoParent if it leaves the row without.
Config ==
    [command: {"cache-refresh", "enrich", "match", "resolve", "import-plan"},
     capability: BOOLEAN, match: {"off", "skip", "hard_error"},
     link: {"off", "skip", "pending", "hard_error"}, linkTo: Datasets,
     linkCapability: BOOLEAN, validation: {"none", "skip", "warn", "hard_error"},
     cached: SUBSET Datasets, mapped: [SourceIds -> SourceIds \cup {NoParent}]]

ASSUME TopologyAssumption ==
    /\ Own # Other
    /\ Configs \subseteq Config
    /\ \A rows \in TargetContents \cup SourceFiles : rows \in Seq(ToSet(rows))
    /\ \A rows \in SourceFiles : NoParent \notin Ids(rows)
    /\ MaxRefreshes \in Nat /\ MaxEdits \in Nat

VARIABLES
    config,     \* the command and the policies of its dataset
    cache,      \* per dataset: the rows of its hierarchy and their revision
    file,       \* the adjacency list in the source file
    phase,      \* how far the command is
    decision,   \* what the resolver of requirements decided
    meta,       \* revision the target reader saw
    hierarchy,  \* the rows the target reader read
    nodes,      \* the rows the source reader read
    validated,  \* ids the target has and the nodes dropped, None before
    problems,   \* errors of the bootstrap
    artifacts,  \* what the run goes on with, None if the bootstrap built nothing
    services,   \* consumers that were wired, and the dataset of their snapshot
    reading,    \* rows the pipeline has still to read
    passed,     \* rows the filter let through, marked if it warned
    refreshes, edits

vars == <<config, cache, file, phase, decision, meta, hierarchy, nodes, validated,
          problems, artifacts, services, reading, passed, refreshes, edits>>

None == [none |-> TRUE]

MatchActivating == {"match", "import-plan"}
ResolveActivating == {"resolve", "import-plan"}

-----------------------------------------------------------------------------
(* TopologyRequirementResolver.resolve                                     *)

MatchWanted(c) == c.command \in MatchActivating /\ c.match # "off"
LinkWanted(c) == c.command \in ResolveActivating /\ c.link # "off"
ValidationWanted(c) == c.command \in ResolveActivating /\ c.validation # "none"

LinkEnabled(c) == IF c.linkTo = Own THEN c.capability ELSE c.linkCapability

\* A policy whose capability is off is refused, in the order the code looks.
Refused(c) ==
    \/ MatchWanted(c) /\ ~ c.capability
    \/ LinkWanted(c) /\ ~ LinkEnabled(c)
    \/ ValidationWanted(c) /\ ~ c.capability

\* ValueError: the consumers look at different datasets.
Split(c) ==
    \/ MatchWanted(c) /\ LinkWanted(c) /\ LinkEnabled(c) /\ c.linkTo # Own
    \/ LinkWanted(c) /\ ValidationWanted(c) /\ c.capability /\ c.linkTo # Own

\* (mutant) only match and link are compared.
RaisesForMatch(c) ==
    MatchWanted(c) /\ c.capability /\ LinkWanted(c) /\ LinkEnabled(c) /\ c.linkTo # Own

\* The command raises before it refuses only at a link to another dataset.
Raises(c) ==
    Split(c) /\ ~ (MatchWanted(c) /\ ~ c.capability)
             /\ ~ (LinkWanted(c) /\ ~ LinkEnabled(c))

\* target_failure_is_hard
Hard(c) ==
    \/ MatchWanted(c) /\ c.match = "hard_error"
    \/ LinkWanted(c) /\ c.link = "hard_error"
    \/ ValidationWanted(c)

Decision(c) ==
    [kind |->
        CASE c.command \notin MatchActivating \cup ResolveActivating -> "inactive"
          [] Raises(c) -> "raises"
          [] ~ Raises(c) /\ Refused(c) -> "refused"
          [] ~ Raises(c) /\ ~ Refused(c)
                /\ (MatchWanted(c) \/ LinkWanted(c) \/ ValidationWanted(c)) -> "active"
          [] OTHER -> "inactive",
     dataset |-> IF LinkWanted(c) THEN c.linkTo ELSE Own,
     source |-> ValidationWanted(c),
     hard |-> Hard(c)]

-----------------------------------------------------------------------------
Init ==
    /\ config \in Configs
    /\ cache \in [Datasets -> [rows: TargetContents, revision: {0}]]
    /\ file \in SourceFiles
    /\ phase = "start"
    /\ decision = None /\ meta = 0
    /\ hierarchy = << >> /\ nodes = << >>
    /\ validated = None /\ problems = {}
    /\ artifacts = None
    /\ services = [match |-> None, link |-> None]
    /\ reading = << >> /\ passed = {}
    /\ refreshes = 0 /\ edits = 0

world == <<config, cache, file, refreshes, edits>>
pipeline == <<services, reading, passed>>

\* _require_cache_spec: the readers need the cache specification of the dataset.
HasCacheSpec(c, dataset) == dataset \in c.cached

\* TopologyBootstrapStep.run, the decision.
Decide ==
    /\ phase = "start"
    /\ decision' = Decision(config)
    /\ phase' = CASE decision'.kind \in {"raises", "refused"} -> "failed"
                  [] decision'.kind = "inactive" -> "wiring"
                  [] OTHER -> IF HasCacheSpec(config, decision'.dataset)
                              THEN "metadata" ELSE "failed"
    /\ UNCHANGED <<meta, hierarchy, nodes, validated, problems, artifacts>>
    /\ UNCHANGED world /\ UNCHANGED pipeline

\* read_snapshot_metadata, a query of its own.
ReadMetadata ==
    /\ phase = "metadata"
    /\ meta' = cache[decision.dataset].revision
    /\ phase' = "hierarchy"
    /\ UNCHANGED <<decision, hierarchy, nodes, validated, problems, artifacts>>
    /\ UNCHANGED world /\ UNCHANGED pipeline

\* The builder and the readiness, whose freshness policy is "none": errors of
\* the builder are errors whether the target is required or not, an empty
\* snapshot is one only when it is.
TargetProblems(rows, hard) ==
    LET empty == BuildErrors(rows) = {} /\ rows = << >>
    IN BuildErrors(rows)
        \cup (IF empty /\ hard THEN {<<"target_empty", NoParent>>} ELSE {})

\* read_hierarchy, with deleted rows too.
ReadHierarchy ==
    /\ phase = "hierarchy"
    /\ hierarchy' = cache[decision.dataset].rows
    /\ problems' = TargetProblems(hierarchy', decision.hard)
    /\ phase' = IF decision.source THEN "source" ELSE "conclude"
    /\ UNCHANGED <<decision, meta, nodes, validated, artifacts>>
    /\ UNCHANGED world /\ UNCHANGED pipeline

\* read_nodes: rows that are equal in every column are read once.
Distinct(rows) ==
    LET kept[k \in 0 .. Len(rows)] ==
            IF k = 0 THEN << >>
            ELSE IF \E i \in 1 .. k - 1 : rows[i] = rows[k] THEN kept[k - 1]
                 ELSE Append(kept[k - 1], rows[k])
    IN kept[Len(rows)]

ReadSource ==
    /\ phase = "source"
    /\ nodes' = Distinct(file)
    /\ phase' = "membership"
    /\ UNCHANGED <<decision, meta, hierarchy, validated, problems, artifacts>>
    /\ UNCHANGED world /\ UNCHANGED pipeline

\* (mutant) the nodes that were dropped are left to the filter.
RepeatsOnly(dropped) ==
    {<<"duplicate_source_node", id>> : id \in Duplicates(nodes)}

\* Errors of the validation: repeated ids always, dropped nodes under hard_error.
SourceProblems(dropped) ==
    {<<"duplicate_source_node", id>> : id \in Duplicates(nodes)}
        \cup (IF config.validation = "hard_error"
              THEN {<<"unanchored", id>> : id \in DOMAIN dropped} ELSE {})

\* read_target_ids, a later query of the same table, and the anchoring.
ReadMembership ==
    /\ phase = "membership"
    /\ LET members == Ids(cache[decision.dataset].rows)
           dropped == Dropped(ParentById(nodes), members)
       IN /\ validated' = [none |-> FALSE, members |-> members, dropped |-> dropped]
          /\ problems' = problems \cup SourceProblems(dropped)
    /\ phase' = "conclude"
    /\ UNCHANGED <<decision, meta, hierarchy, nodes, artifacts>>
    /\ UNCHANGED world /\ UNCHANGED pipeline

\* Errors end the command.  Without errors, a target that is not ready leaves no
\* artifacts, not even the validation of the source.
Conclude ==
    /\ phase = "conclude"
    /\ artifacts' = IF problems # {} \/ hierarchy = << >> THEN None
                    ELSE [none |-> FALSE, revision |-> meta,
                          snapshot |-> BuildSnapshot(hierarchy)]
    /\ phase' = IF problems # {} THEN "failed" ELSE "wiring"
    /\ UNCHANGED <<decision, meta, hierarchy, nodes, validated, problems>>
    /\ UNCHANGED world /\ UNCHANGED pipeline

-----------------------------------------------------------------------------
(* pipeline_topology_scope and the wiring of the stages                    *)

\* (mutant) the requirements are looked at, not the provider.
Required == decision.kind = "active"

\* What both builders of dependencies require before they look at the snapshot.
Available == decision.kind = "active" /\ artifacts # None

HasMatchStage(c) == c.command \in MatchActivating \cup ResolveActivating
HasResolveStage(c) == c.command \in ResolveActivating

\* A policy that is on, of a dataset that has the capability, must find the
\* snapshot, whichever command the stage is built for.
MatchNeeds(c) == HasMatchStage(c) /\ c.capability /\ c.match # "off"
LinkNeeds(c) == HasResolveStage(c) /\ c.link # "off"

\* The match stage compares paths only where the source names path columns.
Wire ==
    /\ phase = "wiring"
    /\ LET broken == (MatchNeeds(config) \/ LinkNeeds(config)) /\ ~ Available
           service == [none |-> FALSE, dataset |-> decision.dataset]
       IN IF broken
          THEN phase' = "failed" /\ UNCHANGED <<services, reading>>
          ELSE /\ services' =
                    [match |-> IF MatchNeeds(config) /\ config.validation = "none"
                               THEN service ELSE None,
                     link |-> IF LinkNeeds(config) THEN service ELSE None]
               /\ reading' = file
               /\ phase' = "rows"
    /\ UNCHANGED <<decision, meta, hierarchy, nodes, validated, problems,
                   artifacts, passed>>
    /\ UNCHANGED world

-----------------------------------------------------------------------------
(* SourceTopologyFilterStage                                               *)

\* The validation names the ids of the file, the filter looks for the mapped one.
MappedId(row) == config.mapped[row.id]

\* (mutant) only the verdict of a missing parent stops a row.
OnlyMissing(row) ==
    /\ artifacts # None /\ validated # None
    /\ MappedId(row) \in DOMAIN validated.dropped
    /\ validated.dropped[MappedId(row)] = "missing_parent"

\* The row has a verdict of the validation the run goes on with.
HasVerdict(row) ==
    /\ artifacts # None /\ validated # None
    /\ MappedId(row) \in DOMAIN validated.dropped

FilterRow ==
    /\ phase = "rows" /\ reading # << >>
    /\ LET row == Head(reading)
       IN passed' = IF HasVerdict(row) /\ config.validation # "warn"
                    THEN passed
                    ELSE passed \cup {[row |-> row, warned |-> HasVerdict(row)]}
    /\ reading' = Tail(reading)
    /\ UNCHANGED <<phase, decision, meta, hierarchy, nodes, validated, problems,
                   artifacts, services>>
    /\ UNCHANGED world

\* The source is exhausted.
Exhausted == reading = << >>

Finish ==
    /\ phase = "rows" /\ Exhausted
    /\ phase' = "done"
    /\ UNCHANGED <<decision, meta, hierarchy, nodes, validated, problems, artifacts>>
    /\ UNCHANGED world /\ UNCHANGED pipeline

-----------------------------------------------------------------------------
(* Other processes                                                         *)

run == <<config, phase, decision, meta, hierarchy, nodes, validated, problems,
         artifacts, services, reading, passed>>

\* A refresh of the cache commits.
Refresh(dataset) ==
    /\ phase \notin {"done", "failed"} /\ refreshes < MaxRefreshes
    /\ \E rows \in TargetContents :
          cache' = [cache EXCEPT ![dataset] =
                        [rows |-> rows, revision |-> @.revision + 1]]
    /\ refreshes' = refreshes + 1
    /\ UNCHANGED run /\ UNCHANGED <<file, edits>>

\* The file of the source is replaced.
Edit ==
    /\ phase \notin {"done", "failed"} /\ edits < MaxEdits
    /\ file' \in SourceFiles
    /\ edits' = edits + 1
    /\ UNCHANGED run /\ UNCHANGED <<cache, refreshes>>

Step == \/ Decide \/ ReadMetadata \/ ReadHierarchy \/ ReadSource \/ ReadMembership
        \/ Conclude \/ Wire \/ FilterRow \/ Finish

Next == Step \/ Edit \/ \E dataset \in Datasets : Refresh(dataset)

Spec == Init /\ [][Next]_vars

-----------------------------------------------------------------------------
(* Properties                                                              *)

Flowing == phase \in {"rows", "done"}

\* The state has the types of the bootstrap's records.  (TopologyRunArtifacts,
\* SourceTopologyValidationState.)
TypeOK ==
    /\ config \in Configs /\ file \in SourceFiles
    /\ phase \in {"start", "metadata", "hierarchy", "source", "membership",
                  "conclude", "wiring", "rows", "done", "failed"}
    /\ decision # None => decision.dataset \in Datasets
    /\ hierarchy \in TargetContents \cup {<< >>}
    /\ validated # None => DOMAIN validated.dropped \subseteq Ids(nodes)
    /\ artifacts # None =>
          /\ artifacts.revision \in 0 .. MaxRefreshes
          /\ DOMAIN artifacts.snapshot.label = DOMAIN artifacts.snapshot.parent
    /\ refreshes \in 0 .. MaxRefreshes /\ edits \in 0 .. MaxEdits

\* A row whose id, as the mapper left it, is one of a node the validation has seen
\* passes only if the target or a root reaches that node and nothing dropped stands
\* above it; if the file is still the one that was read, all other rows pass.
\* (anchor_source_nodes, SourceTopologyFilterStage.run.)
FilterIsExact ==
    (validated # None /\ config.validation # "warn") =>
        LET grounded == Grounded(ParentById(nodes), validated.members)
            Kept(row) == MappedId(row) \in Ids(nodes) => MappedId(row) \in grounded
        IN /\ \A p \in passed : Kept(p.row)
           /\ (phase = "done" /\ edits = 0) =>
                 \A row \in ToSet(file) : Kept(row) => row \in {p.row : p \in passed}

\* No consumer is wired without the hierarchy of a bootstrap that was asked for and
\* went well, and under hard_error no row flows without it: a decision made twice,
\* by the bootstrap and by the builders of the stages, never leaves a consumer with
\* an empty snapshot.  (TopologyBootstrapStep.run, _build_match_topology_dependencies,
\* _build_resolve_topology_dependencies.)
RowsHaveTheirSnapshot ==
    Flowing =>
        /\ decision.hard => artifacts # None
        /\ (services.match # None \/ services.link # None) =>
              /\ decision.kind = "active" /\ artifacts # None
              /\ Nodes(artifacts.snapshot) = Ids(hierarchy)

\* Under hard_error either every node of the source is anchored and unique, or no
\* row flows.  (SourceTopologyValidationUseCase.validate.)
HardValidationIsAllOrNothing ==
    (Flowing /\ validated # None /\ config.validation = "hard_error") =>
        /\ Ids(nodes) = Grounded(ParentById(nodes), validated.members)
        /\ Len(nodes) = Cardinality(Ids(nodes))

\* Every consumer of a command that activates it works on the hierarchy of the
\* dataset its candidates come from.  (TopologyRequirementResolver.resolve: one
\* topology dataset per run.)
ConsumersAgree ==
    /\ services.link # None => services.link.dataset = config.linkTo
    /\ (services.match # None /\ MatchWanted(config)) => services.match.dataset = Own
    /\ validated # None => decision.dataset = Own
=============================================================================
