---------------------------- MODULE MCTopologyRun ----------------------------
(* Instances of TopologyRun for TLC.                                         *)
EXTENDS TopologyRun, TLC

CONSTANTS a, b, c, x, gone

Row(id, parent) == [id |-> id, parent |-> parent, label |-> id]

\* An empty hierarchy, a tree that holds a parent of the source, a larger one, a
\* cycle, a parent nobody knows.
SomeHierarchies ==
    {<< >>,
     <<Row(x, NoParent)>>,
     <<Row(x, NoParent), Row(b, x)>>,
     <<Row(x, b), Row(b, x)>>,
     <<Row(x, gone)>>}

\* A chain under the target, a cycle with a node below it that the target knows,
\* a subtree of a missing parent, a repeated id, a row that occurs twice.
SomeFiles ==
    {<<Row(a, x), Row(b, a), Row(c, b)>>,
     <<Row(a, c), Row(b, a), Row(c, b)>>,
     <<Row(a, gone), Row(b, a), Row(c, b)>>,
     <<Row(a, NoParent), Row(b, NoParent), Row(a, b)>>,
     <<Row(a, NoParent), Row(a, NoParent), Row(b, a)>>}

Policies(command, match, link, linkTo, validation) ==
    [command |-> command, capability |-> TRUE, match |-> match, link |-> link,
     linkTo |-> linkTo, linkCapability |-> TRUE, validation |-> validation,
     cached |-> {Own, Other}, mapped |-> [id \in {a, b, c} |-> id]]

\* A mapper that gives two rows the id of one and leaves another without.
Renames == [id \in {a, b, c} |-> IF id = c THEN NoParent ELSE b]

SomeConfigs ==
    {Policies("cache-refresh", "skip", "off", Own, "none"),
     Policies("enrich", "skip", "off", Own, "skip"),
     Policies("match", "skip", "off", Own, "none"),
     Policies("match", "hard_error", "off", Own, "skip"),
     Policies("resolve", "skip", "off", Own, "none"),
     Policies("resolve", "skip", "pending", Other, "none"),
     Policies("resolve", "off", "hard_error", Own, "warn"),
     Policies("import-plan", "hard_error", "skip", Other, "none"),
     Policies("import-plan", "skip", "pending", Own, "skip"),
     Policies("import-plan", "off", "off", Own, "skip"),
     [Policies("import-plan", "off", "off", Own, "skip") EXCEPT !.mapped = Renames],
     Policies("import-plan", "off", "off", Own, "hard_error"),
     Policies("import-plan", "off", "pending", Other, "skip"),
     [Policies("import-plan", "skip", "off", Own, "none") EXCEPT !.capability = FALSE],
     [Policies("import-plan", "off", "skip", Other, "none") EXCEPT !.linkCapability = FALSE],
     [Policies("import-plan", "hard_error", "off", Own, "none") EXCEPT !.cached = {}]}

\* The algorithms and their references, over every parent function of three nodes.
ASSUME AlgorithmsAgree ==
    \A parent \in [{a, b, c} -> {a, b, c, x, gone, NoParent}] :
        /\ DOMAIN Dropped(parent, {x, b})
              = {a, b, c} \ Grounded(parent, {x, b})
        /\ HasCycle(parent) <=>
              ~ IsForest([n \in {a, b, c} |->
                    IF parent[n] \in {a, b, c} THEN parent[n] ELSE NoParent])
=============================================================================
