------------------------------ MODULE Settings ------------------------------
(***************************************************************************)
(* How a command comes by its settings: a YAML file, the environment and   *)
(* the options of the command line, each over the one before, and the      *)
(* defaults for what none of them gives.  A tree of settings is a function *)
(* from the paths of its leaves to their values; a path is the sequence of *)
(* the keys that lead to it.  A null, or a section of the file without a   *)
(* leaf, sets nothing and is not in its tree.                              *)
(***************************************************************************)
EXTENDS Naturals, Sequences, FiniteSets, SequencesExt

CONSTANTS
  Fields,          \* the paths of the fields of AppConfig
  Valid(_, _),     \* whether a field takes a value
  Default(_),      \* the value of a field no source gives
  DeniedSections,  \* sections the environment may not set
  DeniedFields,    \* nor these fields
  Unset            \* an empty variable, an option that is not given

\* One path cannot be a leaf and the other lead to one.
Clash(p, q) == p # q /\ (IsPrefix(p, q) \/ IsPrefix(q, p))

\* A leaf takes the place of the section, or of the leaf on its way, that was there.
Put(tree, path, value) ==
    [p \in {q \in DOMAIN tree : ~ Clash(path, q)} \cup {path} |->
        IF p = path THEN value ELSE tree[p]]

\* _dotted_to_nested: entries without a value are skipped.
ToTree(entries) ==
    FoldLeft(LAMBDA tree, e : IF e.value = Unset THEN tree ELSE Put(tree, e.path, e.value),
             <<>>, entries)

FromOptions(options) == ToTree(options)

\* _collect_env_overrides: only variables with a section and a field, none of those that
\* must come from the file or the command line.
MayOverride(path) ==
    /\ Len(path) > 1
    /\ path[1] \notin DeniedSections
    /\ path \notin DeniedFields

FromEnvironment(variables) ==
    ToTree(SelectSeq(variables, LAMBDA e : MayOverride(e.path)))

\* _deep_merge: the trace keeps what it had of leaves that a section displaced.
Over(read, tree, source) ==
    [values |-> [p \in {q \in DOMAIN read.values : \A t \in DOMAIN tree : ~ Clash(q, t)}
                          \cup DOMAIN tree |->
                    IF p \in DOMAIN tree THEN tree[p] ELSE read.values[p]],
     trace  |-> [p \in DOMAIN read.trace \cup DOMAIN tree |->
                    IF p \in DOMAIN tree THEN source ELSE read.trace[p]]]

Merged(file, variables, options) ==
    LET nothing == [values |-> <<>>, trace |-> <<>>]
    IN  Over(Over(Over(nothing, file, "config"),
                  FromEnvironment(variables), "env"),
             FromOptions(options), "cli")

\* load_app_config: AppConfig refuses unknown keys and values out of range.
Loads(read) == \A p \in DOMAIN read.values : p \in Fields /\ Valid(p, read.values[p])

Loaded(read) ==
    [values |-> [p \in Fields |-> IF p \in DOMAIN read.values THEN read.values[p]
                                  ELSE Default(p)],
     trace  |-> [p \in Fields \cup DOMAIN read.trace |->
                    IF p \in DOMAIN read.trace THEN read.trace[p] ELSE "default"]]
=============================================================================
