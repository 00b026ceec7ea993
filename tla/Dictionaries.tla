---------------------------- MODULE Dictionaries ----------------------------
(***************************************************************************)
(* The dictionaries that enrichment looks values up in.  Registry, specs   *)
(* and manifest are compiled when the container of a command starts; the   *)
(* data of a dictionary is a CSV file, read then (eager) or when the       *)
(* dictionary is first asked for (lazy), and kept for the run.             *)
(*                                                                         *)
(* A spec has the columns of the key and of the values, those that may be  *)
(* null, the normalization of keys as a function (Fails where an operation *)
(* raises) and whether keys may repeat.  A manifest entry pins the schema  *)
(* of the spec and the content of the file, which stands for its digest.   *)
(* A file is a sequence of rows, Fails if it cannot be read or parsed.     *)
(***************************************************************************)
EXTENDS Naturals, Sequences, SequencesExt

CONSTANTS Nil, Fails

\* build_dictionary_schema_hash: what the digest of a schema covers.
Schema(spec) ==
    [key |-> spec.key, values |-> spec.values, nullable |-> spec.nullable,
     normal |-> spec.normal, repeats |-> spec.repeats]

\* build_dictionary_dsl_runtime: the entry is there and is of this spec.
Compiles(specs, manifest) ==
    \A d \in DOMAIN specs : d \in DOMAIN manifest /\ manifest[d].schema = Schema(specs[d])

NormalKey(spec, v) == IF v \in DOMAIN spec.normal THEN spec.normal[v] ELSE v

\* Every row has the columns, and null only where it may be.
FitsSchema(spec, file) ==
    \A i \in DOMAIN file :
        /\ {spec.key} \cup spec.values \subseteq DOMAIN file[i]
        /\ \A column \in {spec.key} \cup (spec.values \ spec.nullable) :
              file[i][column] # Nil

KeysIndexed(spec, file) ==
    /\ \A i \in DOMAIN file : NormalKey(spec, file[i][spec.key]) # Fails
    /\ \A i, j \in DOMAIN file :
          i # j => \/ spec.repeats
                   \/ NormalKey(spec, file[i][spec.key]) # NormalKey(spec, file[j][spec.key])

\* (mutant) the digest of the file is not compared with the manifest's.
LoadUnpinned(spec, entry, file) ==
    IF file # Fails /\ FitsSchema(spec, file) /\ KeysIndexed(spec, file)
    THEN file ELSE Fails

\* load_dictionary_into: the rows, Fails where it raises.
Load(spec, entry, file) ==
    IF /\ file # Fails
       /\ file = entry.content /\ Len(file) = entry.rows
       /\ FitsSchema(spec, file) /\ KeysIndexed(spec, file)
    THEN file ELSE Fails

\* The rows with the numbers in I, in their order.
RowsAt(rows, I) ==
    LET kept[k \in 0 .. Len(rows)] ==
            IF k = 0 THEN << >>
            ELSE IF k \in I THEN Append(kept[k - 1], rows[k]) ELSE kept[k - 1]
    IN kept[Len(rows)]

\* The index of the keys: the rows whose key is, normalized, the one asked for.
Hits(spec, rows, v) ==
    RowsAt(rows, {i \in DOMAIN rows : NormalKey(spec, rows[i][spec.key]) = NormalKey(spec, v)})

AtMost(limit, hits) ==
    SubSeq(hits, 1, IF limit = 0 \/ limit > Len(hits) THEN Len(hits) ELSE limit)

\* PolarsDictionaryBackend.lookup: the rows under the key, the first ones under a
\* limit; no dictionary at all finds nothing, one that is not declared or cannot be
\* loaded raises.  (available: the rows by name, specs: the specs by name.)
RowsUnder(specs, available, name, v, limit) ==
    IF DOMAIN specs = {} THEN << >>
    ELSE IF name \notin DOMAIN specs THEN Fails
    ELSE IF available[name] = Fails \/ NormalKey(specs[name], v) = Fails THEN Fails
    ELSE AtMost(limit, Hits(specs[name], available[name], v))
=============================================================================
