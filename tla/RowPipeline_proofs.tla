------------------------- MODULE RowPipeline_proofs -------------------------
(***************************************************************************)
(* What is proved of a planning run, for every dataset, source, cache      *)
(* history and batch size.                                                 *)
(***************************************************************************)
EXTENDS RowPipeline, FiniteSetTheorems, NaturalsInduction, WellFoundedInduction, TLAPS

-----------------------------------------------------------------------------
(* Sequences, of whatever is in them                                       *)

IsSeq(s) == s \in Seq({s[i] : i \in DOMAIN s})

\* A sequence over any set is one over what is in it.
LEMMA OwnRange == ASSUME NEW S, NEW s \in Seq(S) PROVE IsSeq(s)
<1>1. Len(s) \in Nat /\ DOMAIN s = 1 .. Len(s) /\ s \in [1 .. Len(s) -> {s[i] : i \in DOMAIN s}]
  OBVIOUS
<1>2. QED BY <1>1, SMTT(60) DEF IsSeq

\* The length and the places of a sequence.
LEMMA SeqIs == ASSUME NEW s, IsSeq(s)
               PROVE  Len(s) \in Nat /\ DOMAIN s = 1 .. Len(s)
BY DEF IsSeq

\* What Append makes of a sequence.  (A generator that yields one more row.)
LEMMA AppendIs ==
  ASSUME NEW s, NEW e, IsSeq(s)
  PROVE  /\ IsSeq(Append(s, e)) /\ Len(Append(s, e)) = Len(s) + 1
         /\ \A i \in 1 .. Len(s) : Append(s, e)[i] = s[i]
         /\ Append(s, e)[Len(s) + 1] = e
<1> DEFINE S == {s[i] : i \in DOMAIN s} \cup {e}
<1>1. s \in Seq(S) /\ e \in S
  <2>1. Len(s) \in Nat /\ DOMAIN s = 1 .. Len(s) /\ s \in [1 .. Len(s) -> S]
    BY DEF IsSeq
  <2>2. QED BY <2>1
<1> HIDE DEF S
<1>2. Append(s, e) \in Seq(S)
  BY <1>1
<1>3. IsSeq(Append(s, e))
  BY <1>2, OwnRange
<1>4. QED BY <1>1, <1>3

\* What Head and Tail make of a sequence.
LEMMA TailIs ==
  ASSUME NEW s, IsSeq(s), s # << >>
  PROVE  /\ Len(s) \in Nat \ {0} /\ Head(s) = s[1]
         /\ IsSeq(Tail(s)) /\ Len(Tail(s)) = Len(s) - 1
         /\ \A i \in 1 .. Len(s) - 1 : Tail(s)[i] = s[i + 1]
<1> DEFINE S == {s[i] : i \in DOMAIN s}
<1>1. s \in Seq(S)
  BY DEF IsSeq
<1> HIDE DEF S
<1>2. Tail(s) \in Seq(S) /\ Len(s) \in Nat \ {0}
  BY <1>1
<1>3. IsSeq(Tail(s))
  BY <1>2, OwnRange
<1>4. QED BY <1>1, <1>2, <1>3

\* The empty sequence, the sequence of one thing, and when a sequence is empty.
LEMMA ShortSeqs ==
  /\ IsSeq(<< >>) /\ Len(<< >>) = 0
  /\ \A e : IsSeq(<<e>>) /\ Len(<<e>>) = 1 /\ <<e>>[1] = e
  /\ \A s : IsSeq(s) => (s = << >> <=> Len(s) = 0)
BY DEF IsSeq

\* A stretch of a sequence.  (iter_micro_batches cuts the rows into such stretches.)
LEMMA StretchIs ==
  ASSUME NEW s, IsSeq(s), NEW m \in Nat, NEW n \in Nat, m + n <= Len(s)
  PROVE  /\ IsSeq(SubSeq(s, m + 1, m + n)) /\ Len(SubSeq(s, m + 1, m + n)) = n
         /\ \A i \in 1 .. n : SubSeq(s, m + 1, m + n)[i] = s[m + i]
<1> DEFINE S == {s[i] : i \in DOMAIN s}
<1>1. s \in Seq(S)
  BY DEF IsSeq
<1> HIDE DEF S
<1>2. SubSeq(s, m + 1, m + n) \in Seq(S)
  BY <1>1
<1>3. IsSeq(SubSeq(s, m + 1, m + n))
  BY <1>2, OwnRange
<1>4. QED BY <1>1, <1>3

\* One sequence after another.
LEMMA ConcatIs ==
  ASSUME NEW s, NEW t, IsSeq(s), IsSeq(t)
  PROVE  /\ IsSeq(s \o t) /\ Len(s \o t) = Len(s) + Len(t)
         /\ \A i \in 1 .. Len(s) + Len(t) :
               (s \o t)[i] = IF i <= Len(s) THEN s[i] ELSE t[i - Len(s)]
<1> DEFINE S == {s[i] : i \in DOMAIN s} \cup {t[i] : i \in DOMAIN t}
<1>1. s \in Seq(S) /\ t \in Seq(S)
  <2>1. Len(s) \in Nat /\ DOMAIN s = 1 .. Len(s) /\ s \in [1 .. Len(s) -> S]
    BY DEF IsSeq
  <2>2. Len(t) \in Nat /\ DOMAIN t = 1 .. Len(t) /\ t \in [1 .. Len(t) -> S]
    BY DEF IsSeq
  <2>3. QED BY <2>1, <2>2
<1> HIDE DEF S
<1>2. (s \o t) \in Seq(S)
  BY <1>1
<1>3. IsSeq(s \o t)
  BY <1>2, OwnRange
<1>4. QED BY <1>1, <1>3

-----------------------------------------------------------------------------
(* Induction                                                               *)

\* A set of numbers that has 0 and every successor has all of them.
LEMMA AllNumbers ==
  ASSUME NEW P \in SUBSET Nat, 0 \in P, \A k \in P : k + 1 \in P
  PROVE  P = Nat
<1>1. SUFFICES ASSUME Nat \ P # {} PROVE FALSE
  OBVIOUS
<1>2. PICK k \in Nat \ P : \A j \in Nat \ P : ~ (<<j, k>> \in OpToRel(<, Nat))
  BY <1>1, WFMin, NatLessThanWellFounded
<1>3. k - 1 \in Nat /\ k - 1 < k
  OBVIOUS
<1>4. <<k - 1, k>> \in OpToRel(<, Nat)
  BY <1>3 DEF OpToRel
<1>5. k - 1 \in P
  BY <1>2, <1>3, <1>4
<1>6. QED BY <1>3, <1>5

-----------------------------------------------------------------------------
(* What the stages make of a row                                           *)

IsResult(r) ==
    DOMAIN r = {"row", "errors", "warnings", "line", "key", "secrets", "secretFields",
                "asked"}

\* A stage that rewrites the row of a result and reports on it, or sets secrets aside.
Worked(s, r) ==
    /\ IsResult(s) /\ s.line = r.line /\ s.key = r.key /\ s.secretFields = r.secretFields
Rewritten(s, r) == Worked(s, r) /\ s.secrets = r.secrets

\* append_dsl_issue adds to the errors or to the warnings of a result.
LEMMA ReportRewrites ==
  ASSUME NEW r, NEW issues, NEW onError, IsResult(r)
  PROVE  Rewritten(Report(r, issues, onError), r) /\ Report(r, issues, onError).row = r.row
BY DEF Report, IsResult, Rewritten, Worked

\* TransformResultBuilder: a row with errors is no row.
LEMMA JudgeRewrites == ASSUME NEW r, IsResult(r) PROVE Rewritten(Judge(r), r)
BY DEF Judge, IsResult, Rewritten, Worked

\* SourceTopologyFilterStage drops a row or reports on it.
LEMMA FilterRewrites ==
  ASSUME NEW c, NEW r, IsResult(r)
  PROVE  Rewritten(Filter(c, r), r)
<1> DEFINE s == [r EXCEPT !.row = Nil]
           found == {<<"TOPOLOGY_SOURCE_UNANCHORED", c.nodeField>>}
<1>1. IsResult(s) /\ Rewritten(s, r)
  BY DEF IsResult, Rewritten, Worked
<1>2. Rewritten(r, r)
  BY DEF Rewritten, Worked
<1>3. Filter(c, r) \in {r, Report(r, found, "warn"), Report(s, found, "error")}
  BY DEF Filter
<1> HIDE DEF s, found
<1>4. Rewritten(Report(r, found, "warn"), r)
  BY ReportRewrites
<1>5. Rewritten(Report(s, found, "error"), r)
  <2>1. Rewritten(Report(s, found, "error"), s)
    BY <1>1, ReportRewrites
  <2>2. QED BY <1>1, <2>1 DEF Rewritten, Worked
<1>6. QED BY <1>2, <1>3, <1>4, <1>5

\* A rule of the normalizer, with operations or without.
LEMMA NormalizeByRewrites ==
  ASSUME NEW r, NEW rule, IsResult(r)
  PROVE  Rewritten(NormalizeBy(r, rule), r)
<1> DEFINE v == ApplyOps(Field(r.row, rule.field), rule.ops)
           s == [r EXCEPT !.row = Put(@, rule.field, v.value)]
           issues == IF v.failed THEN {<<"DSL_OP_FAILED", rule.field>>} ELSE {}
<1>1. IsResult(s) /\ Rewritten(s, r)
  BY DEF IsResult, Rewritten, Worked
<1>2. NormalizeBy(r, rule) = IF rule.ops = << >> THEN r ELSE Report(s, issues, rule.onError)
  BY DEF NormalizeBy, NormalizeValue
<1> HIDE DEF s, issues
<1>3. Rewritten(Report(s, issues, rule.onError), s)
  BY <1>1, ReportRewrites
<1>4. Rewritten(r, r)
  BY DEF Rewritten, Worked
<1>5. QED BY <1>1, <1>2, <1>3, <1>4 DEF Rewritten, Worked

\* A result that is reported on under a policy.
LEMMA ByPolicyRewrites ==
  ASSUME NEW r, NEW rule, NEW outcome, NEW code, IsResult(r)
  PROVE  Rewritten(ByPolicy(r, rule, outcome, code), r)
BY DEF ByPolicy, IsResult, Rewritten, Worked

\* A candidate is taken over into the row or the secrets, or refused.
LEMMA ApplyWorks ==
  ASSUME NEW r, NEW rule, NEW c, NEW v, IsResult(r)
  PROVE  Worked(Apply(r, rule, c, v), r)
<1>1. Worked(r, r)
  BY DEF Rewritten, Worked
<1>2. Worked([r EXCEPT !.secrets = Put(@, rule.target, v)], r)
  BY DEF IsResult, Rewritten, Worked
<1>3. Worked([r EXCEPT !.row = Put(@, rule.target, v)], r)
  BY DEF IsResult, Rewritten, Worked
<1>4. QED BY <1>1, <1>2, <1>3, ByPolicyRewrites DEF Apply, Rewritten

\* An operation of the enricher keeps line and key and marks no secret.
LEMMA ExecuteWorks ==
  ASSUME NEW r, NEW rule, NEW c, NEW t, IsResult(r)
  PROVE  Worked(Execute(r, rule, c, t), r)
<1>1. Worked(r, r)
  BY DEF Rewritten, Worked
<1>2. IsResult(Ask(r, rule)) /\ Worked(Ask(r, rule), r)
  BY DEF Ask, IsResult, Rewritten, Worked
<1>3. ASSUME NEW candidates PROVE Worked(Weigh(Ask(r, rule), rule, c, candidates), r)
  <2>1. Worked(Weigh(Ask(r, rule), rule, c, candidates), Ask(r, rule))
    BY <1>2, ByPolicyRewrites, ApplyWorks DEF Weigh, Rewritten
  <2>2. QED BY <1>2, <2>1 DEF Rewritten, Worked
<1>4. QED BY <1>1, <1>3 DEF Execute

\* The rules of the normalizer, one after the other.
LEMMA NormalizeByAllRewrites ==
  ASSUME NEW c, Len(c.normalize) \in Nat, NEW r, IsResult(r)
  PROVE  Rewritten(NormalizeByAll(c, r), r)
<1> DEFINE N == Len(c.normalize)
           next(s, k) == NormalizeBy(s, c.normalize[k])
           IsDone(f, m) == f = [k \in 0 .. m |-> IF k = 0 THEN r ELSE next(f[k - 1], k)]
<1>0. Rewritten(r, r) /\ \A s, k : Rewritten(s, r) => Rewritten(next(s, k), r)
  BY NormalizeByRewrites DEF Rewritten, Worked
<1>1. \E f : IsDone(f, N) /\ NormalizeByAll(c, r) = f[N]
  <2> DEFINE done[k \in 0 .. N] == IF k = 0 THEN r ELSE next(done[k - 1], k)
  <2>1. NormalizeByAll(c, r) = done[N]
    BY DEF NormalizeByAll
  <2> HIDE DEF next
  <2>2. \A m \in Nat : \E f : IsDone(f, m)
    <3> DEFINE P == {m \in Nat : \E f : IsDone(f, m)}
    <3>1. 0 \in P
      <4>1. IsDone([k \in 0 .. 0 |-> r], 0)
        OBVIOUS
      <4>2. QED BY <4>1
    <3>2. ASSUME NEW m \in P PROVE m + 1 \in P
      <4>1. PICK f : IsDone(f, m)
        OBVIOUS
      <4> DEFINE g == [k \in 0 .. m + 1 |-> IF k <= m THEN f[k] ELSE next(f[m], m + 1)]
      <4>2. ASSUME NEW k \in 0 .. m + 1
            PROVE  g[k] = IF k = 0 THEN r ELSE next(g[k - 1], k)
        <5>1. CASE k <= m
          BY <4>1, <5>1
        <5>2. CASE k = m + 1
          BY <5>2
        <5>3. QED BY <5>1, <5>2
      <4>3. IsDone(g, m + 1)
        BY <4>2
      <4>4. m + 1 \in Nat
        OBVIOUS
      <4> HIDE DEF g, IsDone
      <4>5. QED BY <4>3, <4>4
    <3>3. P \in SUBSET Nat
      OBVIOUS
    <3> HIDE DEF P
    <3>4. P = Nat
      BY <3>1, <3>2, <3>3, AllNumbers
    <3>5. QED BY <3>4 DEF P
  <2>3. IsDone(done, N)
    BY <2>2
  <2> HIDE DEF done, IsDone
  <2>4. QED BY <2>1, <2>3
<1>2. PICK f : IsDone(f, N) /\ NormalizeByAll(c, r) = f[N]
  BY <1>1
<1> HIDE DEF next
<1> DEFINE P == {k \in Nat : k <= N => Rewritten(f[k], r)}
<1>3. 0 \in P
  BY <1>0, <1>2
<1>4. ASSUME NEW k \in P PROVE k + 1 \in P
  BY <1>0, <1>2
<1>5. P \in SUBSET Nat
  OBVIOUS
<1> HIDE DEF P
<1>6. P = Nat
  BY <1>3, <1>4, <1>5, AllNumbers
<1>7. N \in P
  BY <1>6
<1>8. QED BY <1>2, <1>7 DEF P

\* The operations of the enricher run one after the other.
LEMMA ExecuteAllSteps ==
  ASSUME NEW c, Len(c.enrich) \in Nat, NEW t, NEW r
  PROVE  \E f : /\ ExecuteAll(c, r, t) = f[Len(c.enrich)] /\ f[0] = r
                /\ \A k \in 1 .. Len(c.enrich) : f[k] = Execute(f[k - 1], c.enrich[k], c, t)
<1> DEFINE N == Len(c.enrich)
           next(s, k) == Execute(s, c.enrich[k], c, t)
           IsDone(f, m) == f = [k \in 0 .. m |-> IF k = 0 THEN r ELSE next(f[k - 1], k)]
<1>1. \E f : IsDone(f, N) /\ ExecuteAll(c, r, t) = f[N]
  <2> DEFINE done[k \in 0 .. N] == IF k = 0 THEN r ELSE next(done[k - 1], k)
  <2>1. ExecuteAll(c, r, t) = done[N]
    BY DEF ExecuteAll
  <2> HIDE DEF next
  <2>2. \A m \in Nat : \E f : IsDone(f, m)
    <3> DEFINE P == {m \in Nat : \E f : IsDone(f, m)}
    <3>1. 0 \in P
      <4>1. IsDone([k \in 0 .. 0 |-> r], 0)
        OBVIOUS
      <4>2. QED BY <4>1
    <3>2. ASSUME NEW m \in P PROVE m + 1 \in P
      <4>1. PICK f : IsDone(f, m)
        OBVIOUS
      <4> DEFINE g == [k \in 0 .. m + 1 |-> IF k <= m THEN f[k] ELSE next(f[m], m + 1)]
      <4>2. ASSUME NEW k \in 0 .. m + 1
            PROVE  g[k] = IF k = 0 THEN r ELSE next(g[k - 1], k)
        <5>1. CASE k <= m
          BY <4>1, <5>1
        <5>2. CASE k = m + 1
          BY <5>2
        <5>3. QED BY <5>1, <5>2
      <4>3. IsDone(g, m + 1)
        BY <4>2, SMTT(60)
      <4>4. m + 1 \in Nat
        OBVIOUS
      <4> HIDE DEF g, IsDone
      <4>5. QED BY <4>3, <4>4
    <3>3. P \in SUBSET Nat
      OBVIOUS
    <3> HIDE DEF P
    <3>4. P = Nat
      BY <3>1, <3>2, <3>3, AllNumbers
    <3>5. QED BY <3>4 DEF P
  <2>3. IsDone(done, N)
    BY <2>2
  <2> HIDE DEF done, IsDone
  <2>4. QED BY <2>1, <2>3
<1>2. PICK f : IsDone(f, N) /\ ExecuteAll(c, r, t) = f[N]
  BY <1>1
<1> HIDE DEF next
<1>3. f[0] = r /\ \A k \in 1 .. N : f[k] = next(f[k - 1], k)
  BY <1>2
<1>4. QED BY <1>2, <1>3 DEF next

LEMMA ExecuteAllWorks ==
  ASSUME NEW c, Len(c.enrich) \in Nat, NEW t, NEW r, IsResult(r)
  PROVE  Worked(ExecuteAll(c, r, t), r)
<1> DEFINE N == Len(c.enrich)
<1>1. PICK f : /\ ExecuteAll(c, r, t) = f[N] /\ f[0] = r
               /\ \A k \in 1 .. N : f[k] = Execute(f[k - 1], c.enrich[k], c, t)
  BY ExecuteAllSteps
<1> DEFINE P == {k \in Nat : k <= N => Worked(f[k], r)}
<1>2. 0 \in P
  BY <1>1 DEF Worked
<1>3. ASSUME NEW k \in P PROVE k + 1 \in P
  <2>1. k + 1 <= N => f[k + 1] = Execute(f[k], c.enrich[k + 1], c, t)
    BY <1>1
  <2>2. k <= N => Worked(Execute(f[k], c.enrich[k + 1], c, t), r)
    BY ExecuteWorks DEF Worked
  <2>3. QED BY <2>1, <2>2
<1>4. P \in SUBSET Nat
  OBVIOUS
<1> HIDE DEF P
<1>5. P = Nat
  BY <1>2, <1>3, <1>4, AllNumbers
<1>6. N \in P
  BY <1>5
<1>7. QED BY <1>1, <1>6 DEF P

\* _build_match_key_operation sets the key or reports that it cannot.
LEMMA BuildKeyKeeps ==
  ASSUME NEW c, NEW r, IsResult(r)
  PROVE  /\ IsResult(BuildKey(c, r)) /\ BuildKey(c, r).line = r.line
         /\ BuildKey(c, r).secretFields = r.secretFields
BY DEF BuildKey, IsResult

\* What reaches the enricher has the line it was read from and no secret.  (MapStage,
\* SourceTopologyFilterStage, NormalizeStage.)
LEMMA PreparedIs ==
  ASSUME NEW c, NEW record, NEW line, Len(c.normalize) \in Nat
  PROVE  LET n == Prepared(c, record, line)
         IN IsResult(n) /\ n.line = line /\ n.secretFields = {} /\ n.secrets = << >>
<1> DEFINE m == Mapped(c, record, line)
           f == Filter(c, m)
           n == Normalize(c, f)
<1>1. IsResult(m) /\ m.line = line /\ m.secretFields = {} /\ m.secrets = << >>
  BY DEF Mapped, IsResult
<1> HIDE DEF m
<1>2. IsResult(f) /\ Rewritten(f, m)
  BY <1>1, FilterRewrites DEF Rewritten, Worked
<1> HIDE DEF f
<1>3. IsResult(n) /\ Rewritten(n, f)
  <2> DEFINE all == NormalizeByAll(c, f)
  <2>1. n = f \/ n = Judge(CheckSink(c, all))
    BY DEF Normalize
  <2>2. Rewritten(all, f)
    BY <1>2, NormalizeByAllRewrites
  <2> HIDE DEF all
  <2>3. Rewritten(CheckSink(c, all), all)
    BY <2>2, ReportRewrites DEF CheckSink, Rewritten, Worked
  <2>4. Rewritten(Judge(CheckSink(c, all)), CheckSink(c, all))
    BY <2>3, JudgeRewrites DEF Rewritten, Worked
  <2>5. QED BY <1>2, <2>1, <2>2, <2>3, <2>4 DEF Rewritten, Worked
<1>4. n = Prepared(c, record, line)
  BY DEF Prepared, f, m
<1> HIDE DEF n
<1>5. QED BY <1>1, <1>2, <1>3, <1>4 DEF Rewritten, Worked

\* A row on its way to the vault has the line it was read from and marks no secret.
\* (EnrichStage.)
LEMMA EnrichedIs ==
  ASSUME NEW line, Len(conf.normalize) \in Nat, Len(conf.enrich) \in Nat
  PROVE  /\ IsResult(Enriched(line)) /\ Enriched(line).line = line
         /\ Enriched(line).secretFields = {}
<1> DEFINE n == Prepared(conf, source[line], line)
           t == [sink_cache |-> tables[View], specs |-> conf.specs, dictionaries |-> Available]
<1>1. IsResult(n) /\ n.line = line /\ n.secretFields = {}
  BY PreparedIs
<1> HIDE DEF n
<1>2. \/ Enrich(conf, n, t) = n
      \/ Enrich(conf, n, t) = ExecuteAll(conf, BuildKey(conf, n), t)
  BY DEF Enrich
<1>3. Enriched(line) = Enrich(conf, n, t)
  BY DEF Enriched, n
<1> HIDE DEF t
<1>4. Worked(ExecuteAll(conf, BuildKey(conf, n), t), BuildKey(conf, n))
  BY <1>1, BuildKeyKeeps, ExecuteAllWorks
<1>5. QED BY <1>1, <1>2, <1>3, <1>4, BuildKeyKeeps DEF Worked

\* What the vault was asked to take is marked, or the row carries an error.
\* (_store_secrets.)
LEMMA StoreSecretsMarks ==
  ASSUME NEW r, IsResult(r), r.secretFields = {}, NEW took \in BOOLEAN
  PROVE  LET s == StoreSecrets(r, took)
         IN /\ IsResult(s) /\ s.line = r.line /\ s.key = r.key
            /\ s.secretFields \subseteq DOMAIN r.secrets
            /\ \/ s.secretFields = {}
               \/ r.row # Nil /\ r.key # Nil /\ DOMAIN r.secrets # {} /\ took
               \/ s.errors # {}
BY DEF StoreSecrets, IsResult

\* MatchCore.match replaces the row of a result and may add an error.
LEMMA MatchRewrites ==
  ASSUME NEW c, NEW r, NEW cache, NEW locator, NEW tree, IsResult(r)
  PROVE  Rewritten(Match(c, r, cache, locator, tree), r)
<1>1. ASSUME NEW code PROVE Rewritten(FailMatch(r, code), r)
  BY DEF FailMatch, IsResult, Rewritten, Worked
<1>2. ASSUME NEW found, NEW desired, NEW decision
      PROVE  Rewritten(MatchedRow(c, r, found, desired, decision), r)
  <2>1. ASSUME NEW row PROVE Rewritten([r EXCEPT !.row = row], r)
    BY DEF IsResult, Rewritten, Worked
  <2>2. QED BY <1>1, <2>1 DEF MatchedRow
<1>3. QED BY <1>1, <1>2 DEF Match, MatchIdentified

\* match_with_source_dedup passes a row on or drops it, and passes it on only if its
\* identity has not been.
LEMMA DropRepeatedDrops ==
  ASSUME NEW r, NEW key, IsResult(r)
  PROVE  /\ Rewritten(DropRepeated(r, key), r)
         /\ \/ DropRepeated(r, key).row = Nil
            \/ key \notin DOMAIN seen /\ DropRepeated(r, key) = r
<1> DEFINE s == [r EXCEPT !.row = Nil]
           issues == {<<"MATCH_CONFLICT_SOURCE", "identity">>}
<1>1. IsResult(s) /\ Rewritten(s, r) /\ s.row = Nil
  BY DEF IsResult, Rewritten, Worked
<1>2. Rewritten(Report(s, issues, conf.onConflict), s)
      /\ Report(s, issues, conf.onConflict).row = Nil
  BY <1>1, ReportRewrites
<1>3. CASE key \notin DOMAIN seen
  BY <1>3 DEF DropRepeated, Rewritten, Worked
<1>4. CASE key \in DOMAIN seen /\ seen[key] = r.row.fingerprint
  BY <1>4 DEF DropRepeated, Rewritten, Worked, IsResult
<1>5. CASE key \in DOMAIN seen /\ seen[key] # r.row.fingerprint
  <2>1. DropRepeated(r, key) = Report(s, issues, conf.onConflict)
    BY <1>5 DEF DropRepeated
  <2>2. QED BY <1>1, <1>2, <2>1 DEF Rewritten, Worked
<1>6. QED BY <1>3, <1>4, <1>5

\* resolve makes no row of a result, or a row of its identity.  (ResolveCore.resolve.)
LEMMA ResolveKeepsIdentity ==
  ASSUME NEW c, NEW r, IsResult(r)
  PROVE  LET s == Resolve(c, r)
         IN /\ IsResult(s) /\ s.line = r.line
            /\ \/ s.row = Nil
               \/ /\ s.row.identity = r.row.identity
                  /\ DOMAIN s.row = {"identity", "op", "desired", "changes", "targetId",
                                     "secretFields"}
<1> DEFINE Row == {"identity", "op", "desired", "changes", "targetId", "secretFields"}
           Good(s) == /\ IsResult(s) /\ s.line = r.line
                      /\ \/ s.row = Nil
                         \/ s.row.identity = r.row.identity /\ DOMAIN s.row = Row
<1>1. ASSUME NEW errors PROVE Good([r EXCEPT !.row = Nil, !.errors = errors])
  BY DEF IsResult
<1>2. ASSUME NEW desired, NEW changes, NEW op
      PROVE  Good([r EXCEPT !.row = ResolvedRow(c, r.row, desired, changes, op),
                            !.errors = {}])
  BY DEF IsResult, ResolvedRow
<1> HIDE DEF Good
<1>3. ASSUME NEW desired, NEW changes PROVE Good(ResolveMerged(c, r, r.row, desired, changes))
  BY <1>1, <1>2 DEF ResolveMerged
<1>4. Good(Resolve(c, r))
  BY <1>1, <1>3 DEF Resolve, ResolveDesired
<1>5. QED BY <1>4 DEF Good

-----------------------------------------------------------------------------
(* The invariant                                                           *)

\* A row of the source is held in one place: at the index of its line in the list of
\* the context stage, or behind it in the batch, or behind that in the buffer.
Held ==
    /\ IsSeq(context) /\ IsSeq(batch) /\ IsSeq(buffer)
    /\ taken \in Nat /\ taken <= Len(source)
    /\ taken = Len(context) + Len(batch) + Len(buffer)
    /\ Len(buffer) < MatchBatch /\ Len(batch) <= MatchBatch
    /\ \A i \in 1 .. Len(context) : IsResult(context[i]) /\ context[i].line = i
    /\ \A i \in 1 .. Len(batch) :
          IsResult(batch[i]) /\ batch[i].line = Len(context) + i
    /\ \A i \in 1 .. Len(buffer) :
          IsResult(buffer[i]) /\ buffer[i].line = Len(context) + Len(batch) + i

\* The run goes through its phases; resolve works on a stretch of the context.
Phases ==
    /\ phase \in {"pull", "fetch", "resolve", "done"} /\ exhausted \in BOOLEAN
    /\ fetched \in Nat /\ fetched <= Len(context)
    /\ IsSeq(resolving) /\ Len(resolving) <= fetched /\ Len(resolving) <= ResolveBatch
    /\ phase # "resolve" => resolving = << >>
    /\ phase = "pull" => fetched = 0
    /\ \A i \in 1 .. Len(resolving) :
          resolving[i] = context[fetched - Len(resolving) + i]

Resolved == fetched - Len(resolving)

\* The cache: its revisions, the one a transaction has open, those that were read.
\* While the source is pulled there is one transaction.
Views ==
    /\ revision \in 1 .. Len(tables) /\ snapshot \in 0 .. revision
    /\ phase = "pull" => reads = (IF snapshot = 0 THEN {} ELSE {snapshot})
    /\ reads = {} \/ \E v \in 1 .. revision : reads = {v}

\* The identities of the rows that go on, with source dedup: no two the same, all of
\* them in the store.
Deduped ==
    conf.dedup =>
        /\ \A i \in 1 .. Len(context) :
              context[i].row # Nil => DedupKey(context[i].row) \in DOMAIN seen
        /\ \A i, j \in 1 .. Len(context) :
              context[i].row # Nil /\ context[j].row # Nil /\ i # j
                 => DedupKey(context[i].row) # DedupKey(context[j].row)

\* The counters of the plan add up to the rows resolved.
Counted ==
    /\ DOMAIN plan = Counters \cup {"items"}
    /\ \A c \in Counters : plan[c] \in Nat
    /\ plan.total = Resolved /\ plan.failed + plan.valid = plan.total
    /\ plan.create + plan.update + plan.skipped = plan.valid

\* The items of the plan are in the order of the source, each of a row that was
\* resolved, under its identity.
Planned ==
    /\ IsSeq(plan.items)
    /\ \A i \in 1 .. Len(plan.items) :
          LET item == plan.items[i]
          IN /\ item.line \in 1 .. Resolved /\ context[item.line].row # Nil
             /\ DedupKey(item) = DedupKey(context[item.line].row)
    /\ \A i, j \in 1 .. Len(plan.items) : i < j => plan.items[i].line < plan.items[j].line

SecuredIn(item, failed, slots) ==
    item.line \notin failed => \A f \in item.secretFields : <<item.key, f>> \in slots

Secured(item) == SecuredIn(item, failures, DOMAIN vault)

\* The marks of secrets are true wherever the row is held.
Marked ==
    /\ failures \subseteq 1 .. taken
    /\ \A i \in 1 .. Len(context) : Secured(context[i])
    /\ \A i \in 1 .. Len(batch) : Secured(batch[i])
    /\ \A i \in 1 .. Len(buffer) : Secured(buffer[i])

Started == config \in DOMAIN Configs /\ source \in Sources /\ history \in DOMAIN Histories

RowInv ==
    Started /\ Held /\ Phases /\ Views /\ Deduped /\ Counted /\ Planned /\ Marked

\* What the rules and the sources of a run are.
LEMMA Instances ==
  ASSUME Started
  PROVE  /\ Len(conf.normalize) \in Nat /\ Len(conf.enrich) \in Nat
         /\ Len(tables) \in Nat \ {0} /\ Len(source) \in Nat
         /\ MatchBatch \in Nat \ {0} /\ ResolveBatch \in Nat \ {0}
BY RowPipelineAssumption DEF Started, conf, tables

\* Nothing has been read when a run starts.  (PlanningPipeline.open.)
LEMMA InitHolds == Init => RowInv
<1> SUFFICES ASSUME Init PROVE RowInv
  OBVIOUS
<1>1. Started
  BY DEF Init, Started
<1>2. /\ Len(tables) \in Nat \ {0} /\ Len(source) \in Nat
      /\ MatchBatch \in Nat \ {0} /\ ResolveBatch \in Nat \ {0}
  BY <1>1, Instances
<1>3. /\ context = << >> /\ batch = << >> /\ buffer = << >> /\ resolving = << >>
      /\ plan = EmptyPlan /\ taken = 0 /\ fetched = 0 /\ phase = "pull" /\ revision = 1
      /\ snapshot = 0 /\ reads = {} /\ failures = {} /\ exhausted = FALSE
  BY DEF Init
<1>4. Held
  BY <1>2, <1>3, ShortSeqs DEF Held
<1>5. Phases
  <2>1. /\ Len(context) = 0 /\ Len(resolving) = 0 /\ IsSeq(resolving)
        /\ \A i \in 1 .. Len(resolving) : FALSE
    BY <1>3, ShortSeqs
  <2>2. exhausted \in BOOLEAN
    BY <1>3
  <2>3. QED BY <1>2, <1>3, <2>1, <2>2 DEF Phases
<1>6. Views
  BY <1>2, <1>3 DEF Views
<1>7. Deduped
  BY <1>3, ShortSeqs DEF Deduped
<1>8. Counted
  <2>1. Resolved = 0
    <3>1. Len(resolving) = 0 /\ fetched = 0
      BY <1>3, ShortSeqs
    <3>2. QED BY <3>1 DEF Resolved
  <2>2. DOMAIN plan = Counters \cup {"items"} /\ \A c \in Counters : plan[c] = 0
    BY <1>3 DEF EmptyPlan, Counters
  <2>3. QED BY <2>1, <2>2 DEF Counted, Counters
<1>9. Planned
  BY <1>3, ShortSeqs DEF Planned, EmptyPlan
<1>10. Marked
  BY <1>3, ShortSeqs DEF Marked
<1>11. QED BY <1>1, <1>4, <1>5, <1>6, <1>7, <1>8, <1>9, <1>10 DEF RowInv

\* While the source is pulled no row is resolved and the plan has no item.
LEMMA NothingPlanned ==
  ASSUME RowInv, phase = "pull"
  PROVE  fetched = 0 /\ resolving = << >> /\ Resolved = 0 /\ Len(plan.items) = 0
<1>1. fetched = 0 /\ resolving = << >> /\ Resolved = 0
  BY ShortSeqs DEF RowInv, Phases, Resolved
<1>2. Len(plan.items) \in Nat
  BY SeqIs DEF RowInv, Planned
<1>3. QED BY <1>1, <1>2 DEF RowInv, Planned

\* A row is taken from the source, enriched, its secrets stored, and put in the buffer.
LEMMA PullRowKeeps == ASSUME RowInv, PullRow PROVE RowInv'
<1>1. /\ Started /\ Started' /\ Len(source) \in Nat /\ MatchBatch \in Nat \ {0}
      /\ ResolveBatch \in Nat \ {0} /\ source' = source /\ conf' = conf /\ tables' = tables
  BY Instances DEF RowInv, PullRow, Started, world, conf, tables
<1>2. /\ phase = "pull" /\ phase' = phase /\ batch = << >> /\ taken' = taken + 1
      /\ taken \in Nat /\ taken < Len(source) /\ exhausted' \in BOOLEAN
      /\ UNCHANGED <<revision, seen, context, fetched, resolving, plan>>
  BY DEF RowInv, Held, PullRow, world
<1>0. PICK stored \in BOOLEAN :
        LET enriched == Enriched(taken + 1)
            result == StoreSecrets(enriched, stored)
            stores == enriched.row # Nil /\ enriched.key # Nil
                         /\ DOMAIN enriched.secrets # {}
        IN /\ vault' = IF stores /\ stored THEN PutSecrets(enriched) ELSE vault
           /\ failures' = IF result.errors = {} THEN failures
                          ELSE failures \cup {result.line}
           /\ Buffer(result)
           /\ ReadSnapshot \/ UNCHANGED <<snapshot, reads>>
  BY ZenonT(60) DEF PullRow
<1>3. PICK item :
        /\ item = StoreSecrets(Enriched(taken + 1), stored)
        /\ LET enriched == Enriched(taken + 1)
               stores == enriched.row # Nil /\ enriched.key # Nil
                          /\ DOMAIN enriched.secrets # {}
           IN vault' = IF stores /\ stored THEN PutSecrets(enriched) ELSE vault
        /\ failures' = IF item.errors = {} THEN failures ELSE failures \cup {item.line}
        /\ Buffer(item)
        /\ ReadSnapshot \/ UNCHANGED <<snapshot, reads>>
  BY <1>0
<1>4. /\ IsResult(item) /\ item.line = taken + 1
      /\ Secured(item)' /\ DOMAIN vault \subseteq DOMAIN vault'
  <2> DEFINE enriched == Enriched(taken + 1)
             stores == enriched.row # Nil /\ enriched.key # Nil /\ DOMAIN enriched.secrets # {}
  <2>1. IsResult(enriched) /\ enriched.line = taken + 1 /\ enriched.secretFields = {}
    BY <1>1, Instances, EnrichedIs
  <2>2. vault' = IF stores /\ stored THEN PutSecrets(enriched) ELSE vault
    BY <1>3
  <2>3. \A f \in DOMAIN enriched.secrets :
           <<enriched.key, f>> \in DOMAIN PutSecrets(enriched)
    BY DEF PutSecrets
  <2>4. DOMAIN vault \subseteq DOMAIN PutSecrets(enriched)
    BY DEF PutSecrets
  <2> HIDE DEF enriched
  <2>5. /\ IsResult(item) /\ item.line = taken + 1 /\ item.key = enriched.key
        /\ item.secretFields \subseteq DOMAIN enriched.secrets
        /\ item.secretFields = {} \/ (stores /\ stored) \/ item.errors # {}
    BY <1>3, <2>1, StoreSecretsMarks DEF enriched
  <2>6. item.errors # {} => item.line \in failures'
    BY <1>3
  <2>7. Secured(item)'
    BY <2>2, <2>3, <2>5, <2>6 DEF Secured, SecuredIn
  <2>8. QED BY <2>2, <2>4, <2>5, <2>7
<1>5. /\ IsSeq(buffer) /\ Len(buffer) \in Nat /\ IsSeq(context) /\ Len(context) \in Nat
      /\ taken = Len(context) + Len(buffer)
  BY <1>2, SeqIs, ShortSeqs DEF RowInv, Held
<1>6. \/ buffer' = Append(buffer, item) /\ batch' = << >> /\ Len(buffer) + 1 < MatchBatch
      \/ buffer' = << >> /\ batch' = Append(buffer, item)
      \/ buffer' = <<item>> /\ batch' = buffer /\ Len(buffer) > 0
  BY <1>3, <1>5, ShortSeqs DEF Buffer
<1>7. Held'
  <2>1. /\ Len(buffer) < MatchBatch
        /\ \A i \in 1 .. Len(context) : IsResult(context[i]) /\ context[i].line = i
        /\ \A i \in 1 .. Len(buffer) : IsResult(buffer[i]) /\ buffer[i].line = Len(context) + i
    BY <1>2, <1>5, ShortSeqs DEF RowInv, Held
  <2>2. /\ IsSeq(Append(buffer, item)) /\ Len(Append(buffer, item)) = Len(buffer) + 1
        /\ \A i \in 1 .. Len(buffer) + 1 :
              IsResult(Append(buffer, item)[i]) /\ Append(buffer, item)[i].line = Len(context) + i
    BY <1>4, <1>5, <2>1, AppendIs, SMTT(60)
  <2>3. CASE buffer' = Append(buffer, item) /\ batch' = << >> /\ Len(buffer) + 1 < MatchBatch
    BY <1>1, <1>2, <1>5, <2>1, <2>2, <2>3, ShortSeqs, SMTT(60) DEF Held
  <2>4. CASE buffer' = << >> /\ batch' = Append(buffer, item)
    BY <1>1, <1>2, <1>5, <2>1, <2>2, <2>4, ShortSeqs, SMTT(60) DEF Held
  <2>5. CASE buffer' = <<item>> /\ batch' = buffer /\ Len(buffer) > 0
    BY <1>1, <1>2, <1>4, <1>5, <2>1, <2>5, ShortSeqs DEF Held
  <2>6. QED BY <1>6, <2>3, <2>4, <2>5
<1>8. Phases'
  BY <1>2 DEF RowInv, Phases
<1>9. Views'
  BY <1>1, <1>2, <1>3, SMTT(60) DEF RowInv, Views, ReadSnapshot, View
<1>10. Deduped'
  BY <1>1, <1>2 DEF RowInv, Deduped
<1>11. Counted' /\ Planned'
  BY <1>2 DEF RowInv, Counted, Planned, Resolved
<1>12. Marked'
  <2>1. failures' \subseteq 1 .. taken'
    <3>1. failures \subseteq 1 .. taken
      BY DEF RowInv, Marked
    <3>2. failures' \subseteq failures \cup {taken + 1}
      BY <1>3, <1>4
    <3>3. QED BY <1>2, <3>1, <3>2
  <2> DEFINE Now(r) == SecuredIn(r, failures', DOMAIN vault')
  <2>2. \A r : Secured(r) => Now(r)
    BY <1>3, <1>4 DEF Secured, SecuredIn
  <2>3. /\ \A i \in 1 .. Len(context) : Secured(context[i])
        /\ \A i \in 1 .. Len(buffer) : Secured(buffer[i])
    BY DEF RowInv, Marked
  <2>4. Now(item)
    BY <1>4 DEF Secured
  <2> HIDE DEF Now
  <2>5. /\ \A i \in 1 .. Len(context) : Now(context[i])
        /\ \A i \in 1 .. Len(buffer) : Now(buffer[i])
    BY <2>2, <2>3
  <2>6. /\ Len(Append(buffer, item)) = Len(buffer) + 1
        /\ \A i \in 1 .. Len(buffer) + 1 : Now(Append(buffer, item)[i])
    BY <1>5, <2>4, <2>5, AppendIs
  <2>7. /\ \A i \in 1 .. Len(context') : Now(context'[i])
        /\ \A i \in 1 .. Len(batch') : Now(batch'[i])
        /\ \A i \in 1 .. Len(buffer') : Now(buffer'[i])
    <3>1. \A i \in 1 .. Len(context') : Now(context'[i])
      BY <1>2, <2>5
    <3>2. Len(<< >>) = 0 /\ Len(<<item>>) = 1 /\ <<item>>[1] = item
      BY ShortSeqs
    <3>3. QED BY <1>5, <1>6, <2>4, <2>5, <2>6, <3>1, <3>2, SMTT(60)
  <2>8. QED BY <2>1, <2>7 DEF Marked, Secured, Now
<1>13. QED BY <1>1, <1>7, <1>8, <1>9, <1>10, <1>11, <1>12 DEF RowInv

\* At the end of the source what is left in the buffer is the last batch.
LEMMA EndOfSourceKeeps == ASSUME RowInv, EndOfSource PROVE RowInv'
<1>1. /\ phase = "pull" /\ phase' = phase /\ batch = << >> /\ batch' = buffer
      /\ buffer' = << >> /\ exhausted' = TRUE
      /\ UNCHANGED <<world, snapshot, taken, seen, context, vault, failures, reads, fetched,
                     resolving, plan>>
  BY DEF EndOfSource, FlushLast
<1>2. Started' /\ conf' = conf /\ tables' = tables /\ Resolved' = Resolved
  BY <1>1 DEF RowInv, Started, world, conf, tables, Resolved
<1>3. /\ IsSeq(buffer) /\ Len(buffer) \in Nat /\ IsSeq(context) /\ Len(context) \in Nat
      /\ Len(batch) = 0 /\ MatchBatch \in Nat \ {0}
  BY <1>1, SeqIs, ShortSeqs, Instances DEF RowInv, Held
<1>4. Held'
  <2>1. Len(buffer') = 0 /\ IsSeq(buffer')
    BY <1>1, ShortSeqs
  <2>2. QED BY <1>1, <1>2, <1>3, <2>1 DEF RowInv, Held, world
<1>5. Phases'
  BY <1>1 DEF RowInv, Phases
<1>6. Views'
  BY <1>1, <1>2 DEF RowInv, Views, world
<1>7. Deduped' /\ Counted' /\ Planned'
  BY <1>1, <1>2 DEF RowInv, Deduped, Counted, Planned
<1>8. Marked'
  <2>1. Len(buffer') = 0
    BY <1>1, ShortSeqs
  <2>2. QED BY <1>1, <2>1 DEF RowInv, Marked, Secured
<1>9. QED BY <1>2, <1>4, <1>5, <1>6, <1>7, <1>8 DEF RowInv

\* A row of the batch is matched and goes to the end of the context.
LEMMA MatchRowKeeps == ASSUME RowInv, MatchRow PROVE RowInv'
<1>1. /\ phase = "pull" /\ phase' = phase /\ batch # << >> /\ batch' = Tail(batch)
      /\ UNCHANGED <<world, taken, exhausted, buffer, vault, fetched, resolving, plan>>
  BY DEF MatchRow
<1>2. Started /\ Started' /\ conf' = conf /\ tables' = tables /\ Resolved' = Resolved
  BY <1>1 DEF RowInv, Started, world, conf, tables, Resolved
<1> DEFINE item == Head(batch)
<1>3. /\ Len(batch) \in Nat \ {0} /\ item = batch[1] /\ IsSeq(batch')
      /\ Len(batch') = Len(batch) - 1
      /\ \A i \in 1 .. Len(batch) - 1 : batch'[i] = batch[i + 1]
      /\ IsResult(item) /\ item.line = Len(context) + 1
      /\ IsSeq(context) /\ Len(context) \in Nat /\ IsSeq(buffer) /\ Len(buffer) \in Nat
      /\ taken = Len(context) + Len(batch) + Len(buffer)
  BY <1>1, TailIs, SeqIs DEF RowInv, Held
<1> HIDE DEF item
<1>4. PICK result :
        /\ context' = Append(context, result) /\ Rewritten(result, item)
        /\ failures' = IF result.errors = {} THEN failures ELSE failures \cup {result.line}
        /\ (ReadSnapshot \/ UNCHANGED <<snapshot, reads>>)
        /\ \/ result.row = Nil /\ DOMAIN seen \subseteq DOMAIN seen'
           \/ ~ conf.dedup
           \/ /\ DedupKey(result.row) \notin DOMAIN seen
              /\ DOMAIN seen' = DOMAIN seen \cup {DedupKey(result.row)}
  <2>1. CASE item.row = Nil
    <3>1. Rewritten(item, item)
      BY <1>3 DEF Rewritten, Worked
    <3>2. Pass(item) /\ UNCHANGED <<seen, snapshot, reads>>
      BY <2>1 DEF MatchRow, item
    <3>3. QED BY <2>1, <3>1, <3>2 DEF Pass
  <2>2. CASE item.row # Nil
    <3> DEFINE matched == Match(conf.match, item, tables[View], Locator(item.line), conf.snapshot)
               key == DedupKey(matched.row)
    <3>1. /\ ReadSnapshot
          /\ IF matched.row = Nil \/ ~ conf.dedup THEN Pass(matched) /\ UNCHANGED seen
             ELSE Pass(DropRepeated(matched, key)) /\ seen' = Register(matched, key)
      BY <2>2 DEF MatchRow, item
    <3>2. Rewritten(matched, item)
      BY <1>3, MatchRewrites
    <3> HIDE DEF matched
    <3>3. CASE matched.row = Nil \/ ~ conf.dedup
      BY <3>1, <3>2, <3>3 DEF Pass
    <3>4. CASE matched.row # Nil /\ conf.dedup
      <4>1. /\ Rewritten(DropRepeated(matched, key), matched)
            /\ \/ DropRepeated(matched, key).row = Nil
               \/ key \notin DOMAIN seen /\ DropRepeated(matched, key) = matched
        BY <3>2, DropRepeatedDrops DEF Rewritten, Worked
      <4>2. Rewritten(DropRepeated(matched, key), item)
        BY <3>2, <4>1 DEF Rewritten, Worked
      <4>3. DOMAIN seen' = DOMAIN seen \cup {key}
        BY <3>1, <3>4 DEF Register, Put
      <4>4. Pass(DropRepeated(matched, key)) /\ ReadSnapshot
        BY <3>1, <3>4
      <4> HIDE DEF key
      <4>5. QED BY <4>1, <4>2, <4>3, <4>4 DEF Pass, key
    <3>5. QED BY <3>3, <3>4
  <2>3. QED BY <2>1, <2>2
<1>5. /\ IsResult(result) /\ result.line = Len(context) + 1 /\ result.key = item.key
      /\ result.secretFields = item.secretFields
  BY <1>3, <1>4 DEF Rewritten, Worked
<1>6. /\ IsSeq(context') /\ Len(context') = Len(context) + 1
      /\ \A i \in 1 .. Len(context) : context'[i] = context[i]
      /\ context'[Len(context) + 1] = result
  BY <1>3, <1>4, AppendIs
<1>7. Held'
  <2>1. /\ taken \in Nat /\ taken <= Len(source) /\ Len(buffer) < MatchBatch
        /\ Len(batch) <= MatchBatch /\ MatchBatch \in Nat
        /\ \A i \in 1 .. Len(context) : IsResult(context[i]) /\ context[i].line = i
        /\ \A i \in 1 .. Len(batch) : IsResult(batch[i]) /\ batch[i].line = Len(context) + i
        /\ \A i \in 1 .. Len(buffer) :
              IsResult(buffer[i]) /\ buffer[i].line = Len(context) + Len(batch) + i
    BY <1>2, Instances DEF RowInv, Held
  <2>2. \A i \in 1 .. Len(context') : IsResult(context'[i]) /\ context'[i].line = i
    BY <1>3, <1>5, <1>6, <2>1, SMTT(60)
  <2>3. ASSUME NEW i \in 1 .. Len(batch')
        PROVE  IsResult(batch'[i]) /\ batch'[i].line = Len(context') + i
    <3>1. i + 1 \in 1 .. Len(batch) /\ batch'[i] = batch[i + 1]
      BY <1>3
    <3>2. Len(context) + (i + 1) = Len(context') + i
      BY <1>3, <1>6
    <3>3. QED BY <2>1, <3>1, <3>2
  <2>4. UNCHANGED <<buffer, taken, source>>
    BY <1>1 DEF world
  <2>5. /\ taken = Len(context') + Len(batch') + Len(buffer) /\ Len(batch') <= MatchBatch
        /\ \A i \in 1 .. Len(buffer) :
              IsResult(buffer[i]) /\ buffer[i].line = Len(context') + Len(batch') + i
    <3>1. Len(context') + Len(batch') = Len(context) + Len(batch)
      BY <1>3, <1>6
    <3>2. Len(batch') <= MatchBatch
      BY <1>3, <2>1
    <3>3. QED BY <1>3, <2>1, <3>1, <3>2
  <2>6. QED BY <1>3, <1>6, <2>1, <2>2, <2>3, <2>4, <2>5 DEF Held
<1>8. Phases'
  <2>1. Len(resolving) = 0 /\ fetched = 0 /\ resolving = << >>
    BY <1>1, NothingPlanned, ShortSeqs
  <2>2. QED BY <1>1, <1>3, <1>6, <2>1 DEF RowInv, Phases
<1>9. Views'
  BY <1>1, <1>2, <1>4 DEF RowInv, Views, ReadSnapshot, View, world
<1>10. Deduped'
  <2>1. SUFFICES ASSUME conf.dedup PROVE Deduped'
    BY <1>2 DEF Deduped
  <2> DEFINE key(r) == DedupKey(r.row)
  <2>2. /\ \A i \in 1 .. Len(context) : context[i].row # Nil => key(context[i]) \in DOMAIN seen
        /\ \A i, j \in 1 .. Len(context) :
              context[i].row # Nil /\ context[j].row # Nil /\ i # j
                 => key(context[i]) # key(context[j])
    BY <2>1 DEF RowInv, Deduped
  <2>3. /\ DOMAIN seen \subseteq DOMAIN seen'
        /\ result.row # Nil => key(result) \notin DOMAIN seen /\ key(result) \in DOMAIN seen'
    BY <1>4, <2>1
  <2> HIDE DEF key
  <2>4. \A i \in 1 .. Len(context') :
           context'[i].row # Nil => key(context'[i]) \in DOMAIN seen'
    BY <1>3, <1>6, <2>2, <2>3, SMTT(60)
  <2>5. \A i, j \in 1 .. Len(context') :
           context'[i].row # Nil /\ context'[j].row # Nil /\ i # j
              => key(context'[i]) # key(context'[j])
    BY <1>3, <1>6, <2>2, <2>3, SMTT(60)
  <2>6. QED BY <2>4, <2>5 DEF Deduped, key
<1>11. Counted'
  BY <1>1, <1>2 DEF RowInv, Counted
<1>12. Planned'
  <2>1. Len(plan.items) = 0 /\ plan' = plan /\ IsSeq(plan.items)
    BY <1>1, NothingPlanned DEF RowInv, Planned
  <2>2. QED BY <2>1 DEF Planned
<1>13. Marked'
  <2> DEFINE Now(r) == SecuredIn(r, failures', DOMAIN vault')
  <2>1. failures' \subseteq 1 .. taken'
    <3>1. failures \subseteq 1 .. taken
      BY DEF RowInv, Marked
    <3>2. failures' \subseteq failures \cup {Len(context) + 1}
      BY <1>4, <1>5
    <3>3. QED BY <1>1, <1>3, <3>1, <3>2
  <2>2. \A r : Secured(r) => Now(r)
    BY <1>1, <1>4 DEF Secured, SecuredIn
  <2>3. /\ \A i \in 1 .. Len(context) : Secured(context[i])
        /\ \A i \in 1 .. Len(batch) : Secured(batch[i])
        /\ \A i \in 1 .. Len(buffer) : Secured(buffer[i])
    BY DEF RowInv, Marked
  <2>4. Now(result)
    <3>1. Now(item)
      BY <1>3, <2>2, <2>3
    <3>2. QED BY <1>3, <1>5, <3>1 DEF SecuredIn
  <2> HIDE DEF Now
  <2>5. ASSUME NEW i \in 1 .. Len(context') PROVE Now(context'[i])
    <3>1. CASE i \in 1 .. Len(context)
      BY <1>6, <2>2, <2>3, <3>1
    <3>2. CASE i = Len(context) + 1
      BY <1>6, <2>4, <3>2
    <3>3. QED BY <1>3, <1>6, <3>1, <3>2
  <2>6. ASSUME NEW i \in 1 .. Len(batch') PROVE Now(batch'[i])
    <3>1. i + 1 \in 1 .. Len(batch) /\ batch'[i] = batch[i + 1]
      BY <1>3
    <3>2. QED BY <2>2, <2>3, <3>1
  <2>7. \A i \in 1 .. Len(buffer') : Now(buffer'[i])
    BY <1>1, <2>2, <2>3
  <2>8. QED BY <2>1, <2>5, <2>6, <2>7 DEF Marked, Secured, Now
<1>14. QED BY <1>2, <1>7, <1>8, <1>9, <1>10, <1>11, <1>12, <1>13 DEF RowInv

\* A step that leaves the rows, the plan and the source alone keeps what is said of
\* them.
LEMMA RowsStay ==
  ASSUME RowInv, UNCHANGED <<config, source, history, rows, plan>>,
         fetched' - Len(resolving') = Resolved
  PROVE  Started' /\ Held' /\ Deduped' /\ Counted' /\ Planned' /\ Marked'
<1>1. conf' = conf /\ tables' = tables /\ Resolved' = Resolved
  BY DEF conf, tables, Resolved
<1>2. /\ UNCHANGED <<taken, exhausted, buffer, batch, seen, context, vault, failures, reads>>
      /\ source' = source
  BY DEF rows
<1>3. Started'
  BY DEF RowInv, Started
<1>4. Held'
  BY <1>2 DEF RowInv, Held
<1>5. Deduped'
  BY <1>1, <1>2 DEF RowInv, Deduped
<1>6. Counted' /\ Planned'
  BY <1>1, <1>2 DEF RowInv, Counted, Planned
<1>7. Marked'
  BY <1>2 DEF RowInv, Marked, Secured
<1>8. QED BY <1>3, <1>4, <1>5, <1>6, <1>7

\* The micro-batch of resolve is the next stretch of the context.
LEMMA FetchKeeps == ASSUME RowInv, Fetch PROVE RowInv'
<1>1. PICK n \in 1 .. ResolveBatch :
        /\ fetched + n <= Len(context)
        /\ resolving' = SubSeq(context, fetched + 1, fetched + n)
        /\ fetched' = fetched + n
  BY DEF Fetch
<1>2. /\ phase = "fetch" /\ phase' = "resolve" /\ resolving = << >>
      /\ UNCHANGED <<world, snapshot, rows, plan>>
  BY DEF Fetch, RowInv, Phases
<1>3. fetched \in Nat /\ ResolveBatch \in Nat /\ IsSeq(context) /\ Len(context) \in Nat
  BY Instances, SeqIs DEF RowInv, Phases, Held
<1>4. /\ IsSeq(resolving') /\ Len(resolving') = n
      /\ \A i \in 1 .. n : resolving'[i] = context[fetched + i]
  BY <1>1, <1>3, StretchIs
<1>5. Len(resolving) = 0
  BY <1>2, ShortSeqs
<1>6. fetched' - Len(resolving') = Resolved
  BY <1>1, <1>3, <1>4, <1>5 DEF Resolved
<1>7. Started' /\ Held' /\ Deduped' /\ Counted' /\ Planned' /\ Marked'
  BY <1>2, <1>6, RowsStay DEF world
<1>8. Phases'
  <2>1. context' = context /\ exhausted' = exhausted
    BY <1>2 DEF rows
  <2>2. \A i \in 1 .. Len(resolving') :
           resolving'[i] = context'[fetched' - Len(resolving') + i]
    BY <1>1, <1>3, <1>4, <2>1
  <2>3. QED BY <1>1, <1>2, <1>3, <1>4, <2>1, <2>2 DEF RowInv, Phases
<1>9. Views'
  BY <1>2 DEF RowInv, Views, world, rows, tables
<1>10. QED BY <1>7, <1>8, <1>9 DEF RowInv

\* A row is resolved and counted in the plan; it becomes an item of its own identity,
\* or none.  (add_resolved.)
LEMMA ResolveRowKeeps == ASSUME RowInv, ResolveRow PROVE RowInv'
<1> DEFINE n == Resolved + 1
           row == context[n].row
<1>1. /\ phase = "resolve" /\ phase' = phase /\ resolving # << >>
      /\ resolving' = Tail(resolving)
      /\ UNCHANGED <<world, snapshot, rows, fetched>>
  BY DEF ResolveRow
<1>2. /\ UNCHANGED <<config, source, history, revision, taken, exhausted, buffer, batch, seen,
                     context, vault, failures, reads>>
      /\ conf' = conf /\ tables' = tables
  BY <1>1 DEF world, rows, conf, tables
<1>3. /\ Len(resolving) \in Nat \ {0} /\ Head(resolving) = resolving[1]
      /\ IsSeq(resolving') /\ Len(resolving') = Len(resolving) - 1
      /\ \A i \in 1 .. Len(resolving) - 1 : resolving'[i] = resolving[i + 1]
      /\ fetched \in Nat /\ Len(resolving) <= fetched /\ fetched <= Len(context)
      /\ Len(context) \in Nat
      /\ \A i \in 1 .. Len(resolving) : resolving[i] = context[Resolved + i]
  BY <1>1, TailIs, SeqIs DEF RowInv, Phases, Held, Resolved
<1>4. /\ Resolved \in Nat /\ n \in 1 .. Len(context) /\ Resolved' = n
      /\ Head(resolving) = context[n] /\ IsResult(context[n]) /\ context[n].line = n
  <2>1. Resolved \in Nat /\ n \in 1 .. Len(context) /\ Resolved' = n
    BY <1>1, <1>3 DEF Resolved
  <2>2. QED BY <1>3, <2>1, SMTT(60) DEF RowInv, Held
<1>5. PICK result :
        /\ plan' = Add(result) /\ IsResult(result) /\ result.line = n
        /\ result.row # Nil => /\ row # Nil
                               /\ result.row.identity = row.identity
                               /\ "line" \notin DOMAIN result.row
                               /\ "identity" \in DOMAIN result.row
  <2> DEFINE head == Head(resolving)
  <2>1. PICK result : /\ plan' = Add(result)
                      /\ \/ head.row = Nil /\ result = head
                         \/ head.row # Nil /\ result = Resolve(conf.match, head)
    BY DEF ResolveRow
  <2>2. IsResult(head) /\ head.line = n /\ head.row = row
    BY <1>4
  <2> HIDE DEF head, row
  <2>3. QED BY <2>1, <2>2, ResolveKeepsIdentity
<1> DEFINE item == Put(result.row, "line", result.line)
<1>6. result.row # Nil => item.line = n /\ DedupKey(item) = DedupKey(row)
  BY <1>5 DEF Put, DedupKey, Primary
<1>7. Started' /\ Held' /\ Deduped' /\ Marked'
  BY <1>2 DEF RowInv, Started, Held, Deduped, Marked, Secured
<1>8. Phases'
  <2>1. \A i \in 1 .. Len(resolving') :
           resolving'[i] = context'[fetched' - Len(resolving') + i]
    <3>1. SUFFICES ASSUME NEW i \in 1 .. Len(resolving')
                   PROVE  resolving'[i] = context[fetched - Len(resolving') + i]
      BY <1>1, <1>2
    <3>2. i + 1 \in 1 .. Len(resolving) /\ resolving'[i] = resolving[i + 1]
      BY <1>3
    <3>3. Resolved + (i + 1) = fetched - Len(resolving') + i
      BY <1>3 DEF Resolved
    <3>4. QED BY <1>3, <3>2, <3>3
  <2>2. Len(resolving') <= fetched /\ Len(resolving') <= ResolveBatch
    BY <1>3, Instances DEF RowInv, Phases
  <2>3. QED BY <1>1, <1>2, <1>3, <2>1, <2>2 DEF RowInv, Phases
<1>9. Views'
  BY <1>1, <1>2 DEF RowInv, Views, world
<1>10. /\ DOMAIN plan = Counters \cup {"items"} /\ \A c \in Counters : plan[c] \in Nat
       /\ plan.total = Resolved /\ plan.failed + plan.valid = plan.total
       /\ plan.create + plan.update + plan.skipped = plan.valid
  BY DEF RowInv, Counted
<1>11. Counted'
  <2>1. /\ plan.total \in Nat /\ plan.failed \in Nat /\ plan.valid \in Nat
        /\ plan.create \in Nat /\ plan.update \in Nat /\ plan.skipped \in Nat
    BY <1>10 DEF Counters
  <2>2. CASE result.row = Nil \/ result.errors # {}
    BY <1>4, <1>5, <1>10, <2>1, <2>2, SMTT(60) DEF Add, Counted, Counters
  <2>3. CASE ~ (result.row = Nil \/ result.errors # {}) /\ result.row.op = "skip"
    BY <1>4, <1>5, <1>10, <2>1, <2>3, SMTT(60) DEF Add, Counted, Counters
  <2>4. CASE ~ (result.row = Nil \/ result.errors # {}) /\ result.row.op # "skip"
    BY <1>4, <1>5, <1>10, <2>1, <2>4, SMTT(60) DEF Add, Counted, Counters
  <2>5. QED BY <2>2, <2>3, <2>4
<1>12. Planned'
  <2>1. /\ IsSeq(plan.items) /\ Len(plan.items) \in Nat
        /\ \A i \in 1 .. Len(plan.items) :
              /\ plan.items[i].line \in 1 .. Resolved
              /\ context[plan.items[i].line].row # Nil
              /\ DedupKey(plan.items[i]) = DedupKey(context[plan.items[i].line].row)
        /\ \A i, j \in 1 .. Len(plan.items) :
              i < j => plan.items[i].line < plan.items[j].line
    BY SeqIs DEF RowInv, Planned
  <2>2. \/ plan'.items = plan.items
        \/ result.row # Nil /\ plan'.items = Append(plan.items, item)
    BY <1>5, <1>10 DEF Add
  <2>3. CASE plan'.items = plan.items
    BY <1>2, <1>4, <2>1, <2>3, SMTT(60) DEF Planned
  <2>4. CASE result.row # Nil /\ plan'.items = Append(plan.items, item)
    <3>1. item.line = n /\ row # Nil /\ DedupKey(item) = DedupKey(row)
      BY <1>5, <1>6, <2>4
    <3> HIDE DEF item
    <3>2. /\ IsSeq(plan'.items) /\ Len(plan'.items) = Len(plan.items) + 1
          /\ \A i \in 1 .. Len(plan.items) : plan'.items[i] = plan.items[i]
          /\ plan'.items[Len(plan.items) + 1] = item
      BY <2>1, <2>4, AppendIs
    <3>3. ASSUME NEW i \in 1 .. Len(plan'.items)
          PROVE  /\ plan'.items[i].line \in 1 .. n
                 /\ context[plan'.items[i].line].row # Nil
                 /\ DedupKey(plan'.items[i]) = DedupKey(context[plan'.items[i].line].row)
      <4>1. CASE i \in 1 .. Len(plan.items)
        BY <1>4, <2>1, <3>2, <4>1, SMTT(60)
      <4>2. CASE i = Len(plan.items) + 1
        BY <1>4, <3>1, <3>2, <4>2, SMTT(60)
      <4>3. QED BY <2>1, <3>2, <4>1, <4>2
    <3>4. ASSUME NEW i \in 1 .. Len(plan'.items), NEW j \in 1 .. Len(plan'.items), i < j
          PROVE  plan'.items[i].line < plan'.items[j].line
      <4>1. i \in 1 .. Len(plan.items) /\ plan'.items[i].line \in 1 .. Resolved
        BY <2>1, <3>2, <3>4, SMTT(60)
      <4>2. CASE j \in 1 .. Len(plan.items)
        BY <2>1, <3>2, <3>4, <4>1, <4>2
      <4>3. CASE j = Len(plan.items) + 1
        BY <1>4, <3>1, <3>2, <4>1, <4>3, SMTT(60)
      <4>4. QED BY <2>1, <3>2, <4>2, <4>3, SMTT(60)
    <3>5. QED BY <1>2, <1>4, <3>2, <3>3, <3>4 DEF Planned
  <2>5. QED BY <2>2, <2>3, <2>4
<1>13. QED BY <1>7, <1>8, <1>9, <1>11, <1>12 DEF RowInv

\* The steps between the batches, the other processes, and a run that is over.
LEMMA OthersKeep ==
  ASSUME RowInv,
         \/ BuildContext \/ Commit \/ Finish \/ Refresh \/ ReplaceFile \/ UNCHANGED vars
  PROVE  RowInv'
<1>1. /\ UNCHANGED <<config, source, history, rows, fetched, resolving, plan>>
      /\ \/ phase' = phase /\ snapshot' = snapshot
         \/ phase = "pull" /\ phase' = "fetch" /\ snapshot' = snapshot
         \/ phase = "resolve" /\ resolving = << >> /\ phase' = "fetch" /\ snapshot' = 0
         \/ phase = "fetch" /\ phase' = "done" /\ snapshot' = 0
      /\ \/ revision' = revision
         \/ revision' = revision + 1 /\ revision < Len(tables)
  BY DEF BuildContext, Commit, Finish, Refresh, ReplaceFile, vars, world
<1>2. Started' /\ Held' /\ Deduped' /\ Counted' /\ Planned' /\ Marked'
  BY <1>1, RowsStay DEF Resolved
<1>3. Phases'
  <2>1. /\ phase' \in {"pull", "fetch", "resolve", "done"}
        /\ phase' # "resolve" => resolving' = << >>
        /\ phase' = "pull" => fetched' = 0
    <3>1. phase = "pull" => resolving = << >>
      BY DEF RowInv, Phases
    <3>2. QED BY <1>1, <3>1 DEF RowInv, Phases
  <2>2. UNCHANGED <<exhausted, context>>
    BY <1>1 DEF rows
  <2>3. QED BY <1>1, <2>1, <2>2 DEF RowInv, Phases
<1>4. Views'
  <2>1. tables' = tables /\ reads' = reads /\ Len(tables) \in Nat
    BY <1>1, Instances DEF tables, rows, RowInv
  <2>2. /\ revision \in 1 .. Len(tables) /\ snapshot \in 0 .. revision
        /\ phase = "pull" => reads = (IF snapshot = 0 THEN {} ELSE {snapshot})
        /\ reads = {} \/ \E v \in 1 .. revision : reads = {v}
    BY DEF RowInv, Views
  <2>3. revision' \in revision .. Len(tables) /\ snapshot' \in 0 .. revision'
    BY <1>1, <2>1, <2>2
  <2>4. phase' = "pull" => phase = "pull" /\ snapshot' = snapshot
    BY <1>1
  <2>5. reads = {} \/ \E v \in 1 .. revision' : reads = {v}
    BY <2>1, <2>2, <2>3
  <2>6. QED BY <2>1, <2>2, <2>3, <2>4, <2>5 DEF Views
<1>5. QED BY <1>2, <1>3, <1>4 DEF RowInv

\* The rows of a run stay where the invariant says.  (PlanningPipeline, from the
\* extractor to the plan builder.)
THEOREM RowInvCorrect == Spec => []RowInv
<1>1. RowInv /\ [Next]_vars => RowInv'
  BY PullRowKeeps, EndOfSourceKeeps, MatchRowKeeps, FetchKeeps, ResolveRowKeeps, OthersKeep
  DEF Next, Step, Over
<1>2. QED BY InitHolds, <1>1, PTL DEF Spec

\* The state has the types of the pipeline's records.  (TransformResult, PlanSummary,
\* BatchConfig.)
THEOREM TypeCorrect == Spec => []TypeOK
<1>1. RowInv => TypeOK
  <2> SUFFICES ASSUME RowInv PROVE TypeOK
    OBVIOUS
  <2>1. /\ Len(context) \in Nat /\ Len(batch) \in Nat /\ Len(buffer) \in Nat
        /\ taken \in Nat /\ taken <= Len(source) /\ Len(source) \in Nat
        /\ taken = Len(context) + Len(batch) + Len(buffer)
        /\ Len(buffer) < MatchBatch /\ Len(batch) <= MatchBatch
    BY SeqIs, Instances DEF RowInv, Held
  <2>2. /\ fetched \in Nat /\ fetched <= Len(context) /\ Len(resolving) \in Nat
        /\ Len(resolving) <= fetched /\ Len(resolving) <= ResolveBatch
    BY SeqIs DEF RowInv, Phases
  <2>3. Resolved \in 0 .. Len(source)
    BY <2>1, <2>2 DEF Resolved
  <2>4. \A c \in Counters : plan[c] \in 0 .. Len(source)
    <3>1. /\ plan.total \in Nat /\ plan.failed \in Nat /\ plan.valid \in Nat
          /\ plan.create \in Nat /\ plan.update \in Nat /\ plan.skipped \in Nat
          /\ plan.total = Resolved /\ plan.failed + plan.valid = plan.total
          /\ plan.create + plan.update + plan.skipped = plan.valid
      BY DEF RowInv, Counted, Counters
    <3> DEFINE L == Len(source)
               T == plan.total
               F == plan.failed
               V == plan.valid
               C == plan.create
               U == plan.update
               K == plan.skipped
    <3>2. T <= L /\ F <= L /\ V <= L /\ C <= L /\ U <= L /\ K <= L
      <4>1. /\ L \in Nat /\ T \in Nat /\ F \in Nat /\ V \in Nat /\ C \in Nat /\ U \in Nat
            /\ K \in Nat /\ T <= L /\ F + V = T /\ C + U + K = V
        BY <2>1, <2>3, <3>1
      <4> HIDE DEF L, T, F, V, C, U, K
      <4>2. QED BY <4>1
    <3> DEFINE S == 0 .. L
    <3>3. T \in S /\ F \in S /\ V \in S /\ C \in S /\ U \in S /\ K \in S
      <4>1. /\ L \in Nat /\ T \in Nat /\ F \in Nat /\ V \in Nat /\ C \in Nat /\ U \in Nat
            /\ K \in Nat
        BY <2>1, <3>1
      <4> HIDE DEF L, T, F, V, C, U, K
      <4>2. QED BY <3>2, <4>1
    <3> HIDE DEF S
    <3>4. QED BY <3>3, SMTT(60) DEF Counters, S
  <2>5. reads \subseteq 1 .. revision /\ revision \in 1 .. Len(tables) /\ snapshot \in 0 .. revision
    BY DEF RowInv, Views
  <2>6. failures \subseteq 1 .. taken
    BY DEF RowInv, Marked
  <2>7. phase \in {"pull", "fetch", "resolve", "done"} /\ exhausted \in BOOLEAN
    BY DEF RowInv, Phases
  <2>8. config \in DOMAIN Configs /\ source \in Sources
    BY DEF RowInv, Started
  <2>9. QED BY <2>1, <2>2, <2>4, <2>5, <2>6, <2>7, <2>8, SMTT(60) DEF TypeOK
<1>2. QED BY RowInvCorrect, <1>1, PTL

\* Every row taken from the source is in one place, in the order of the source.
\* (iter_micro_batches, MatchStage, ResolveContextStage.)
THEOREM NoRowLostCorrect == Spec => []NoRowLost
<1>1. RowInv => NoRowLost
  <2> SUFFICES ASSUME RowInv PROVE NoRowLost
    OBVIOUS
  <2> DEFINE front == context \o batch
             held == front \o buffer
  <2>1. /\ IsSeq(context) /\ IsSeq(batch) /\ IsSeq(buffer)
        /\ Len(context) \in Nat /\ Len(batch) \in Nat /\ Len(buffer) \in Nat
        /\ taken = Len(context) + Len(batch) + Len(buffer)
        /\ \A i \in 1 .. Len(context) : context[i].line = i
        /\ \A i \in 1 .. Len(batch) : batch[i].line = Len(context) + i
        /\ \A i \in 1 .. Len(buffer) : buffer[i].line = Len(context) + Len(batch) + i
    BY SeqIs DEF RowInv, Held
  <2>2. /\ IsSeq(front) /\ Len(front) = Len(context) + Len(batch)
        /\ \A i \in 1 .. Len(context) + Len(batch) :
              front[i] = IF i <= Len(context) THEN context[i] ELSE batch[i - Len(context)]
    BY <2>1, ConcatIs
  <2>3. \A i \in 1 .. Len(front) : front[i].line = i
    <3>1. SUFFICES ASSUME NEW i \in 1 .. Len(front) PROVE front[i].line = i
      OBVIOUS
    <3>2. CASE i <= Len(context)
      BY <2>1, <2>2, <3>2
    <3>3. CASE i > Len(context)
      <4>1. i - Len(context) \in 1 .. Len(batch) /\ Len(context) + (i - Len(context)) = i
        BY <2>1, <2>2, <3>3
      <4>2. QED BY <2>1, <2>2, <3>3, <4>1, SMTT(60)
    <3>4. QED BY <2>1, <2>2, <3>2, <3>3
  <2> HIDE DEF front
  <2>4. /\ IsSeq(held) /\ Len(held) = taken
        /\ \A i \in 1 .. taken :
              held[i] = IF i <= Len(front) THEN front[i] ELSE buffer[i - Len(front)]
    <3>1. Len(front) + Len(buffer) = taken
      BY <2>1, <2>2
    <3>2. /\ IsSeq(held) /\ Len(held) = Len(front) + Len(buffer)
          /\ \A i \in 1 .. Len(front) + Len(buffer) :
                held[i] = IF i <= Len(front) THEN front[i] ELSE buffer[i - Len(front)]
      BY <2>1, <2>2, ConcatIs
    <3> HIDE DEF held
    <3>3. QED BY <3>1, <3>2
  <2>5. \A i \in 1 .. taken : held[i].line = i
    <3>1. SUFFICES ASSUME NEW i \in 1 .. taken PROVE held[i].line = i
      OBVIOUS
    <3>2. CASE i <= Len(front)
      BY <2>1, <2>2, <2>3, <2>4, <3>2
    <3>3. CASE i > Len(front)
      <4>1. i - Len(front) \in 1 .. Len(buffer) /\ Len(front) + (i - Len(front)) = i
        BY <2>1, <2>2, <3>3
      <4>2. QED BY <2>1, <2>2, <2>4, <3>3, <4>1, SMTT(60)
    <3>4. QED BY <2>1, <2>2, <3>2, <3>3
  <2>6. DOMAIN held = 1 .. taken
    BY <2>4, SeqIs
  <2> HIDE DEF held
  <2>7. [i \in DOMAIN held |-> held[i].line] = [i \in 1 .. taken |-> i]
    BY <2>5, <2>6
  <2>8. QED BY <2>7 DEF NoRowLost, held, front
<1>2. QED BY RowInvCorrect, <1>1, PTL

\* A plan has at most one item for an identity.  (match_with_source_dedup.)
THEOREM OnePlannedPerIdentityCorrect == Spec => []OnePlannedPerIdentity
<1>1. RowInv => OnePlannedPerIdentity
  <2> SUFFICES ASSUME RowInv, conf.dedup,
                      NEW i \in DOMAIN plan.items, NEW j \in DOMAIN plan.items,
                      DedupKey(plan.items[i]) = DedupKey(plan.items[j])
               PROVE  i = j
    BY DEF OnePlannedPerIdentity
  <2> DEFINE m == plan.items[i].line
             n == plan.items[j].line
  <2>1. Len(plan.items) \in Nat /\ i \in 1 .. Len(plan.items) /\ j \in 1 .. Len(plan.items)
    BY SeqIs DEF RowInv, Planned
  <2>2. /\ m \in 1 .. Resolved /\ n \in 1 .. Resolved
        /\ context[m].row # Nil /\ context[n].row # Nil
        /\ DedupKey(context[m].row) = DedupKey(context[n].row)
    BY <2>1, SMTT(60) DEF RowInv, Planned
  <2>3. m \in 1 .. Len(context) /\ n \in 1 .. Len(context)
    <3>1. /\ fetched \in Nat /\ fetched <= Len(context) /\ Len(resolving) \in Nat
          /\ Len(context) \in Nat
      BY SeqIs DEF RowInv, Phases, Held
    <3>2. QED BY <2>2, <3>1 DEF Resolved
  <2>4. m = n
    BY <2>2, <2>3 DEF RowInv, Deduped
  <2>5. QED
    <3>1. \A k, l \in 1 .. Len(plan.items) : k < l => plan.items[k].line < plan.items[l].line
      BY DEF RowInv, Planned
    <3>2. m \in Nat
      BY <2>2, <2>3, SeqIs, SMTT(60) DEF RowInv, Held
    <3>3. QED BY <2>1, <2>4, <3>1, <3>2
<1>2. QED BY RowInvCorrect, <1>1, PTL

\* What enrichment and matching decide in a run they decide on one state of the
\* cache.  (_iter_resolved fetches the first batch inside the transaction.)
THEOREM DecisionsShareASnapshotCorrect == Spec => []DecisionsShareASnapshot
<1>1. RowInv => DecisionsShareASnapshot
  <2> SUFFICES ASSUME RowInv PROVE Cardinality(reads) <= 1
    BY DEF DecisionsShareASnapshot
  <2>1. reads = {} \/ \E v \in 1 .. revision : reads = {v}
    BY DEF RowInv, Views
  <2>2. CASE reads = {}
    BY <2>2, FS_EmptySet
  <2>3. CASE \E v \in 1 .. revision : reads = {v}
    BY <2>3, FS_Singleton
  <2>4. QED BY <2>1, <2>2, <2>3
<1>2. QED BY RowInvCorrect, <1>1, PTL

\* A row that carries the mark of a secret and no error has it in the vault, under its
\* key.  (_store_secrets.)
THEOREM SecretsAreStoredCorrect == Spec => []SecretsAreStored
<1>1. RowInv => SecretsAreStored
  BY SeqIs DEF RowInv, Held, Marked, Secured, SecuredIn, SecretsAreStored
<1>2. QED BY RowInvCorrect, <1>1, PTL

-----------------------------------------------------------------------------
(* The plan agrees with the cache                                          *)

\* What of the cache an identity of a row names.
NamedBy(match, cache, desired, f) ==
    {n \in DOMAIN cache : Names(cache[n], f, desired[f], match.includeDeleted)}

\* A matched row and the state of the cache it was matched on.
Decided(match, matched, cache) ==
    /\ matched.status \in {"MATCHED", "AMBIGUOUS", "NOT_FOUND"}
    /\ matched.identity.primary \in DOMAIN matched.desired
    /\ matched.status = "NOT_FOUND" =>
          /\ matched.existing = Nil
          /\ \A i \in DOMAIN match.identity :
                LET f == match.identity[i].primary
                IN Present(Field(matched.desired, f)) =>
                      NamedBy(match, cache, matched.desired, f) = {}
    /\ matched.status = "MATCHED" =>
          \A n \in NamedBy(match, cache, matched.desired, matched.identity.primary) :
              cache[n] = matched.existing

\* An item of the plan and the state of the cache it was decided on.
ItemAgrees(match, item, cache) ==
    /\ item.op = "create" =>
          \A i \in DOMAIN match.identity :
              LET f == match.identity[i].primary
              IN Present(Field(item.desired, f)) =>
                    NamedBy(match, cache, item.desired, f) = {}
    /\ item.op = "update" =>
          \A n \in NamedBy(match, cache, item.desired, item.identity.primary) :
              cache[n].row["_id"] = item.targetId

AgreeInv ==
    /\ \A i \in 1 .. Len(context) :
          context[i].row # Nil =>
              \E v \in reads : reads = {v} /\ Decided(conf.match, context[i].row, tables[v])
    /\ \A i \in 1 .. Len(plan.items) :
          \E v \in reads : reads = {v} /\ ItemAgrees(conf.match, plan.items[i], tables[v])

\* The least of some numbers is one of them.
LEMMA MinIs == ASSUME NEW S, S \subseteq Nat, S # {} PROVE Min(S) \in S
<1>1. PICK k \in S : \A j \in S : ~ (<<j, k>> \in OpToRel(<, Nat))
  BY WFMin, NatLessThanWellFounded
<1>2. \A j \in S : k <= j
  <2>1. ASSUME NEW j \in S, ~ (k <= j) PROVE FALSE
    <3>1. j \in Nat /\ k \in Nat /\ j < k
      BY <2>1
    <3>2. <<j, k>> \in OpToRel(<, Nat)
      BY <3>1 DEF OpToRel
    <3>3. QED BY <1>1, <3>2
  <2>2. QED BY <2>1
<1>3. QED BY <1>1, <1>2 DEF Min

\* The value an identity is looked up by is that of its field in the desired state.
LEMMA IdentityValue ==
  ASSUME NEW match, DesiredIdentities(match), NEW r, NEW i \in DOMAIN match.identity
  PROVE  LET identity == Identity(match.identity[i], r)
             desired == Desired(match, r.row)
             f == match.identity[i].primary
         IN /\ identity.primary = f /\ f \in DOMAIN desired
            /\ i \in WithValue(match, r) <=> Present(desired[f])
            /\ i \in WithValue(match, r) => Primary(identity) = desired[f]
<1> DEFINE rule == match.identity[i]
           f == rule.primary
           desired == Desired(match, r.row)
           identity == Identity(rule, r)
<1>1. f \in ToSet(rule.fields) /\ f # "match_key" /\ f \in ToSet(match.desired) \ match.drop
  BY DEF DesiredIdentities
<1>2. identity.primary = f /\ f \in DOMAIN desired /\ desired[f] = Field(r.row, f)
  BY <1>1 DEF Identity, Desired
<1>3. Primary(identity) = IF Field(r.row, f) = Nil THEN Empty ELSE Field(r.row, f)
  BY <1>1 DEF Identity, Primary
<1> HIDE DEF identity, desired, f
<1>4. i \in WithValue(match, r) <=> Present(Primary(identity))
  BY DEF WithValue, identity
<1>5. Present(Primary(identity)) <=> Present(desired[f])
  BY <1>2, <1>3 DEF Present
<1>6. Present(Primary(identity)) => Primary(identity) = desired[f]
  BY <1>2, <1>3 DEF Present
<1>7. QED BY <1>2, <1>4, <1>5, <1>6 DEF identity, desired, f

\* What the search for the identities of a row finds.  (_match_identity.)
LEMMA IdentifyIs ==
  ASSUME NEW match, DesiredIdentities(match), DOMAIN match.identity \subseteq Nat,
         NEW r, NEW cache
  PROVE  LET found == Identify(match, r, cache)
             desired == Desired(match, r.row)
         IN /\ found.status \in {"MATCHED", "NOT_FOUND"} =>
                  found.identity.primary \in DOMAIN desired
            /\ found.status = "NOT_FOUND" =>
                  /\ NamedBy(match, cache, desired, found.identity.primary) = {}
                  /\ \A i \in DOMAIN match.identity :
                        LET f == match.identity[i].primary
                        IN Present(desired[f]) => NamedBy(match, cache, desired, f) = {}
            /\ found.status = "MATCHED" =>
                  \A n \in NamedBy(match, cache, desired, found.identity.primary) :
                      cache[n] = found.existing
<1> DEFINE searched == Searched(match, r, cache)
           desired == Desired(match, r.row)
           found == Identify(match, r, cache)
           telling == {i \in DOMAIN searched : searched[i].hits # {}}
           places == IF telling # {} THEN telling ELSE DOMAIN searched
           first == Min(places)
           named(i) == NamedBy(match, cache, desired, match.identity[i].primary)
<1>1. /\ DOMAIN searched = WithValue(match, r)
      /\ DOMAIN searched \subseteq DOMAIN match.identity
  BY DEF Searched, WithValue
<1>2. ASSUME NEW i \in DOMAIN searched
      PROVE  /\ searched[i].identity = Identity(match.identity[i], r)
             /\ searched[i].identity.primary = match.identity[i].primary
             /\ searched[i].hits = named(i)
  <2>1. searched[i].identity = Identity(match.identity[i], r)
    BY <1>1 DEF Searched
  <2>2. i \in DOMAIN match.identity /\ i \in WithValue(match, r)
    BY <1>1
  <2>3. LET identity == Identity(match.identity[i], r)
        IN searched[i].hits = {n \in DOMAIN cache :
                                  Names(cache[n], identity.primary, Primary(identity),
                                        match.includeDeleted)}
    BY <1>1 DEF Searched
  <2>4. QED BY <2>1, <2>2, <2>3, IdentityValue DEF NamedBy
<1>3. found = IF DOMAIN searched = {} THEN [status |-> "MATCH_IDENTITY_MISSING"]
              ELSE Found(searched[first], cache)
  BY DEF Identify, FirstTelling
<1> HIDE DEF searched
<1>4. DOMAIN searched # {} => first \in places /\ first \in DOMAIN searched
  <2>1. places \subseteq DOMAIN searched /\ (DOMAIN searched # {} => places # {})
    OBVIOUS
  <2>2. places \subseteq Nat
    BY <1>1, <2>1, SMTT(60)
  <2> HIDE DEF places
  <2>3. QED BY <2>1, <2>2, MinIs
<1>5. found.status \in {"MATCHED", "NOT_FOUND"} =>
         /\ DOMAIN searched # {} /\ found = Found(searched[first], cache)
         /\ found.identity = searched[first].identity
         /\ found.status = "NOT_FOUND" => searched[first].hits = {}
         /\ found.status = "MATCHED" =>
               \E n \in searched[first].hits :
                   searched[first].hits = {n} /\ found.existing = cache[n]
  <2> DEFINE search == searched[first]
  <2>1. CASE DOMAIN searched = {}
    BY <1>3, <2>1
  <2>2. CASE DOMAIN searched # {} /\ search.hits = {}
    BY <1>3, <2>2 DEF Found
  <2>3. CASE DOMAIN searched # {} /\ \E n \in search.hits : search.hits = {n}
    <3>1. PICK n \in search.hits : search.hits = {n}
      BY <2>3
    <3>2. (CHOOSE m \in search.hits : TRUE) = n
      BY <3>1
    <3> HIDE DEF search
    <3>3. Found(search, cache) = [status |-> "MATCHED", identity |-> search.identity,
                                  existing |-> cache[n]]
      BY <3>1, <3>2, SMTT(60) DEF Found
    <3>4. QED BY <1>3, <2>3, <3>1, <3>3 DEF search
  <2>4. CASE /\ DOMAIN searched # {} /\ search.hits # {}
             /\ ~ \E n \in search.hits : search.hits = {n}
    <3> HIDE DEF search
    <3>1. Found(search, cache) = [status |-> "MATCH_CONFLICT_TARGET"]
      BY <2>4 DEF Found
    <3>2. QED BY <1>3, <2>4, <3>1 DEF search
  <2>5. QED BY <2>1, <2>2, <2>3, <2>4
<1> HIDE DEF found
<1>6. found.status \in {"MATCHED", "NOT_FOUND"} =>
         /\ first \in DOMAIN searched /\ first \in DOMAIN match.identity
         /\ found.identity.primary = match.identity[first].primary
         /\ found.identity.primary \in DOMAIN desired
  BY <1>1, <1>2, <1>4, <1>5, IdentityValue, SMTT(60)
<1>7. found.status = "NOT_FOUND" => \A i \in DOMAIN searched : searched[i].hits = {}
  BY <1>4, <1>5
<1>8. ASSUME found.status = "NOT_FOUND"
      PROVE  /\ NamedBy(match, cache, desired, found.identity.primary) = {}
             /\ \A i \in DOMAIN match.identity :
                   Present(desired[match.identity[i].primary]) => named(i) = {}
  <2>1. named(first) = {}
    BY <1>2, <1>6, <1>7, <1>8
  <2>2. \A i \in DOMAIN searched : named(i) = {}
    BY <1>2, <1>7, <1>8
  <2>3. \A i \in DOMAIN match.identity :
           Present(desired[match.identity[i].primary]) => i \in DOMAIN searched
    BY <1>1, IdentityValue
  <2>4. QED BY <1>6, <1>8, <2>1, <2>2, <2>3
<1>9. ASSUME found.status = "MATCHED",
             NEW n \in NamedBy(match, cache, desired, found.identity.primary)
      PROVE  cache[n] = found.existing
  <2>1. n \in searched[first].hits
    BY <1>2, <1>6, <1>9, SMTT(60)
  <2>2. PICK m \in searched[first].hits :
           searched[first].hits = {m} /\ found.existing = cache[m]
    BY <1>5, <1>9
  <2>3. n = m
    BY <2>1, <2>2
  <2>4. QED BY <2>2, <2>3
<1>10. QED BY <1>6, <1>8, <1>9 DEF found

\* A comparison that selects a node selects one of the candidates.
\* (compare_topology_candidates.)
LEMMA CompareSelects ==
  ASSUME NEW tree, NEW segments, NEW candidates, NEW ladder,
         Compare(tree, segments, candidates, ladder).mode
            \notin {"raises", "ambiguous", "no_match"}
  PROVE  \E c \in candidates : c \in Compare(tree, segments, candidates, ladder).matched
<1> DEFINE hit == {i \in DOMAIN ladder : Rung(tree, segments, candidates, ladder[i]) # {}}
           first == CHOOSE i \in hit : \A j \in hit : i <= j
           matched == Rung(tree, segments, candidates, ladder[first])
           verdict == Compare(tree, segments, candidates, ladder)
<1>1. /\ verdict = [mode |-> IF Cardinality(matched) = 1 THEN ladder[first] ELSE "ambiguous",
                    matched |-> matched]
      /\ Cardinality(matched) = 1
  BY DEF Compare, NoMatch
<1>2. matched # {}
  BY <1>1, FS_EmptySet
<1>3. matched \subseteq candidates
  BY DEF Rung
<1> HIDE DEF matched, verdict
<1>4. QED BY <1>1, <1>2, <1>3 DEF verdict

\* Topology turns a decision into another one, or leaves it: what it says is not found
\* was not found before, and of one candidate it can only choose that one.
\* (_refine_with_topology.)
LEMMA RefineIs ==
  ASSUME NEW policy, NEW status, NEW existing, NEW candidates, NEW locator, NEW tree
  PROVE  LET before == [status |-> status, existing |-> existing]
             after == Refine(policy, before, candidates, locator, tree)
         IN /\ after.status = "NOT_FOUND" => after = before
            /\ candidates = <<existing>> /\ after.status = "MATCHED"
                  => after.existing = existing
<1> DEFINE before == [status |-> status, existing |-> existing]
           after == Refine(policy, before, candidates, locator, tree)
           nodes == NodesOf(policy, candidates)
           verdict == Compare(tree, locator, Range(nodes), policy.ladder)
           chosen == {i \in DOMAIN nodes : nodes[i] \in verdict.matched}
<1>1. \/ after = before
      \/ after = [before EXCEPT !.status = "BOUNDARY"]
      \/ after = [before EXCEPT !.status = "AMBIGUOUS"]
      \/ after = [before EXCEPT !.status = "TOPOLOGY_SOURCE_PATH_EMPTY"]
      \/ /\ verdict.mode \notin {"raises", "ambiguous", "no_match"}
         /\ after = [before EXCEPT !.status = "MATCHED", !.existing = candidates[Min(chosen)]]
  <2> HIDE DEF nodes, verdict, before
  <2>1. \/ after = before
        \/ after = [before EXCEPT !.status = "TOPOLOGY_SOURCE_PATH_EMPTY"]
        \/ after = Settle(before, candidates, nodes, verdict)
    BY DEF Refine, Compared, nodes, verdict
  <2>2. QED BY <2>1 DEF Settle
<1>2. CASE /\ verdict.mode \notin {"raises", "ambiguous", "no_match"}
           /\ after = [before EXCEPT !.status = "MATCHED", !.existing = candidates[Min(chosen)]]
  <2>1. SUFFICES ASSUME candidates = <<existing>> PROVE candidates[Min(chosen)] = existing
    BY <1>2
  <2>2. DOMAIN nodes \subseteq {1}
    BY <2>1 DEF NodesOf
  <2>3. chosen # {}
    <3>1. PICK c \in Range(nodes) : c \in verdict.matched
      BY <1>2, CompareSelects
    <3>2. PICK i \in DOMAIN nodes : nodes[i] = c
      BY <3>1 DEF Range
    <3>3. QED BY <3>1, <3>2
  <2>4. chosen = {1}
    BY <2>2, <2>3
  <2> HIDE DEF chosen
  <2>5. Min(chosen) = 1
    BY <2>4, MinIs
  <2>6. QED BY <2>1, <2>5
<1>3. QED BY <1>1, <1>2

\* A row that is matched agrees with the cache it is matched on.  (MatchCore.match.)
LEMMA MatchDecides ==
  ASSUME NEW match, DesiredIdentities(match), DOMAIN match.identity \subseteq Nat,
         NEW r, IsResult(r), NEW cache, NEW locator, NEW tree,
         Match(match, r, cache, locator, tree).row # Nil
  PROVE  Decided(match, Match(match, r, cache, locator, tree).row, cache)
<1> DEFINE found == Identify(match, r, cache)
           desired == Desired(match, r.row)
           values == Values(match, r.row, desired, found.identity)
           decision == DecideMatch(match, found, cache, values, locator, tree)
           matched == Match(match, r, cache, locator, tree).row
<1>1. ASSUME NEW code PROVE FailMatch(r, code).row = Nil
  BY DEF FailMatch, IsResult
<1>2. /\ found.status \in {"MATCHED", "NOT_FOUND"}
      /\ decision.status \in {"MATCHED", "AMBIGUOUS", "NOT_FOUND"}
      /\ matched = [identity |-> found.identity, desired |-> desired,
                    fingerprint |-> Fingerprint(match, desired),
                    existing |-> decision.existing, status |-> decision.status,
                    targetId |-> Field(r.row, "target_id")]
  <2> HIDE DEF found, desired, decision
  <2>1. Match(match, r, cache, locator, tree) =
           IF found.status \notin {"MATCHED", "NOT_FOUND"} THEN FailMatch(r, found.status)
           ELSE MatchedRow(match, r, found, desired, decision)
    BY DEF Match, MatchIdentified, found, desired, decision
  <2>2. found.status \in {"MATCHED", "NOT_FOUND"}
    BY <1>1, <2>1
  <2>3. Match(match, r, cache, locator, tree) = MatchedRow(match, r, found, desired, decision)
    BY <2>1, <2>2
  <2>4. decision.status \in {"MATCHED", "AMBIGUOUS", "NOT_FOUND"}
    BY <1>1, <2>3 DEF MatchedRow
  <2>5. QED BY <2>2, <2>3, <2>4 DEF MatchedRow, IsResult
<1> HIDE DEF values
<1>3. decision.status = "NOT_FOUND" => found.status = "NOT_FOUND" /\ decision.existing = Nil
  <2>1. CASE found.status = "MATCHED"
    BY <2>1, RefineIs DEF DecideMatch
  <2>2. CASE found.status # "MATCHED" /\ match.fuzzy.enabled
    <3> DEFINE ranked == Ranked(match.fuzzy, Blocked(match, cache, values), values)
               fuzzy == Fuzzy(match.fuzzy, ranked)
               records == [i \in DOMAIN ranked |-> ranked[i].record]
    <3>1. decision = Refine(match.topology, fuzzy, records, locator, tree)
      BY <2>2 DEF DecideMatch, DecideFuzzy
    <3> HIDE DEF ranked, records
    <3>2. /\ fuzzy = [status |-> fuzzy.status, existing |-> fuzzy.existing]
          /\ fuzzy.status = "NOT_FOUND" => fuzzy.existing = Nil
      BY DEF Fuzzy
    <3> HIDE DEF fuzzy
    <3>3. decision.status = "NOT_FOUND" => decision = fuzzy
      BY <3>1, <3>2, RefineIs
    <3>4. QED BY <1>2, <2>2, <3>2, <3>3
  <2>3. CASE found.status # "MATCHED" /\ ~ match.fuzzy.enabled
    BY <1>2, <2>3 DEF DecideMatch
  <2>4. QED BY <2>1, <2>2, <2>3
<1>4. found.status = "MATCHED" /\ decision.status = "MATCHED"
         => decision.existing = found.existing
  BY RefineIs DEF DecideMatch
<1> HIDE DEF found, decision, desired, matched
<1>5. found.identity.primary \in DOMAIN desired
  BY <1>2, IdentifyIs DEF found, desired
<1>6. found.status = "NOT_FOUND" =>
         /\ NamedBy(match, cache, desired, found.identity.primary) = {}
         /\ \A i \in DOMAIN match.identity :
               LET f == match.identity[i].primary
               IN Present(desired[f]) => NamedBy(match, cache, desired, f) = {}
  BY IdentifyIs DEF found, desired
<1>7. found.status = "MATCHED" =>
         \A n \in NamedBy(match, cache, desired, found.identity.primary) :
             cache[n] = found.existing
  BY IdentifyIs DEF found, desired
<1>8. \A f : Present(Field(desired, f)) => Field(desired, f) = desired[f]
  BY DEF Field, Present
<1>9. matched.status = "NOT_FOUND" =>
         /\ matched.existing = Nil
         /\ \A i \in DOMAIN match.identity :
               LET f == match.identity[i].primary
               IN Present(Field(desired, f)) => NamedBy(match, cache, desired, f) = {}
  BY <1>2, <1>3, <1>6, <1>8
<1>10. matched.status = "MATCHED" =>
          \A n \in NamedBy(match, cache, desired, found.identity.primary) :
              cache[n] = matched.existing
  BY <1>2, <1>4, <1>6, <1>7
<1>11. Decided(match, matched, cache)
  BY <1>2, <1>5, <1>9, <1>10 DEF Decided
<1>12. QED BY <1>11 DEF matched

\* What resolve plans for a matched row agrees with the cache it was matched on: a
\* creation plans the desired state as it is, an update keeps the values of the
\* desired state whatever is merged, and has the id of what was found.
LEMMA ResolveAgrees ==
  ASSUME NEW match, NEW r, IsResult(r), NEW cache, Decided(match, r.row, cache),
         Resolve(match, r).row # Nil
  PROVE  ItemAgrees(match, Resolve(match, r).row, cache)
<1> DEFINE matched == r.row
           desired == Merge(match, matched)
           changes == Changes(match, matched, desired)
           op == Op(matched, changes)
           planned == Resolve(match, r).row
<1>1. ASSUME NEW errors PROVE [r EXCEPT !.row = Nil, !.errors = errors].row = Nil
  BY DEF IsResult
<1>2. ASSUME NEW row PROVE [r EXCEPT !.row = row, !.errors = {}].row = row
  BY DEF IsResult
<1>3. /\ matched.status # "AMBIGUOUS" /\ TargetId(matched) # Nil
      /\ planned = ResolvedRow(match, matched, desired, changes, op)
  <2> HIDE DEF desired, changes, op
  <2>1. matched.status # "AMBIGUOUS"
    BY <1>1 DEF Resolve
  <2>2. Resolve(match, r) = ResolveMerged(match, r, matched, desired, changes)
    BY <2>1 DEF Resolve, ResolveDesired, desired, changes
  <2>3. TargetId(matched) # Nil
    BY <1>1, <2>2 DEF ResolveMerged
  <2>4. Resolve(match, r) =
           [r EXCEPT !.row = ResolvedRow(match, matched, desired, changes, op), !.errors = {}]
    <3>1. SinkIssues(desired, match.sink, DOMAIN desired \ DOMAIN matched.desired) = {}
      BY <1>1, <2>2 DEF ResolveMerged
    <3>2. QED BY <2>2, <2>3, <3>1 DEF ResolveMerged, op
  <2>5. QED BY <1>2, <2>1, <2>3, <2>4
<1>4. /\ planned.identity = matched.identity /\ planned.op = op
      /\ planned.desired = desired /\ planned.targetId = TargetId(matched)
  BY <1>3 DEF ResolvedRow
<1> HIDE DEF planned, desired, changes, op
<1>5. ASSUME op = "create" PROVE ItemAgrees(match, planned, cache)
  <2>1. matched.status = "NOT_FOUND"
    BY <1>5 DEF Op, op
  <2>2. desired = matched.desired
    BY <2>1 DEF Decided, Merge, desired
  <2>3. QED BY <1>4, <1>5, <2>1, <2>2 DEF Decided, ItemAgrees
<1>6. ASSUME op = "update" PROVE ItemAgrees(match, planned, cache)
  <2>1. matched.status = "MATCHED"
    BY <1>3, <1>6 DEF Op, op, Decided
  <2> DEFINE f == matched.identity.primary
  <2>2. f \in DOMAIN matched.desired
    BY DEF Decided
  <2>3. desired[f] = matched.desired[f]
    BY <2>2 DEF desired, Merge, Restore
  <2>4. \A n \in NamedBy(match, cache, matched.desired, f) : cache[n] = matched.existing
    BY <2>1 DEF Decided
  <2>5. matched.existing.row["_id"] = TargetId(matched)
    BY <1>3, <2>1 DEF TargetId, Field
  <2>6. NamedBy(match, cache, desired, f) = NamedBy(match, cache, matched.desired, f)
    BY <2>3 DEF NamedBy
  <2>7. QED BY <1>4, <1>6, <2>4, <2>5, <2>6 DEF ItemAgrees
<1>7. ASSUME op \notin {"create", "update"} PROVE ItemAgrees(match, planned, cache)
  BY <1>4, <1>7 DEF ItemAgrees
<1>8. ItemAgrees(match, planned, cache)
  BY <1>5, <1>6, <1>7
<1>9. QED BY <1>8 DEF planned

\* The line a plan item carries says nothing of the cache.
LEMMA LineAgrees ==
  ASSUME NEW match, NEW row, NEW line, NEW cache, ItemAgrees(match, row, cache),
         {"op", "desired", "identity", "targetId"} \subseteq DOMAIN row
  PROVE  ItemAgrees(match, Put(row, "line", line), cache)
<1>1. LET item == Put(row, "line", line)
      IN /\ item.op = row.op /\ item.desired = row.desired
         /\ item.identity = row.identity /\ item.targetId = row.targetId
  BY DEF Put
<1>2. QED BY <1>1 DEF ItemAgrees

\* A matched row agrees with the one state of the cache the run reads.
LEMMA MatchRowAgrees ==
  ASSUME IdentitiesAreDesired, RowInv, AgreeInv, MatchRow
  PROVE  AgreeInv'
<1>1. /\ phase = "pull" /\ batch # << >>
      /\ UNCHANGED <<world, fetched, resolving, plan>>
      /\ conf' = conf /\ tables' = tables
  BY DEF MatchRow, world, conf, tables
<1> DEFINE item == Head(batch)
<1>2. IsSeq(context) /\ Len(context) \in Nat /\ IsResult(item)
  BY <1>1, TailIs, SeqIs DEF RowInv, Held
<1>3. DesiredIdentities(conf.match) /\ DOMAIN conf.match.identity \subseteq Nat
  BY RowPipelineAssumption DEF IdentitiesAreDesired, RowInv, Started, conf
<1>4. /\ snapshot \in 0 .. revision /\ revision \in Nat \ {0}
      /\ reads = (IF snapshot = 0 THEN {} ELSE {snapshot})
  BY <1>1 DEF RowInv, Views
<1>5. PICK result :
        /\ context' = Append(context, result)
        /\ reads = {} \/ reads' = reads
        /\ result.row # Nil => \E v \in reads' : /\ reads' = {v}
                                                 /\ Decided(conf.match, result.row, tables[v])
  <2>1. CASE item.row = Nil
    BY <2>1 DEF MatchRow, Pass
  <2>2. CASE item.row # Nil
    <3> DEFINE matched == Match(conf.match, item, tables[View], Locator(item.line), conf.snapshot)
               key == DedupKey(matched.row)
    <3>1. /\ ReadSnapshot
          /\ Pass(matched) \/ (matched.row # Nil /\ Pass(DropRepeated(matched, key)))
      BY <2>2 DEF MatchRow
    <3>2. IsResult(matched)
      BY <1>2, MatchRewrites DEF Rewritten, Worked
    <3>3. matched.row # Nil => Decided(conf.match, matched.row, tables[View])
      BY <1>2, <1>3, MatchDecides
    <3> HIDE DEF matched, item
    <3>4. reads' = {View} /\ (reads = {} \/ reads' = reads)
      BY <1>4, <3>1 DEF ReadSnapshot, View
    <3>5. CASE Pass(matched)
      BY <3>3, <3>4, <3>5 DEF Pass
    <3>6. CASE matched.row # Nil /\ Pass(DropRepeated(matched, key))
      <4>1. DropRepeated(matched, key).row \in {Nil, matched.row}
        BY <3>2, DropRepeatedDrops
      <4>2. QED BY <3>3, <3>4, <3>6, <4>1 DEF Pass
    <3>7. QED BY <3>1, <3>5, <3>6
  <2>3. QED BY <2>1, <2>2, SMTT(60)
<1>6. /\ Len(context') = Len(context) + 1
      /\ \A i \in 1 .. Len(context) : context'[i] = context[i]
      /\ context'[Len(context) + 1] = result
  BY <1>2, <1>5, AppendIs
<1>7. ASSUME NEW i \in 1 .. Len(context'), context'[i].row # Nil
      PROVE  \E v \in reads' : /\ reads' = {v}
                               /\ Decided(conf.match, context'[i].row, tables[v])
  <2>1. CASE i \in 1 .. Len(context)
    BY <1>5, <1>6, <1>7, <2>1 DEF AgreeInv
  <2>2. CASE i = Len(context) + 1
    BY <1>5, <1>6, <1>7, <2>2
  <2>3. QED BY <1>2, <1>6, <2>1, <2>2
<1>8. \A i \in 1 .. Len(plan'.items) : FALSE
  BY <1>1, NothingPlanned
<1>9. QED BY <1>1, <1>7, <1>8 DEF AgreeInv

\* An item that is added agrees with it too.
LEMMA ResolveRowAgrees == ASSUME RowInv, AgreeInv, ResolveRow PROVE AgreeInv'
<1> DEFINE n == Resolved + 1
           head == Head(resolving)
<1>1. /\ phase = "resolve" /\ resolving # << >> /\ UNCHANGED <<context, reads>>
      /\ conf' = conf /\ tables' = tables
  BY DEF ResolveRow, world, rows, conf, tables
<1>2. IsSeq(plan.items) /\ Len(plan.items) \in Nat /\ DOMAIN plan = Counters \cup {"items"}
  BY SeqIs DEF RowInv, Planned, Counted
<1>3. n \in 1 .. Len(context) /\ head = context[n] /\ IsResult(head)
  <2>1. /\ Len(resolving) \in Nat \ {0} /\ head = resolving[1]
        /\ fetched \in Nat /\ Len(resolving) <= fetched /\ fetched <= Len(context)
        /\ resolving[1] = context[Resolved + 1] /\ Len(context) \in Nat
    BY <1>1, TailIs, SeqIs DEF RowInv, Phases, Held, Resolved
  <2>2. n \in 1 .. Len(context)
    BY <2>1 DEF Resolved
  <2>3. QED BY <2>1, <2>2 DEF RowInv, Held
<1>4. PICK result :
        /\ plan' = Add(result)
        /\ result.row # Nil =>
              /\ {"op", "desired", "identity", "targetId"} \subseteq DOMAIN result.row
              /\ \E v \in reads : reads = {v} /\ ItemAgrees(conf.match, result.row, tables[v])
  <2>1. PICK result : /\ plan' = Add(result)
                      /\ \/ head.row = Nil /\ result = head
                         \/ head.row # Nil /\ result = Resolve(conf.match, head)
    BY DEF ResolveRow
  <2>2. head.row # Nil => \E v \in reads : /\ reads = {v}
                                           /\ Decided(conf.match, head.row, tables[v])
    BY <1>3 DEF AgreeInv
  <2> HIDE DEF head
  <2>3. QED BY <1>3, <2>1, <2>2, ResolveAgrees, ResolveKeepsIdentity
<1> DEFINE item == Put(result.row, "line", result.line)
<1>5. result.row # Nil =>
         \E v \in reads : reads = {v} /\ ItemAgrees(conf.match, item, tables[v])
  BY <1>4, LineAgrees
<1>6. \/ plan'.items = plan.items
      \/ result.row # Nil /\ plan'.items = Append(plan.items, item)
  BY <1>2, <1>4 DEF Add
<1> HIDE DEF item
<1>7. ASSUME NEW i \in 1 .. Len(plan'.items)
      PROVE  \E v \in reads : reads = {v} /\ ItemAgrees(conf.match, plan'.items[i], tables[v])
  <2>1. CASE plan'.items = plan.items
    BY <2>1 DEF AgreeInv
  <2>2. CASE result.row # Nil /\ plan'.items = Append(plan.items, item)
    <3>1. /\ Len(plan'.items) = Len(plan.items) + 1
          /\ \A k \in 1 .. Len(plan.items) : plan'.items[k] = plan.items[k]
          /\ plan'.items[Len(plan.items) + 1] = item
      BY <1>2, <2>2, AppendIs
    <3>2. CASE i \in 1 .. Len(plan.items)
      BY <3>1, <3>2 DEF AgreeInv
    <3>3. CASE i = Len(plan.items) + 1
      BY <1>5, <2>2, <3>1, <3>3
    <3>4. QED BY <1>2, <3>1, <3>2, <3>3
  <2>3. QED BY <1>6, <2>1, <2>2
<1>8. QED BY <1>1, <1>7 DEF AgreeInv

\* Every other step leaves the rows and the plan alone and reads the cache, if at all,
\* at the revision the run has read before.
LEMMA OthersAgree ==
  ASSUME RowInv, AgreeInv, UNCHANGED <<config, history, context, plan>>,
         \/ reads' = reads
         \/ phase = "pull" /\ ReadSnapshot
  PROVE  AgreeInv'
<1>1. conf' = conf /\ tables' = tables
  BY DEF conf, tables
<1>2. reads = {} \/ reads' = reads
  <2>1. phase = "pull" => /\ snapshot \in 0 .. revision /\ revision \in Nat
                          /\ reads = (IF snapshot = 0 THEN {} ELSE {snapshot})
    BY DEF RowInv, Views
  <2>2. QED BY <2>1 DEF ReadSnapshot, View
<1>3. \A v \in reads : reads' = reads
  BY <1>2
<1>4. QED BY <1>1, <1>3 DEF AgreeInv

\* Under rules of identities by fields of the desired state, the plan agrees with the
\* cache it was decided on.  (_match_identity, _decide_op.)
THEOREM PlanAgreesWithCacheCorrect ==
  ASSUME IdentitiesAreDesired
  PROVE  Spec => []PlanAgreesWithCache
<1>1. Init => AgreeInv
  BY ShortSeqs DEF Init, AgreeInv, EmptyPlan
<1>2. RowInv /\ AgreeInv /\ [Next]_vars => AgreeInv'
  <2> SUFFICES ASSUME RowInv, AgreeInv, [Next]_vars PROVE AgreeInv'
    OBVIOUS
  <2>1. CASE MatchRow
    BY <2>1, MatchRowAgrees
  <2>2. CASE ResolveRow
    BY <2>2, ResolveRowAgrees
  <2>3. CASE PullRow
    <3>1. /\ UNCHANGED <<config, history, context, plan>>
          /\ reads' = reads \/ (phase = "pull" /\ ReadSnapshot)
      BY <2>3 DEF PullRow, world
    <3>2. QED BY <3>1, OthersAgree
  <2>4. CASE \/ EndOfSource \/ BuildContext \/ Fetch \/ Commit \/ Finish \/ Refresh
             \/ ReplaceFile \/ UNCHANGED vars
    <3>1. UNCHANGED <<config, history, context, plan, reads>>
      BY <2>4 DEF EndOfSource, BuildContext, Fetch, Commit, Finish, Refresh, ReplaceFile,
                  vars, world, rows
    <3>2. QED BY <3>1, OthersAgree
  <2>5. QED BY <2>1, <2>2, <2>3, <2>4 DEF Next, Step, Over
<1>3. RowInv /\ AgreeInv => PlanAgreesWithCache
  <2> SUFFICES ASSUME RowInv, AgreeInv, NEW i \in DOMAIN plan.items
               PROVE  LET item == plan.items[i]
                      IN /\ item.op = "create" =>
                              \A r \in ToSet(conf.match.identity) :
                                  Present(Field(item.desired, r.primary)) =>
                                      Holders(item, r.primary) = {}
                         /\ item.op = "update" =>
                              \A record \in Holders(item, item.identity.primary) :
                                  record.row["_id"] = item.targetId
    BY DEF PlanAgreesWithCache
  <2> DEFINE item == plan.items[i]
  <2>1. i \in 1 .. Len(plan.items)
    BY SeqIs DEF RowInv, Planned
  <2>2. PICK v \in reads : reads = {v} /\ ItemAgrees(conf.match, item, tables[v])
    BY <2>1 DEF AgreeInv
  <2>3. Max(reads) = v
    <3>1. v \in Nat
      BY <2>2 DEF RowInv, Views
    <3>2. QED BY <2>2, <3>1 DEF Max
  <2>4. \A f : \A record \in Holders(item, f) :
           \E n \in NamedBy(conf.match, tables[v], item.desired, f) : tables[v][n] = record
    BY <2>3 DEF Holders, NamedBy, Names, ToSet
  <2> HIDE DEF item
  <2>5. item.op = "create" =>
           \A r \in ToSet(conf.match.identity) :
               Present(Field(item.desired, r.primary)) => Holders(item, r.primary) = {}
    BY <2>2, <2>4 DEF ItemAgrees, ToSet
  <2>6. item.op = "update" =>
           \A record \in Holders(item, item.identity.primary) :
               record.row["_id"] = item.targetId
    BY <2>2, <2>4 DEF ItemAgrees
  <2>7. QED BY <2>5, <2>6 DEF item
<1>4. QED BY RowInvCorrect, <1>1, <1>2, <1>3, PTL DEF Spec

-----------------------------------------------------------------------------
(* What is looked up                                                        *)

\* A chain of no operations leaves the value.  (TransformationEngine.apply.)
LEMMA NoOps == ASSUME NEW v PROVE ApplyOps(v, << >>) = [value |-> v, failed |-> FALSE]
<1> DEFINE base == [value |-> v, failed |-> FALSE]
           step(op, done) == IF done.failed \/ done.value \notin DOMAIN op THEN done
                             ELSE IF op[done.value] = Fails THEN [done EXCEPT !.failed = TRUE]
                             ELSE [done EXCEPT !.value = op[done.value]]
           iter[s \in SUBSET DOMAIN << >>] ==
              IF s = {} THEN base ELSE step(<< >>[Max(s)], iter[s \ {Max(s)}])
<1>1. ApplyOps(v, << >>) = iter[DOMAIN << >>]
  BY DEF ApplyOps, FoldLeft, MapThenFoldSet
<1>2. DOMAIN << >> = {}
  OBVIOUS
<1> HIDE DEF step, base
<1>3. iter = [s \in SUBSET {} |-> base]
  <2>1. \E g : g = [s \in SUBSET DOMAIN << >> |->
                     IF s = {} THEN base ELSE step(<< >>[Max(s)], g[s \ {Max(s)}])]
    <3> DEFINE g == [s \in SUBSET {} |-> base]
    <3>1. g = [s \in SUBSET DOMAIN << >> |->
                 IF s = {} THEN base ELSE step(<< >>[Max(s)], g[s \ {Max(s)}])]
      BY <1>2
    <3>2. QED BY <3>1
  <2>2. iter = [s \in SUBSET DOMAIN << >> |->
                  IF s = {} THEN base ELSE step(<< >>[Max(s)], iter[s \ {Max(s)}])]
    BY <2>1
  <2> HIDE DEF iter
  <2>3. QED BY <1>2, <2>2
<1>4. QED BY <1>1, <1>2, <1>3 DEF base

\* Every row that is kept is one of the rows, under one of the numbers.
LEMMA RowsAtAre ==
  ASSUME NEW all, Len(all) \in Nat, NEW I
  PROVE  /\ IsSeq(RowsAt(all, I))
         /\ \A j \in 1 .. Len(RowsAt(all, I)) :
               \E i \in I \cap (1 .. Len(all)) : RowsAt(all, I)[j] = all[i]
<1> DEFINE N == Len(all)
           next(s, k) == IF k \in I THEN Append(s, all[k]) ELSE s
           IsDone(f, m) == f = [k \in 0 .. m |-> IF k = 0 THEN << >> ELSE next(f[k - 1], k)]
           Good(s) == /\ IsSeq(s)
                      /\ \A j \in 1 .. Len(s) : \E i \in I \cap (1 .. N) : s[j] = all[i]
<1>1. \E f : IsDone(f, N) /\ RowsAt(all, I) = f[N]
  <2> DEFINE done[k \in 0 .. N] == IF k = 0 THEN << >> ELSE next(done[k - 1], k)
  <2>1. RowsAt(all, I) = done[N]
    BY DEF RowsAt
  <2> HIDE DEF next
  <2>2. \A m \in Nat : \E f : IsDone(f, m)
    <3> DEFINE P == {m \in Nat : \E f : IsDone(f, m)}
    <3>1. 0 \in P
      <4>1. IsDone([k \in 0 .. 0 |-> << >>], 0)
        OBVIOUS
      <4>2. QED BY <4>1
    <3>2. ASSUME NEW m \in P PROVE m + 1 \in P
      <4>1. PICK f : IsDone(f, m)
        OBVIOUS
      <4> DEFINE g == [k \in 0 .. m + 1 |-> IF k <= m THEN f[k] ELSE next(f[m], m + 1)]
      <4>2. ASSUME NEW k \in 0 .. m + 1
            PROVE  g[k] = IF k = 0 THEN << >> ELSE next(g[k - 1], k)
        <5>1. CASE k <= m
          BY <4>1, <5>1
        <5>2. CASE k = m + 1
          BY <5>2
        <5>3. QED BY <5>1, <5>2
      <4>3. IsDone(g, m + 1)
        BY <4>2, SMTT(60)
      <4>4. m + 1 \in Nat
        OBVIOUS
      <4> HIDE DEF g, IsDone
      <4>5. QED BY <4>3, <4>4
    <3>3. P \in SUBSET Nat
      OBVIOUS
    <3> HIDE DEF P
    <3>4. P = Nat
      BY <3>1, <3>2, <3>3, AllNumbers
    <3>5. QED BY <3>4 DEF P
  <2>3. IsDone(done, N)
    BY <2>2
  <2> HIDE DEF done, IsDone
  <2>4. QED BY <2>1, <2>3
<1>2. PICK f : IsDone(f, N) /\ RowsAt(all, I) = f[N]
  BY <1>1
<1> DEFINE P == {k \in Nat : k <= N => Good(f[k])}
<1>3. 0 \in P
  BY <1>2, ShortSeqs
<1>4. ASSUME NEW k \in P PROVE k + 1 \in P
  <2>1. SUFFICES ASSUME k + 1 <= N PROVE Good(f[k + 1])
    OBVIOUS
  <2>2. Good(f[k]) /\ f[k + 1] = next(f[k], k + 1) /\ k + 1 \in 1 .. N
    <3>1. k \in Nat /\ (k <= N => Good(f[k]))
      OBVIOUS
    <3>2. k + 1 \in 0 .. N /\ k <= N /\ k + 1 # 0 /\ (k + 1) - 1 = k /\ k + 1 \in 1 .. N
      BY <2>1, <3>1
    <3> HIDE DEF Good, next
    <3>3. f[k + 1] = next(f[(k + 1) - 1], k + 1)
      BY <1>2, <3>2
    <3>4. QED BY <3>1, <3>2, <3>3
  <2>3. CASE k + 1 \notin I
    BY <2>2, <2>3
  <2>4. CASE k + 1 \in I
    <3> DEFINE s == f[k]
    <3>1. f[k + 1] = Append(s, all[k + 1]) /\ k + 1 \in I \cap (1 .. N)
      BY <2>2, <2>4
    <3>2. IsSeq(s) /\ \A j \in 1 .. Len(s) : \E i \in I \cap (1 .. N) : s[j] = all[i]
      BY <2>2
    <3> HIDE DEF s
    <3>3. /\ IsSeq(Append(s, all[k + 1])) /\ Len(Append(s, all[k + 1])) = Len(s) + 1
          /\ \A j \in 1 .. Len(s) : Append(s, all[k + 1])[j] = s[j]
          /\ Append(s, all[k + 1])[Len(s) + 1] = all[k + 1] /\ Len(s) \in Nat
      BY <3>2, AppendIs, SeqIs
    <3>4. ASSUME NEW j \in 1 .. Len(s) + 1
          PROVE  \E i \in I \cap (1 .. N) : Append(s, all[k + 1])[j] = all[i]
      <4>1. CASE j \in 1 .. Len(s)
        BY <3>2, <3>3, <4>1
      <4>2. CASE j = Len(s) + 1
        BY <3>1, <3>3, <4>2
      <4>3. QED BY <3>3, <4>1, <4>2
    <3>5. QED BY <3>1, <3>3, <3>4
  <2>5. QED BY <2>3, <2>4
<1>5. P \in SUBSET Nat
  OBVIOUS
<1> HIDE DEF P
<1>6. P = Nat
  BY <1>3, <1>4, <1>5, AllNumbers
<1>7. Good(f[N])
  BY <1>6, SMTT(60) DEF P
<1>8. QED BY <1>2, <1>7

\* A line of a dictionary that answers the lookup of a rule for a row with a value.
Answers(c, row, r, v) ==
    \E line \in ToSet(c.manifest[r.provider].content) :
        /\ line[r.path] = v
        /\ NormalKey(c.specs[r.provider], line[c.specs[r.provider].key])
              = NormalKey(c.specs[r.provider], Field(row, r.build.from[1]))

\* What a lookup finds in a dictionary, if the dictionary holds what the manifest says
\* or cannot be loaded.  (PolarsDictionaryBackend.lookup, _DslLookupProvider.fetch.)
LEMMA LookupAnswers ==
  ASSUME NEW c, NEW r, LooksUp(c, r), r.provider # "sink_cache", Len(r.build.from) = 1,
         r.limit \in Nat, Len(c.manifest[r.provider].content) \in Nat,
         NEW t, t.specs = c.specs,
         t.dictionaries[r.provider] \in {Fails, c.manifest[r.provider].content},
         NEW s, Lookup(s, r, t) \notin {Fails, << >>}
  PROVE  Answers(c, s.row, r, Lookup(s, r, t)[1])
<1> DEFINE v == Field(s.row, r.build.from[1])
           spec == c.specs[r.provider]
           content == c.manifest[r.provider].content
           I == {i \in DOMAIN content : NormalKey(spec, content[i][spec.key]) = NormalKey(spec, v)}
           hits == RowsAt(content, I)
           found == AtMost(r.limit, hits)
           J == {i \in DOMAIN found : Field(found[i], r.path) # Nil}
           told == RowsAt(found, J)
<1>1. KeyOf(s, r) = [value |-> v, failed |-> FALSE]
  <2>1. Read(s.row, r.build.from) = v
    BY DEF Read
  <2>2. r.build.ops = << >>
    BY DEF LooksUp
  <2>3. QED BY <2>1, <2>2, NoOps DEF KeyOf
<1>2. Lookup(s, r, t) = [i \in DOMAIN told |-> told[i][r.path]]
  <2> DEFINE under == RowsUnder(t.specs, t.dictionaries, r.provider, v, r.limit)
  <2>1. Lookup(s, r, t) = IF under = Fails THEN Fails ELSE ValuesAt(r.path, under)
    <3> HIDE DEF v
    <3>1. FoundUnder(r, [value |-> v, failed |-> FALSE], t) \in {Fails, << >>,
             IF under = Fails THEN Fails ELSE ValuesAt(r.path, under)}
      BY SMTT(60) DEF FoundUnder, Provided
    <3>2. QED BY <1>1, <3>1 DEF Lookup
  <2>2. under # Fails => under = found
    <3>1. r.provider \in DOMAIN c.specs
      BY DEF LooksUp
    <3>2. under # Fails => /\ t.dictionaries[r.provider] = content
                           /\ under = AtMost(r.limit, Hits(spec, content, v))
      BY <3>1 DEF RowsUnder
    <3>3. QED BY <3>2 DEF Hits
  <2> HIDE DEF under, found
  <2>3. Lookup(s, r, t) = ValuesAt(r.path, found)
    BY <2>1, <2>2
  <2>4. QED BY <2>3 DEF ValuesAt
<1> HIDE DEF v, I, J
<1>3. /\ IsSeq(hits) /\ Len(hits) \in Nat
      /\ \A j \in 1 .. Len(hits) : \E i \in I : hits[j] = content[i]
  BY RowsAtAre, SeqIs, SMTT(60)
<1> HIDE DEF hits
<1>4. /\ IsSeq(found) /\ Len(found) \in Nat
      /\ \A j \in 1 .. Len(found) : \E i \in I : found[j] = content[i]
  <2> DEFINE n == IF r.limit = 0 \/ r.limit > Len(hits) THEN Len(hits) ELSE r.limit
  <2>1. n \in Nat /\ n <= Len(hits) /\ 0 + n <= Len(hits) /\ 0 \in Nat /\ 0 + 1 = 1 /\ 0 + n = n
    BY <1>3
  <2>2. found = SubSeq(hits, 1, n)
    BY DEF AtMost
  <2> HIDE DEF n, found
  <2>3. /\ IsSeq(SubSeq(hits, 0 + 1, 0 + n)) /\ Len(SubSeq(hits, 0 + 1, 0 + n)) = n
        /\ \A i \in 1 .. n : SubSeq(hits, 0 + 1, 0 + n)[i] = hits[0 + i]
    BY ONLY <1>3, <2>1, StretchIs
  <2>4. /\ IsSeq(found) /\ Len(found) = n /\ \A i \in 1 .. n : found[i] = hits[i]
    BY <2>1, <2>2, <2>3
  <2>5. QED BY <1>3, <2>1, <2>4, SMTT(60)
<1> HIDE DEF found
<1>5. /\ IsSeq(told) /\ DOMAIN told = 1 .. Len(told) /\ Len(told) \in Nat
      /\ \A j \in 1 .. Len(told) : \E i \in 1 .. Len(found) : told[j] = found[i]
  BY <1>4, RowsAtAre, SeqIs
<1> HIDE DEF told
<1>6. Len(told) # 0
  <2>1. SUFFICES ASSUME Len(told) = 0 PROVE Lookup(s, r, t) = << >>
    OBVIOUS
  <2>2. told = << >>
    BY <1>5, <2>1, ShortSeqs
  <2>3. QED BY <1>2, <2>2
<1>7. PICK i \in I : told[1] = content[i]
  BY <1>4, <1>5, <1>6
<1>8. Lookup(s, r, t)[1] = content[i][r.path]
  BY <1>2, <1>5, <1>6, <1>7, SMTT(60)
<1>9. content[i] \in ToSet(content) /\ NormalKey(spec, content[i][spec.key]) = NormalKey(spec, v)
  BY DEF I, ToSet
<1>10. QED BY <1>8, <1>9 DEF Answers, v

\* A value that is looked up is an answer to the row's own key.
Pinned(c, row, r) ==
    Present(Field(row, r.target)) => Answers(c, row, r, Field(row, r.target))

\* What a rule must be for its value to stay an answer: no operation writes the field
\* it looks up by, and no other one writes its target.
StandsAlone(c, n) ==
    LET r == c.enrich[n]
    IN /\ LooksUp(c, r) /\ r.provider # "sink_cache" /\ ~ r.secret
       /\ Len(r.build.from) = 1 /\ r.limit \in Nat
       /\ Len(c.manifest[r.provider].content) \in Nat
       /\ \A m \in DOMAIN c.enrich :
             /\ c.enrich[m].target # r.build.from[1]
             /\ m # n => c.enrich[m].target # r.target

\* A row under enrichment: the value is pinned, the key is no secret.
Carries(c, s, n) ==
    /\ Pinned(c, s.row, c.enrich[n])
    /\ c.enrich[n].build.from[1] \notin DOMAIN s.secrets

\* An operation keeps a lookup's value an answer, whichever of the operations it is.
\* (_execute_operation, _apply_candidates.)
LEMMA ExecuteKeepsPinned ==
  ASSUME NEW c, NEW n \in DOMAIN c.enrich, StandsAlone(c, n), NEW m \in DOMAIN c.enrich,
         NEW t, t.specs = c.specs,
         LET p == c.enrich[n].provider
         IN t.dictionaries[p] \in {Fails, c.manifest[p].content},
         NEW s, IsResult(s), Carries(c, s, n)
  PROVE  Carries(c, Execute(s, c.enrich[m], c, t), n)
<1> DEFINE r == c.enrich[n]
           q == c.enrich[m]
           f == r.build.from[1]
           asked == Ask(s, q)
           candidates == IF q.kind = "lookup" THEN Lookup(s, q, t)
                         ELSE Generate(s, q, t.sink_cache)
           after == Weigh(asked, q, c, candidates)
<1>1. q.target # f /\ r.target # f /\ (m # n => q.target # r.target)
  BY DEF StandsAlone
<1>2. IsResult(asked) /\ asked.row = s.row /\ asked.secrets = s.secrets
  BY DEF Ask, IsResult
<1>3. Execute(s, q, c, t) = s \/ Execute(s, q, c, t) = after
  BY DEF Execute
<1> HIDE DEF asked, candidates
<1>4. \/ after.row = s.row /\ after.secrets = s.secrets
      \/ after.row = s.row /\ after.secrets = Put(s.secrets, q.target, candidates[1])
      \/ /\ after.row = Put(s.row, q.target, candidates[1]) /\ after.secrets = s.secrets
         /\ candidates \notin {Fails, << >>}
  <2>1. ASSUME NEW outcome, NEW code
        PROVE  /\ ByPolicy(asked, q, outcome, code).row = s.row
               /\ ByPolicy(asked, q, outcome, code).secrets = s.secrets
    BY <1>2 DEF ByPolicy, IsResult
  <2>2. \/ \E outcome, code : after = ByPolicy(asked, q, outcome, code)
        \/ /\ after = Apply(asked, q, c, candidates[1])
           /\ candidates \notin {Fails, << >>}
    BY DEF Weigh, Decide
  <2>3. \/ \E outcome, code :
              Apply(asked, q, c, candidates[1]) = ByPolicy(asked, q, outcome, code)
        \/ Apply(asked, q, c, candidates[1]) = asked
        \/ Apply(asked, q, c, candidates[1])
              = [asked EXCEPT !.secrets = Put(@, q.target, candidates[1])]
        \/ Apply(asked, q, c, candidates[1])
              = [asked EXCEPT !.row = Put(@, q.target, candidates[1])]
    BY DEF Apply
  <2> HIDE DEF after
  <2>4. QED BY <1>2, <2>1, <2>2, <2>3 DEF IsResult
<1>5. \A row, v : /\ Field(Put(row, q.target, v), f) = Field(row, f)
                  /\ m # n => Field(Put(row, q.target, v), r.target) = Field(row, r.target)
                  /\ m = n => Field(Put(row, q.target, v), r.target) = v
  BY <1>1 DEF Put, Field
<1>6. f \notin DOMAIN after.secrets
  BY <1>1, <1>4 DEF Carries, Put
<1>7. Pinned(c, after.row, r)
  <2>1. CASE after.row = s.row
    BY <2>1, SMTT(60) DEF Carries
  <2>2. CASE after.row = Put(s.row, q.target, candidates[1]) /\ m # n
    <3> HIDE DEF after
    <3>1. Field(after.row, f) = Field(s.row, f) /\ Field(after.row, r.target) = Field(s.row, r.target)
      BY <1>5, <2>2, SMTT(60)
    <3>2. QED BY <3>1 DEF Carries, Pinned, Answers
  <2>3. CASE /\ after.row = Put(s.row, q.target, candidates[1]) /\ m = n
             /\ candidates \notin {Fails, << >>}
    <3> HIDE DEF after
    <3>1. Field(after.row, f) = Field(s.row, f) /\ Field(after.row, r.target) = candidates[1]
      BY <1>5, <2>3
    <3>2. candidates = Lookup(s, r, t)
      BY <2>3 DEF candidates, StandsAlone, LooksUp
    <3>3. Answers(c, s.row, r, candidates[1])
      BY <2>3, <3>2, LookupAnswers DEF StandsAlone
    <3>4. QED BY <3>1, <3>3 DEF Pinned, Answers
  <2>4. QED BY <1>4, <2>1, <2>2, <2>3
<1>8. QED BY <1>3, <1>6, <1>7 DEF Carries

\* All operations, one after the other.
LEMMA ExecuteAllKeepsPinned ==
  ASSUME NEW c, Len(c.enrich) \in Nat, DOMAIN c.enrich = 1 .. Len(c.enrich),
         NEW n \in DOMAIN c.enrich, StandsAlone(c, n), NEW t, t.specs = c.specs,
         LET p == c.enrich[n].provider
         IN t.dictionaries[p] \in {Fails, c.manifest[p].content},
         NEW s, IsResult(s), Carries(c, s, n)
  PROVE  Carries(c, ExecuteAll(c, s, t), n)
<1> DEFINE N == Len(c.enrich)
<1>1. PICK f : /\ ExecuteAll(c, s, t) = f[N] /\ f[0] = s
               /\ \A k \in 1 .. N : f[k] = Execute(f[k - 1], c.enrich[k], c, t)
  BY ExecuteAllSteps
<1> DEFINE P == {k \in Nat : k <= N => IsResult(f[k]) /\ Carries(c, f[k], n)}
<1>2. 0 \in P
  BY <1>1
<1>3. ASSUME NEW k \in P PROVE k + 1 \in P
  <2>1. SUFFICES ASSUME k + 1 <= N PROVE IsResult(f[k + 1]) /\ Carries(c, f[k + 1], n)
    OBVIOUS
  <2>2. k \in Nat /\ k + 1 \in 1 .. N /\ k <= N /\ (k + 1) - 1 = k
    BY <2>1
  <2>3. f[k + 1] = Execute(f[k], c.enrich[k + 1], c, t) /\ IsResult(f[k]) /\ Carries(c, f[k], n)
    BY <1>1, <2>2
  <2>4. k + 1 \in DOMAIN c.enrich
    BY <2>2
  <2>5. Carries(c, f[k + 1], n)
    BY <2>3, <2>4, ExecuteKeepsPinned
  <2>6. IsResult(f[k + 1])
    BY <2>3, ExecuteWorks DEF Worked
  <2>7. QED BY <2>5, <2>6
<1>4. P \in SUBSET Nat
  OBVIOUS
<1> HIDE DEF P
<1>5. P = Nat
  BY <1>2, <1>3, <1>4, AllNumbers
<1>6. N \in P
  BY <1>5
<1>7. QED BY <1>1, <1>6 DEF P

\* The lookups of the rules, pinned in a row of the pipeline or in a desired state.
AllPinned(row) ==
    \A n \in DOMAIN conf.enrich :
        LooksUp(conf, conf.enrich[n]) => Pinned(conf, row, conf.enrich[n])

\* What the rules are that look something up.  (build_dictionary_dsl_runtime: every
\* dictionary has its entry in the manifest.)
LEMMA LookupsAre ==
  ASSUME LookupsStandAlone, Started, Compiles(conf.specs, conf.manifest),
         NEW n \in DOMAIN conf.enrich, LooksUp(conf, conf.enrich[n])
  PROVE  /\ StandsAlone(conf, n)
         /\ conf.enrich[n].build.from[1] \in ToSet(conf.match.desired) \ conf.match.drop
         /\ \A line \in 1 .. Len(source) :
               LET row == Prepared(conf, source[line], line).row
               IN row # Nil => ~ Present(Field(row, conf.enrich[n].target))
<1> DEFINE p == conf.enrich[n].provider
<1>1. config \in DOMAIN Configs /\ source \in Sources
  BY DEF Started
<1>2. /\ conf.enrich[n].limit \in Nat
      /\ \A d \in DOMAIN conf.manifest : Len(conf.manifest[d].content) \in Nat
  BY <1>1, RowPipelineAssumption DEF conf
<1>3. p \in DOMAIN conf.manifest
  BY DEF LooksUp, Compiles
<1>4. Len(conf.manifest[p].content) \in Nat
  BY <1>2, <1>3
<1>5. QED BY <1>1, <1>2, <1>4 DEF LookupsStandAlone, StandsAlone, conf

\* What a load gets is what the manifest says.  (load_dictionary_into.)
LEMMA LoadIsPinned ==
  ASSUME NEW spec, NEW entry, NEW file, Load(spec, entry, file) # Fails
  PROVE  Load(spec, entry, file) = entry.content
BY DEF Load

\* The dictionaries that are loaded have what the manifest says.
LoadedPinned ==
    /\ Compiles(conf.specs, conf.manifest)
    /\ DOMAIN loaded \subseteq DOMAIN conf.specs
    /\ \A d \in DOMAIN loaded : loaded[d] = conf.manifest[d].content

\* What a dictionary answers from is what the manifest says, or nothing.
\* (_require_loaded.)
LEMMA AvailableIsPinned ==
  ASSUME LoadedPinned, NEW d \in DOMAIN conf.specs
  PROVE  Available[d] \in {Fails, conf.manifest[d].content}
BY LoadIsPinned DEF LoadedPinned, Available

\* Loading what was asked for keeps that.
LEMMA LoadAskedKeeps ==
  ASSUME LoadedPinned, NEW names, LoadAsked(names), conf' = conf
  PROVE  LoadedPinned'
<1> DEFINE kept == {d \in names \cap DOMAIN conf.specs : Available[d] # Fails}
<1>1. loaded' = [d \in DOMAIN loaded \cup kept |-> Available[d]]
  BY DEF LoadAsked
<1>2. ASSUME NEW d \in DOMAIN loaded \cup kept
      PROVE  d \in DOMAIN conf.specs /\ Available[d] = conf.manifest[d].content
  <2>1. CASE d \in DOMAIN loaded
    BY <2>1 DEF LoadedPinned, Available
  <2>2. CASE d \in kept
    BY <2>2, AvailableIsPinned, SMTT(60)
  <2>3. QED BY <2>1, <2>2
<1> HIDE DEF kept
<1>3. QED BY <1>1, <1>2 DEF LoadedPinned

\* A row that comes out of the enricher has what was looked up pinned, and storing its
\* secrets keeps it so.  (EnrichStage, _store_secrets.)
LEMMA StoredIsPinned ==
  ASSUME LookupsStandAlone, Started, LoadedPinned, NEW line \in 1 .. Len(source),
         NEW took, NEW item, item = StoreSecrets(Enriched(line), took), item.row # Nil
  PROVE  AllPinned(item.row)
<1> SUFFICES ASSUME NEW n \in DOMAIN conf.enrich, LooksUp(conf, conf.enrich[n])
             PROVE  Pinned(conf, item.row, conf.enrich[n])
  BY DEF AllPinned
<1> DEFINE r == conf.enrich[n]
           f == r.build.from[1]
           prepared == Prepared(conf, source[line], line)
           keyed == BuildKey(conf, prepared)
           t == [sink_cache |-> tables[View], specs |-> conf.specs, dictionaries |-> Available]
           enriched == Enriched(line)
<1>1. /\ StandsAlone(conf, n) /\ Len(conf.normalize) \in Nat /\ Len(conf.enrich) \in Nat
      /\ DOMAIN conf.enrich = 1 .. Len(conf.enrich)
      /\ prepared.row # Nil => ~ Present(Field(prepared.row, r.target))
  BY LookupsAre, RowPipelineAssumption DEF LoadedPinned, Started, conf
<1>2. IsResult(prepared) /\ prepared.secrets = << >>
  BY <1>1, PreparedIs
<1>3. enriched = IF prepared.row = Nil THEN prepared ELSE ExecuteAll(conf, keyed, t)
  BY DEF Enriched, Enrich
<1>4. t.specs = conf.specs /\ t.dictionaries[r.provider] \in {Fails, conf.manifest[r.provider].content}
  BY AvailableIsPinned DEF LooksUp
<1> HIDE DEF prepared, t, enriched
<1>5. IsResult(keyed) /\ keyed.row = prepared.row /\ keyed.secrets = << >>
  BY <1>2, BuildKeyKeeps DEF BuildKey, IsResult
<1> HIDE DEF keyed
<1>6. prepared.row # Nil /\ IsResult(enriched)
  <2>1. enriched.row = Nil => item.row = Nil
    BY DEF StoreSecrets, enriched
  <2>2. prepared.row # Nil
    BY <1>3, <2>1
  <2>3. QED BY <1>1, <1>3, <1>5, <2>2, ExecuteAllWorks DEF Worked
<1>7. Carries(conf, keyed, n)
  BY <1>1, <1>5, <1>6 DEF Carries, Pinned
<1>8. Carries(conf, enriched, n)
  BY <1>1, <1>3, <1>4, <1>5, <1>6, <1>7, ExecuteAllKeepsPinned
<1>9. \/ item.row = enriched.row
      \/ item.row = [g \in DOMAIN enriched.row |->
                        IF g \in DOMAIN enriched.secrets THEN Nil ELSE enriched.row[g]]
  BY <1>6 DEF StoreSecrets, IsResult, enriched
<1>10. /\ Field(item.row, f) = Field(enriched.row, f)
       /\ Field(item.row, r.target) \in {Nil, Field(enriched.row, r.target)}
  BY <1>8, <1>9 DEF Field, Carries
<1>11. QED BY <1>8, <1>10 DEF Carries, Pinned, Answers, Present

\* A desired state has the fields of the rules, and what was looked up pinned.
DesiredPinned(desired) ==
    DOMAIN desired = ToSet(conf.match.desired) \ conf.match.drop /\ AllPinned(desired)

\* A row that is matched carries them on in its desired state.  (build_desired_state.)
LEMMA DesiredIsPinned ==
  ASSUME LookupsStandAlone, Started, LoadedPinned, NEW r, IsResult(r), AllPinned(r.row),
         NEW cache, NEW locator, NEW tree,
         Match(conf.match, r, cache, locator, tree).row # Nil
  PROVE  DesiredPinned(Match(conf.match, r, cache, locator, tree).row.desired)
<1> DEFINE matched == Match(conf.match, r, cache, locator, tree)
           desired == Desired(conf.match, r.row)
<1>1. matched.row.desired = desired
  <2>1. ASSUME NEW code PROVE FailMatch(r, code).row = Nil
    BY DEF FailMatch, IsResult
  <2>2. ASSUME NEW found, NEW decision
        PROVE  LET m == MatchedRow(conf.match, r, found, desired, decision)
               IN m.row = Nil \/ m.row.desired = desired
    BY <2>1 DEF MatchedRow, IsResult
  <2>3. \/ \E code : matched = FailMatch(r, code)
        \/ \E found, decision : matched = MatchedRow(conf.match, r, found, desired, decision)
    BY DEF Match, MatchIdentified
  <2> HIDE DEF matched, desired
  <2>4. matched.row # Nil
    BY SMTT(60) DEF matched
  <2>5. QED BY <2>1, <2>2, <2>3, <2>4
<1> HIDE DEF matched
<1>2. ASSUME NEW n \in DOMAIN conf.enrich, LooksUp(conf, conf.enrich[n])
      PROVE  Pinned(conf, desired, conf.enrich[n])
  <2> DEFINE q == conf.enrich[n]
             f == q.build.from[1]
  <2>1. f \in ToSet(conf.match.desired) \ conf.match.drop
    BY <1>2, LookupsAre DEF LoadedPinned
  <2>2. Field(desired, f) = Field(r.row, f)
    BY <2>1 DEF Desired, Field
  <2>3. Field(desired, q.target) \in {Nil, Field(r.row, q.target)}
    BY DEF Desired, Field
  <2>4. Pinned(conf, r.row, q)
    BY <1>2 DEF AllPinned
  <2> HIDE DEF desired
  <2>5. QED BY <2>2, <2>3, <2>4 DEF Pinned, Answers, Present
<1>3. DOMAIN desired = ToSet(conf.match.desired) \ conf.match.drop
  BY DEF Desired
<1>4. QED BY <1>1, <1>2, <1>3 DEF AllPinned, DesiredPinned, matched

\* What has been looked up is pinned wherever a row is held.
LookupInv ==
    /\ LoadedPinned
    /\ \A i \in 1 .. Len(buffer) : buffer[i].row # Nil => AllPinned(buffer[i].row)
    /\ \A i \in 1 .. Len(batch) : batch[i].row # Nil => AllPinned(batch[i].row)
    /\ \A i \in 1 .. Len(context) : context[i].row # Nil => DesiredPinned(context[i].row.desired)

\* A command starts with no dictionary loaded, or with all of them.
\* (dictionary_backend_resource.)
LEMMA InitLookups == Init => LookupInv
<1> SUFFICES ASSUME Init PROVE LookupInv
  OBVIOUS
<1>1. LoadedPinned
  <2>1. /\ Compiles(conf.specs, conf.manifest)
        /\ files \in [DOMAIN conf.specs -> Files[config]]
        /\ \/ loaded = << >>
           \/ /\ loaded = files
              /\ \A d \in DOMAIN files : Load(conf.specs[d], conf.manifest[d], files[d]) # Fails
    BY DEF Init, StartDictionaries
  <2>2. CASE loaded = << >>
    BY <2>1, <2>2 DEF LoadedPinned
  <2>3. CASE loaded # << >>
    BY <2>1, <2>3 DEF LoadedPinned, Load
  <2>4. QED BY <2>2, <2>3
<1>2. Len(buffer) = 0 /\ Len(batch) = 0 /\ Len(context) = 0
  BY ShortSeqs DEF Init
<1>3. QED BY <1>1, <1>2 DEF LookupInv

\* A row that is taken is enriched from pinned dictionaries.
LEMMA PullRowPins ==
  ASSUME LookupsStandAlone, RowInv, LookupInv, PullRow
  PROVE  LookupInv'
<1>1. /\ phase = "pull" /\ batch = << >> /\ taken \in Nat /\ taken < Len(source)
      /\ Started /\ LoadedPinned /\ conf' = conf /\ context' = context
  BY DEF RowInv, Held, LookupInv, PullRow, world, conf
<1>2. PICK took, names :
        /\ LoadAsked(names) /\ Buffer(StoreSecrets(Enriched(taken + 1), took))
  BY DEF PullRow
<1> DEFINE item == StoreSecrets(Enriched(taken + 1), took)
<1>3. item.row # Nil => AllPinned(item.row)
  <2>1. taken + 1 \in 1 .. Len(source)
    BY <1>1, Instances
  <2>2. QED BY <1>1, <2>1, StoredIsPinned
<1>4. LoadedPinned'
  BY <1>1, <1>2, LoadAskedKeeps
<1>5. IsSeq(buffer) /\ Len(buffer) \in Nat
  BY SeqIs DEF RowInv, Held
<1>6. \/ buffer' = Append(buffer, item) /\ batch' = << >>
      \/ buffer' = << >> /\ batch' = Append(buffer, item)
      \/ buffer' = <<item>> /\ batch' = buffer
  BY <1>2 DEF Buffer
<1> HIDE DEF item
<1> DEFINE Good(r) == r.row # Nil => AllPinned(r.row)
<1>7. \A row : AllPinned(row) => AllPinned(row)'
  BY <1>1 DEF AllPinned
<1>8. Good(item) /\ \A i \in 1 .. Len(buffer) : Good(buffer[i])
  BY <1>3 DEF LookupInv
<1> HIDE DEF Good
<1>9. /\ \A i \in 1 .. Len(buffer') : Good(buffer'[i])
      /\ \A i \in 1 .. Len(batch') : Good(batch'[i])
  <2>1. /\ Len(Append(buffer, item)) = Len(buffer) + 1
        /\ \A i \in 1 .. Len(buffer) + 1 : Good(Append(buffer, item)[i])
    BY <1>5, <1>8, AppendIs
  <2>2. Len(<< >>) = 0 /\ Len(<<item>>) = 1 /\ <<item>>[1] = item
    BY ShortSeqs
  <2>3. QED BY <1>5, <1>6, <1>8, <2>1, <2>2, SMTT(60)
<1>10. QED BY <1>1, <1>4, <1>9 DEF LookupInv, AllPinned, DesiredPinned, Good

\* A row that is matched takes them into the context.
LEMMA MatchRowPins ==
  ASSUME LookupsStandAlone, RowInv, LookupInv, MatchRow
  PROVE  LookupInv'
<1> DEFINE item == Head(batch)
<1>1. /\ conf' = conf /\ UNCHANGED <<loaded, buffer>> /\ batch # << >> /\ batch' = Tail(batch)
      /\ Started /\ LoadedPinned
  BY DEF RowInv, LookupInv, MatchRow, world, conf
<1>2. /\ Len(batch) \in Nat \ {0} /\ item = batch[1] /\ Len(batch') = Len(batch) - 1
      /\ \A i \in 1 .. Len(batch) - 1 : batch'[i] = batch[i + 1]
      /\ IsResult(item) /\ IsSeq(context) /\ Len(context) \in Nat
  BY <1>1, TailIs, SeqIs DEF RowInv, Held
<1>3. item.row # Nil => AllPinned(item.row)
  BY <1>2 DEF LookupInv
<1>4. PICK result : /\ context' = Append(context, result)
                    /\ result.row # Nil => DesiredPinned(result.row.desired)
  <2>1. CASE item.row = Nil
    BY <2>1 DEF MatchRow, Pass
  <2>2. CASE item.row # Nil
    <3> DEFINE matched == Match(conf.match, item, tables[View], Locator(item.line), conf.snapshot)
               key == DedupKey(matched.row)
    <3>1. Pass(matched) \/ (matched.row # Nil /\ Pass(DropRepeated(matched, key)))
      BY <2>2 DEF MatchRow
    <3>2. IsResult(matched)
      BY <1>2, MatchRewrites DEF Rewritten, Worked
    <3>3. matched.row # Nil => DesiredPinned(matched.row.desired)
      BY <1>1, <1>2, <1>3, <2>2, DesiredIsPinned
    <3> HIDE DEF matched, item
    <3>4. DropRepeated(matched, key).row \in {Nil, matched.row}
      BY <3>2, DropRepeatedDrops
    <3>5. QED BY <3>1, <3>3, <3>4 DEF Pass
  <2>3. QED BY <2>1, <2>2
<1> HIDE DEF item
<1>5. /\ Len(context') = Len(context) + 1
      /\ \A i \in 1 .. Len(context) : context'[i] = context[i]
      /\ context'[Len(context) + 1] = result
  BY <1>2, <1>4, AppendIs
<1>6. LoadedPinned'
  BY <1>1 DEF LoadedPinned
<1>7. ASSUME NEW i \in 1 .. Len(context'), context'[i].row # Nil
      PROVE  DesiredPinned(context'[i].row.desired)
  <2>1. CASE i \in 1 .. Len(context)
    BY <1>5, <1>7, <2>1 DEF LookupInv
  <2>2. CASE i = Len(context) + 1
    BY <1>4, <1>5, <1>7, <2>2
  <2>3. QED BY <1>2, <1>5, <2>1, <2>2
<1>8. ASSUME NEW i \in 1 .. Len(batch'), batch'[i].row # Nil PROVE AllPinned(batch'[i].row)
  <2>1. i + 1 \in 1 .. Len(batch) /\ batch'[i] = batch[i + 1]
    BY <1>2
  <2>2. QED BY <1>8, <2>1 DEF LookupInv
<1>9. \A i \in 1 .. Len(buffer) : buffer[i].row # Nil => AllPinned(buffer[i].row)
  BY DEF LookupInv
<1>10. QED BY <1>1, <1>6, <1>7, <1>8, <1>9 DEF LookupInv, AllPinned, DesiredPinned

\* Under rules whose lookups stand alone, a value looked up in a dictionary is one the
\* file of the manifest has under the key, whatever becomes of the file while the run
\* goes on.  (load_dictionary_into, PolarsDictionaryBackend.lookup.)
THEOREM LookupsArePinnedCorrect ==
  ASSUME LookupsStandAlone
  PROVE  Spec => []LookupsArePinned
<1>1. RowInv /\ LookupInv /\ [Next]_vars => LookupInv'
  <2> SUFFICES ASSUME RowInv, LookupInv, [Next]_vars PROVE LookupInv'
    OBVIOUS
  <2>1. CASE PullRow
    BY <2>1, PullRowPins
  <2>2. CASE MatchRow
    BY <2>2, MatchRowPins
  <2>3. CASE EndOfSource
    <3>1. conf' = conf /\ UNCHANGED <<loaded, context>> /\ batch' = buffer /\ buffer' = << >>
      BY <2>3 DEF EndOfSource, FlushLast, world, conf
    <3>2. Len(buffer') = 0
      BY <3>1, ShortSeqs
    <3>3. QED BY <3>1, <3>2 DEF LookupInv, LoadedPinned, AllPinned, DesiredPinned
  <2>4. CASE \/ BuildContext \/ Fetch \/ ResolveRow \/ Commit \/ Finish \/ Refresh
             \/ ReplaceFile \/ UNCHANGED vars
    <3>1. conf' = conf /\ UNCHANGED <<loaded, buffer, batch, context>>
      BY <2>4 DEF BuildContext, Fetch, ResolveRow, Commit, Finish, Refresh, ReplaceFile,
                  vars, world, rows, conf
    <3>2. QED BY <3>1 DEF LookupInv, LoadedPinned, AllPinned, DesiredPinned
  <2>5. QED BY <2>1, <2>2, <2>3, <2>4 DEF Next, Step, Over
<1>2. RowInv /\ LookupInv => LookupsArePinned
  <2> SUFFICES ASSUME RowInv, LookupInv, NEW i \in DOMAIN context,
                      NEW r \in ToSet(conf.enrich), context[i].row # Nil, LooksUp(conf, r),
                      Present(Field(context[i].row.desired, r.target))
               PROVE  LET row == context[i].row
                          spec == conf.specs[r.provider]
                      IN \E line \in ToSet(conf.manifest[r.provider].content) :
                            /\ line[r.path] = row.desired[r.target]
                            /\ NormalKey(spec, line[spec.key])
                                  = NormalKey(spec, row.desired[r.build.from[1]])
    BY DEF LookupsArePinned
  <2> DEFINE desired == context[i].row.desired
  <2>1. PICK n \in DOMAIN conf.enrich : r = conf.enrich[n]
    BY DEF ToSet
  <2>2. i \in 1 .. Len(context)
    BY SeqIs DEF RowInv, Held
  <2>3. Answers(conf, desired, r, Field(desired, r.target))
    BY <2>1, <2>2 DEF LookupInv, DesiredPinned, AllPinned, Pinned
  <2>4. Field(desired, r.target) = desired[r.target]
    BY DEF Field, Present
  <2>5. Field(desired, r.build.from[1]) = desired[r.build.from[1]]
    <3>1. r.build.from[1] \in ToSet(conf.match.desired) \ conf.match.drop
      BY <2>1, LookupsAre DEF RowInv, LookupInv, LoadedPinned
    <3>2. QED BY <2>2, <3>1 DEF LookupInv, DesiredPinned, Field
  <2> HIDE DEF desired
  <2>6. QED BY <2>3, <2>4, <2>5 DEF Answers, desired
<1>3. QED BY RowInvCorrect, InitLookups, <1>1, <1>2, PTL DEF Spec

-----------------------------------------------------------------------------
(* The candidates of fuzzy matching, and the choice between them            *)

\* A recursion over numbers, a step of functions at a time, does compute.
Steps(N, D) == [1 .. N -> [D -> D]]
Goes(N, D, start, step) ==
    \E f \in [0 .. N -> D] : f[0] = start /\ \A k \in 1 .. N : f[k] = step[k][f[k - 1]]

LEMMA Recursion ==
  ASSUME NEW N \in Nat, NEW D, NEW start \in D, NEW step \in Steps(N, D)
  PROVE  Goes(N, D, start, step)
<1> USE DEF Steps, Goes
<1> DEFINE IsRun(f, m) == f[0] = start /\ \A k \in 1 .. m : f[k] = step[k][f[k - 1]]
           P == {m \in Nat : m <= N => \E f \in [0 .. m -> D] : IsRun(f, m)}
<1>1. 0 \in P
  <2>1. IsRun([k \in 0 .. 0 |-> start], 0)
    OBVIOUS
  <2>2. [k \in 0 .. 0 |-> start] \in [0 .. 0 -> D]
    OBVIOUS
  <2> HIDE DEF IsRun
  <2>3. QED BY <2>1, <2>2
<1>2. ASSUME NEW m \in P PROVE m + 1 \in P
  <2>1. SUFFICES ASSUME m + 1 <= N PROVE \E f \in [0 .. m + 1 -> D] : IsRun(f, m + 1)
    OBVIOUS
  <2>2. m \in Nat /\ m <= N /\ m + 1 \in 1 .. N
    BY <2>1
  <2>3. PICK f \in [0 .. m -> D] : IsRun(f, m)
    BY <2>2
  <2> DEFINE g == [k \in 0 .. m + 1 |-> IF k = m + 1 THEN step[m + 1][f[m]] ELSE f[k]]
  <2>4. step[m + 1][f[m]] \in D
    BY <2>2, <2>3
  <2>5. g \in [0 .. m + 1 -> D]
    BY <2>2, <2>3, <2>4
  <2>6. ASSUME NEW k \in 1 .. m + 1 PROVE g[k] = step[k][g[k - 1]]
    <3>1. CASE k = m + 1
      BY <2>2, <3>1
    <3>2. CASE k \in 1 .. m
      BY <2>2, <2>3, <3>2
    <3>3. QED BY <2>2, <3>1, <3>2
  <2>7. g[0] = start
    BY <2>2, <2>3
  <2>8. IsRun(g, m + 1)
    BY <2>6, <2>7
  <2> HIDE DEF g, IsRun
  <2>9. QED BY <2>5, <2>8
<1>3. P \in SUBSET Nat
  OBVIOUS
<1> HIDE DEF P
<1>4. P = Nat
  BY <1>1, <1>2, <1>3, AllNumbers
<1>5. QED BY <1>4 DEF P

\* Candidates without two of the same id, their ids, and the candidates themselves.
IdOf(record) == record.row["_id"]
Once(s) == \A i, j \in DOMAIN s : IdOf(s[i]) = IdOf(s[j]) => i = j
Known(s) == {IdOf(s[i]) : i \in DOMAIN s}
Listed(s) == {s[i] : i \in DOMAIN s}

\* t is s with the records of A, each once.
Adds(s, t, A) ==
    /\ Once(t) /\ Known(t) = Known(s) \cup {IdOf(r) : r \in A}
    /\ Listed(t) \subseteq Listed(s) \cup A

\* A record joins the candidates unless its id is there.  (_candidate_dedup_key.)
LEMMA AddNewIs ==
  ASSUME NEW R, NEW s \in Seq(R), Once(s), NEW r \in R
  PROVE  AddNew(s, r) \in Seq(R) /\ Adds(s, AddNew(s, r), {r})
<1>1. Len(s) \in Nat /\ DOMAIN s = 1 .. Len(s)
  OBVIOUS
<1>2. CASE \E i \in DOMAIN s : IdOf(s[i]) = IdOf(r)
  <2>1. AddNew(s, r) = s
    BY <1>2 DEF AddNew, IdOf
  <2>2. QED BY <1>2, <2>1 DEF Adds, Known, Listed
<1>3. CASE ~ \E i \in DOMAIN s : IdOf(s[i]) = IdOf(r)
  <2> DEFINE t == Append(s, r)
  <2>1. AddNew(s, r) = t
    BY <1>3 DEF AddNew, IdOf
  <2>2. /\ t \in Seq(R) /\ DOMAIN t = 1 .. Len(s) + 1
        /\ t[Len(s) + 1] = r /\ \A i \in 1 .. Len(s) : t[i] = s[i]
    BY <1>1
  <2> HIDE DEF t
  <2>3. \A i \in DOMAIN t : i \in DOMAIN s \/ i = Len(s) + 1
    BY <1>1, <2>2
  <2>4. Once(t)
    BY <1>1, <1>3, <2>2, <2>3 DEF Once
  <2>5. Known(t) = Known(s) \cup {IdOf(r)}
    BY <1>1, <2>2, <2>3 DEF Known
  <2>6. Listed(t) \subseteq Listed(s) \cup {r}
    BY <1>1, <2>2, <2>3 DEF Listed
  <2>7. QED BY <2>1, <2>2, <2>4, <2>5, <2>6 DEF Adds
<1>4. QED BY <1>2, <1>3

\* Adding twice adds both.
LEMMA AddsAdd ==
  ASSUME NEW s, NEW t, NEW u, NEW A, NEW B, Adds(s, t, A), Adds(t, u, B)
  PROVE  Adds(s, u, A \cup B)
BY DEF Adds

\* The places of the cache with a record that a value of a field names.
HitsOf(cache, field, v, deleted) == {n \in DOMAIN cache : Names(cache[n], field, v, deleted)}

Records(cache, I) == {cache[n] : n \in I}

\* All the records of one blocking key join the candidates, each once.
LEMMA CollectedIs ==
  ASSUME NEW R, NEW cache \in Seq(R), NEW found \in Seq(R), Once(found),
         NEW field, NEW v, NEW deleted
  PROVE  LET t == Collected(found, cache, field, v, deleted)
         IN t \in Seq(R) /\ Adds(found, t, Records(cache, HitsOf(cache, field, v, deleted)))
<1> DEFINE N == Len(cache)
           named(k) == Names(cache[k], field, v, deleted)
           more(k, s) == IF named(k) THEN AddNew(s, cache[k]) ELSE s
           IsDone(f) == f = [k \in 0 .. N |-> IF k = 0 THEN found ELSE more(k, f[k - 1])]
           D == {s \in Seq(R) : Once(s)}
           step == [k \in 1 .. N |-> [s \in D |-> more(k, s)]]
           done[k \in 0 .. N] == IF k = 0 THEN found ELSE more(k, done[k - 1])
<1>1. N \in Nat /\ DOMAIN cache = 1 .. N /\ \A k \in 1 .. N : cache[k] \in R
  OBVIOUS
<1>2. Collected(found, cache, field, v, deleted) = done[N]
  BY DEF Collected
<1>3. \A k \in 1 .. N : \A s \in D :
         more(k, s) \in D /\ Adds(s, more(k, s), IF named(k) THEN {cache[k]} ELSE {})
  <2> HIDE DEF N, named
  <2>1. ASSUME NEW k \in 1 .. N, NEW s \in D
        PROVE  more(k, s) \in D /\ Adds(s, more(k, s), IF named(k) THEN {cache[k]} ELSE {})
    <3>1. CASE named(k)
      <4>1. AddNew(s, cache[k]) \in Seq(R) /\ Adds(s, AddNew(s, cache[k]), {cache[k]})
        BY <1>1, AddNewIs
      <4>2. QED BY <3>1, <4>1 DEF Adds
    <3>2. CASE ~ named(k)
      BY <3>2 DEF Adds
    <3>3. QED BY <3>1, <3>2
  <2>2. QED BY <2>1
<1>4. PICK f \in [0 .. N -> D] : f[0] = found /\ \A k \in 1 .. N : f[k] = step[k][f[k - 1]]
  <2>1. found \in D
    OBVIOUS
  <2>2. step \in Steps(N, D)
    <3> HIDE DEF N, D, more
    <3>1. QED BY <1>3 DEF Steps
  <2> HIDE DEF N, D, step
  <2>3. Goes(N, D, found, step)
    BY <1>1, <2>1, <2>2, Recursion
  <2>4. QED BY <2>3 DEF Goes
<1> HIDE DEF D
<1>5. \A k \in 1 .. N : k - 1 \in 0 .. N /\ f[k - 1] \in D /\ f[k] = more(k, f[k - 1])
  <2> HIDE DEF N, more
  <2>1. \A k \in 1 .. N : f[k - 1] \in D /\ k - 1 \in 0 .. N
    BY <1>1, <1>4
  <2>2. QED BY <1>4, <2>1
<1>6. IsDone(f)
  <2> HIDE DEF N, more
  <2>1. \A k \in 0 .. N : k = 0 \/ k \in 1 .. N
    BY <1>1
  <2>2. \A k \in 0 .. N : f[k] = IF k = 0 THEN found ELSE more(k, f[k - 1])
    BY <1>1, <1>4, <1>5, <2>1
  <2>3. QED BY <1>4, <2>2
<1>7. IsDone(done)
  <2> HIDE DEF N, more
  <2>1. QED BY <1>6
<1> HIDE DEF done, step
<1>8. done[0] = found /\ \A k \in 1 .. N : done[k] = more(k, done[k - 1])
  <2> HIDE DEF N, more
  <2>1. QED BY <1>1, <1>7
<1> DEFINE upTo(k) == {n \in 1 .. k : named(n)}
           Good(k) == done[k] \in D /\ Adds(found, done[k], Records(cache, upTo(k)))
           P == {k \in Nat : k <= N => Good(k)}
<1>9. 0 \in P
  <2>1. Records(cache, upTo(0)) = {}
    BY DEF Records
  <2>2. Adds(found, found, {}) /\ found \in D
    BY DEF Adds, D
  <2>3. Good(0)
    BY <1>8, <2>1, <2>2
  <2> HIDE DEF Good
  <2>4. QED BY <2>3
<1>10. ASSUME NEW k \in P PROVE k + 1 \in P
  <2>1. SUFFICES ASSUME k + 1 <= N PROVE Good(k + 1)
    OBVIOUS
  <2>2. k \in Nat /\ Good(k) /\ k + 1 \in 1 .. N /\ (k + 1) - 1 = k
    BY <1>1, <1>10, <2>1
  <2> DEFINE A == IF named(k + 1) THEN {cache[k + 1]} ELSE {}
  <2>3. done[k + 1] = more(k + 1, done[k])
    BY <1>8, <2>2
  <2>4. done[k + 1] \in D /\ Adds(done[k], done[k + 1], A)
    <3> HIDE DEF more, N, named
    <3>1. QED BY <1>3, <2>2, <2>3
  <2>5. Records(cache, upTo(k + 1)) = Records(cache, upTo(k)) \cup A
    <3>1. upTo(k + 1) = upTo(k) \cup {n \in {k + 1} : named(n)}
      <4> HIDE DEF named
      <4>1. QED BY <2>2
    <3> HIDE DEF upTo
    <3>2. QED BY <3>1 DEF Records
  <2> HIDE DEF A, upTo
  <2>6. Adds(found, done[k + 1], Records(cache, upTo(k)) \cup A)
    BY <2>2, <2>4, AddsAdd
  <2>7. QED BY <2>4, <2>5, <2>6
<1>11. P = Nat
  <2>1. P \in SUBSET Nat
    OBVIOUS
  <2> HIDE DEF P
  <2>2. QED BY <1>9, <1>10, <2>1, AllNumbers
<1>12. Good(N)
  <2> HIDE DEF Good, N
  <2>1. QED BY <1>1, <1>11
<1>13. upTo(N) = HitsOf(cache, field, v, deleted)
  BY <1>1 DEF HitsOf
<1> HIDE DEF upTo
<1>14. QED BY <1>2, <1>12, <1>13 DEF D

\* The places of the cache that some blocking key of a row names.
BlockedBy(keys, cache, values, deleted) ==
    {n \in DOMAIN cache :
        \E k \in DOMAIN keys : /\ Present(values[keys[k]])
                               /\ Names(cache[n], keys[k], values[keys[k]], deleted)}

\* The candidates of a row, for any cache, keys and limit: no id twice, however many
\* keys find it, so that no record ties with itself; only records a key of the row
\* names; all of them, by their ids, unless the limit is reached.
\* (_collect_blocking_candidates.)
THEOREM CandidatesCorrect ==
  ASSUME NEW match, NEW F, match.fuzzy.blocking \in Seq(F), match.fuzzy.limit \in Nat \ {0},
         NEW R, NEW cache \in Seq(R), NEW values
  PROVE  LET c == Blocked(match, cache, values)
             named == Records(cache, BlockedBy(match.fuzzy.blocking, cache, values,
                                               match.includeDeleted))
         IN /\ c \in Seq(R) /\ Len(c) <= match.fuzzy.limit /\ Once(c)
            /\ Listed(c) \subseteq named
            /\ Len(c) < match.fuzzy.limit => Known(c) = {IdOf(r) : r \in named}
<1> DEFINE keys == match.fuzzy.blocking
           N == Len(keys)
           asked(k) == Present(values[keys[k]])
           all(k, s) == Collected(s, cache, keys[k], values[keys[k]], match.includeDeleted)
           more(k, s) == IF asked(k) THEN all(k, s) ELSE s
           IsFound(f) == f = [k \in 0 .. N |-> IF k = 0 THEN << >> ELSE more(k, f[k - 1])]
           D == {s \in Seq(R) : Once(s)}
           step == [k \in 1 .. N |-> [s \in D |-> more(k, s)]]
           found[k \in 0 .. N] == IF k = 0 THEN << >> ELSE more(k, found[k - 1])
           hits(k) == HitsOf(cache, keys[k], values[keys[k]], match.includeDeleted)
           A(k) == IF asked(k) THEN Records(cache, hits(k)) ELSE {}
<1>1. N \in Nat /\ DOMAIN keys = 1 .. N
  OBVIOUS
<1>2. Blocked(match, cache, values) = UpTo(match.fuzzy.limit, found[N])
  BY DEF Blocked
<1>3. \A k \in 1 .. N : \A s \in D : more(k, s) \in D /\ Adds(s, more(k, s), A(k))
  <2> HIDE DEF N, asked, keys, hits
  <2>1. ASSUME NEW k \in 1 .. N, NEW s \in D
        PROVE  more(k, s) \in D /\ Adds(s, more(k, s), A(k))
    <3>1. CASE asked(k)
      <4>1. all(k, s) \in Seq(R) /\ Adds(s, all(k, s), Records(cache, hits(k)))
        BY CollectedIs DEF hits
      <4>2. QED BY <3>1, <4>1 DEF Adds
    <3>2. CASE ~ asked(k)
      BY <3>2 DEF Adds
    <3>3. QED BY <3>1, <3>2
  <2>2. QED BY <2>1
<1>4. << >> \in D
  BY DEF Once
<1>5. PICK f \in [0 .. N -> D] : f[0] = << >> /\ \A k \in 1 .. N : f[k] = step[k][f[k - 1]]
  <2>1. step \in Steps(N, D)
    <3> HIDE DEF N, D, more, A
    <3>1. QED BY <1>3 DEF Steps
  <2> HIDE DEF N, D, step
  <2>2. Goes(N, D, << >>, step)
    BY <1>1, <1>4, <2>1, Recursion
  <2>3. QED BY <2>2 DEF Goes
<1> HIDE DEF D
<1>6. \A k \in 1 .. N : k - 1 \in 0 .. N /\ f[k - 1] \in D /\ f[k] = more(k, f[k - 1])
  <2> HIDE DEF N, more
  <2>1. \A k \in 1 .. N : f[k - 1] \in D /\ k - 1 \in 0 .. N
    BY <1>1, <1>5
  <2>2. QED BY <1>5, <2>1
<1>7. IsFound(f)
  <2> HIDE DEF N, more
  <2>1. \A k \in 0 .. N : k = 0 \/ k \in 1 .. N
    BY <1>1
  <2>2. \A k \in 0 .. N : f[k] = IF k = 0 THEN << >> ELSE more(k, f[k - 1])
    BY <1>1, <1>5, <1>6, <2>1
  <2>3. QED BY <1>5, <2>2
<1>8. IsFound(found)
  <2> HIDE DEF N, more
  <2>1. QED BY <1>7
<1> HIDE DEF found, step
<1>9. found[0] = << >> /\ \A k \in 1 .. N : found[k] = more(k, found[k - 1])
  <2> HIDE DEF N, more
  <2>1. QED BY <1>1, <1>8
<1> DEFINE upTo(k) == UNION {A(i) : i \in 1 .. k}
           Good(k) == found[k] \in D /\ Adds(<< >>, found[k], upTo(k))
           P == {k \in Nat : k <= N => Good(k)}
<1>10. 0 \in P
  <2>1. upTo(0) = {}
    OBVIOUS
  <2>2. Adds(<< >>, << >>, {})
    BY <1>4 DEF Adds, D
  <2> HIDE DEF upTo
  <2>3. Good(0)
    BY <1>4, <1>9, <2>1, <2>2
  <2> HIDE DEF Good
  <2>4. QED BY <2>3
<1>11. ASSUME NEW k \in P PROVE k + 1 \in P
  <2>1. SUFFICES ASSUME k + 1 <= N PROVE Good(k + 1)
    OBVIOUS
  <2>2. k \in Nat /\ Good(k) /\ k + 1 \in 1 .. N /\ (k + 1) - 1 = k
    BY <1>1, <1>11, <2>1
  <2>3. found[k + 1] = more(k + 1, found[k])
    BY <1>9, <2>2
  <2>4. found[k + 1] \in D /\ Adds(found[k], found[k + 1], A(k + 1))
    <3> HIDE DEF more, N, A
    <3>1. QED BY <1>3, <2>2, <2>3
  <2>5. upTo(k + 1) = upTo(k) \cup A(k + 1)
    <3> HIDE DEF A
    <3>1. 1 .. k + 1 = (1 .. k) \cup {k + 1}
      BY <2>2
    <3>2. QED BY <3>1
  <2> HIDE DEF A, upTo
  <2>6. Adds(<< >>, found[k + 1], upTo(k) \cup A(k + 1))
    BY <2>2, <2>4, AddsAdd
  <2>7. QED BY <2>4, <2>5, <2>6
<1>12. P = Nat
  <2>1. P \in SUBSET Nat
    OBVIOUS
  <2> HIDE DEF P
  <2>2. QED BY <1>10, <1>11, <2>1, AllNumbers
<1>13. Good(N)
  <2> HIDE DEF Good, N
  <2>1. QED BY <1>1, <1>12
<1> DEFINE named == Records(cache, BlockedBy(keys, cache, values, match.includeDeleted))
<1>14. upTo(N) = named
  <2>1. ASSUME NEW r PROVE r \in upTo(N) <=> \E k \in 1 .. N : r \in A(k)
    OBVIOUS
  <2>2. ASSUME NEW r
        PROVE  r \in named <=> \E n \in DOMAIN cache : \E k \in 1 .. N :
                                  r = cache[n] /\ asked(k) /\ n \in hits(k)
    BY <1>1 DEF Records, BlockedBy, HitsOf
  <2>3. ASSUME NEW r, NEW k \in 1 .. N
        PROVE  r \in A(k) <=> \E n \in DOMAIN cache : r = cache[n] /\ asked(k) /\ n \in hits(k)
    BY DEF Records, HitsOf
  <2> HIDE DEF upTo, named, A, asked, hits, N
  <2>4. ASSUME NEW r PROVE r \in upTo(N) <=> r \in named
    BY <2>1, <2>2, <2>3
  <2>5. QED BY <2>4
<1> DEFINE s == found[N]
           limit == match.fuzzy.limit
           c == UpTo(limit, s)
<1>15. /\ s \in Seq(R) /\ Once(s) /\ Listed(s) \subseteq named
       /\ Known(s) = {IdOf(r) : r \in named}
  <2>1. Known(<< >>) = {} /\ Listed(<< >>) = {}
    BY DEF Known, Listed
  <2> HIDE DEF s, named, upTo, N
  <2>2. s \in D /\ Adds(<< >>, s, named)
    BY <1>13, <1>14 DEF s
  <2>3. QED BY <2>1, <2>2 DEF D, Adds
<1> HIDE DEF s, named
<1>16. /\ c \in Seq(R) /\ Len(c) = (IF Len(s) < limit THEN Len(s) ELSE limit)
       /\ \A i \in 1 .. Len(c) : c[i] = s[i]
  BY <1>15 DEF UpTo
<1> HIDE DEF c
<1>17. DOMAIN c = 1 .. Len(c) /\ DOMAIN s = 1 .. Len(s) /\ Len(c) \in Nat /\ Len(s) \in Nat
  BY <1>15, <1>16
<1>18. Len(c) <= limit /\ Len(c) <= Len(s)
  BY <1>16, <1>17
<1>19. Once(c) /\ Listed(c) \subseteq Listed(s)
  BY <1>15, <1>16, <1>17, <1>18 DEF Once, Listed
<1>20. Len(c) < limit => Known(c) = Known(s)
  BY <1>16, <1>17 DEF Known
<1>21. QED BY <1>2, <1>15, <1>16, <1>18, <1>19, <1>20 DEF c, s, named

\* N candidates with their scores, and that one of T goes before the others of T.
AreScored(scored, N) == DOMAIN scored = 1 .. N /\ \A i \in 1 .. N : scored[i].score \in Nat
HasFirst(scored, T) ==
    \E a \in T : \A j \in T \ {a} : a \in Before(scored, j) /\ j \notin Before(scored, a)

\* The order of the ranking is total: of any candidates one goes before the others.
LEMMA OneGoesFirst ==
  ASSUME NEW N \in Nat, NEW scored, AreScored(scored, N), NEW T \in SUBSET (1 .. N), T # {}
  PROVE  HasFirst(scored, T)
<1>0. DOMAIN scored = 1 .. N /\ \A i \in 1 .. N : scored[i].score \in Nat
  BY DEF AreScored
<1> DEFINE B(i) == Before(scored, i)
           count(i) == Cardinality(B(i))
           C == {count(i) : i \in T}
<1>1. \A i, j \in 1 .. N : j \in B(i) <=> \/ scored[j].score > scored[i].score
                                          \/ scored[j].score = scored[i].score /\ j < i
  BY <1>0 DEF Before
<1>2. \A i \in 1 .. N : B(i) \subseteq 1 .. N
  BY <1>0 DEF Before
<1> HIDE DEF B
<1>3. \A i \in 1 .. N : IsFiniteSet(B(i)) /\ count(i) \in Nat
  <2>1. IsFiniteSet(1 .. N)
    BY FS_Interval
  <2>2. \A i \in 1 .. N : IsFiniteSet(B(i))
    BY <1>2, <2>1, FS_Subset
  <2>3. QED BY <2>2, FS_CardinalityType
<1>4. ASSUME NEW i \in 1 .. N, NEW j \in B(i) PROVE count(j) < count(i)
  <2>1. j \in 1 .. N
    BY <1>2, <1>4
  <2>2. B(j) \subseteq B(i) /\ j \notin B(j)
    <3>1. ASSUME NEW k \in B(j) PROVE k \in B(i)
      <4>1. k \in 1 .. N
        BY <1>2, <2>1, <3>1
      <4>2. QED BY <1>0, <1>1, <1>4, <2>1, <3>1, <4>1
    <3>2. j \notin B(j)
      <4>1. scored[j].score \in Nat /\ j \in Nat
        BY <1>0, <2>1
      <4>2. ~ (scored[j].score > scored[j].score) /\ ~ (j < j)
        BY <4>1
      <4>3. QED BY <1>1, <2>1, <4>2
    <3>3. QED BY <3>1, <3>2
  <2>3. B(j) # B(i)
    BY <1>4, <2>2
  <2>4. count(j) <= count(i) /\ (count(j) = count(i) => B(j) = B(i))
    BY <1>3, <2>2, FS_Subset
  <2>5. count(j) \in Nat /\ count(i) \in Nat
    BY <1>3, <2>1
  <2> HIDE DEF count
  <2>6. QED BY <2>3, <2>4, <2>5
<1> HIDE DEF count
<1>5. C \subseteq Nat /\ C # {}
  BY <1>3
<1>6. PICK a \in T : \A i \in T : count(a) <= count(i)
  <2>1. PICK m \in C : \A n \in C : ~ (<<n, m>> \in OpToRel(<, Nat))
    BY <1>5, WFMin, NatLessThanWellFounded
  <2>2. \A n \in C : m <= n
    <3>1. ASSUME NEW n \in C, ~ (m <= n) PROVE FALSE
      <4>1. n \in Nat /\ m \in Nat /\ n < m
        BY <1>5, <3>1
      <4>2. <<n, m>> \in OpToRel(<, Nat)
        BY <4>1 DEF OpToRel
      <4>3. QED BY <2>1, <4>2
    <3>2. QED BY <3>1
  <2>3. QED BY <2>2
<1>7. ASSUME NEW j \in T \ {a} PROVE a \in B(j) /\ j \notin B(a)
  <2>1. a \in 1 .. N /\ j \in 1 .. N /\ a # j
    BY <1>7
  <2>2. j \notin B(a)
    <3>1. count(a) <= count(j) /\ count(a) \in Nat /\ count(j) \in Nat
      BY <1>3, <1>6, <1>7, <2>1
    <3>2. QED BY <1>4, <2>1, <3>1
  <2>3. QED BY <1>0, <1>1, <2>1, <2>2
<1>8. QED BY <1>7 DEF HasFirst, B

\* A fuzzy match is clear: its score is accepted, and every other candidate's is
\* lower by the tie margin at least, for any candidates and scores.
\* (_match_with_fuzzy, rank_candidates, is_tie.)
THEOREM FuzzyMatchIsClear ==
  ASSUME NEW fuzzy, fuzzy.tie \in Nat, fuzzy.accept \in Nat,
         NEW R, NEW candidates \in Seq(R), NEW values,
         \A i \in DOMAIN candidates : Score(fuzzy, candidates[i], values) \in Nat,
         Fuzzy(fuzzy, Ranked(fuzzy, candidates, values)).status = "MATCHED"
  PROVE  \E i \in DOMAIN candidates :
            /\ Fuzzy(fuzzy, Ranked(fuzzy, candidates, values)).existing = candidates[i]
            /\ Score(fuzzy, candidates[i], values) >= fuzzy.accept
            /\ \A j \in DOMAIN candidates \ {i} :
                  Score(fuzzy, candidates[j], values) + fuzzy.tie
                     <= Score(fuzzy, candidates[i], values)
<1> DEFINE N == Len(candidates)
           score(i) == Score(fuzzy, candidates[i], values)
           scored == [i \in DOMAIN candidates |->
                         [record |-> candidates[i], score |-> score(i)]]
           ranked == Ranked(fuzzy, candidates, values)
           B(i) == Before(scored, i)
           at(m) == CHOOSE i \in 1 .. N : Cardinality(B(i)) = m
           decision == Fuzzy(fuzzy, ranked)
<1>1. N \in Nat /\ DOMAIN candidates = 1 .. N /\ DOMAIN scored = 1 .. N
  OBVIOUS
<1>2. /\ DOMAIN ranked = 1 .. N /\ ranked = [n \in 1 .. N |-> ranked[n]]
      /\ \A n \in 1 .. N : ranked[n] = scored[at(n - 1)]
  <2>1. ranked = Sorted(scored)
    BY DEF Ranked
  <2> HIDE DEF scored
  <2>2. QED BY <1>1, <2>1 DEF Sorted
<1>3. \A i \in 1 .. N : /\ scored[i].record = candidates[i] /\ scored[i].score = score(i)
                        /\ score(i) \in Nat
  BY <1>1
<1>4. \A i, j \in 1 .. N : j \in B(i) <=> \/ score(j) > score(i)
                                          \/ score(j) = score(i) /\ j < i
  BY <1>1, <1>3 DEF Before
<1>5. \A i : B(i) \subseteq 1 .. N
  BY <1>1 DEF Before
<1> HIDE DEF ranked, scored, score, B, at
<1>6. ASSUME NEW T \in SUBSET (1 .. N), T # {}
      PROVE  \E a \in T : \A j \in T \ {a} : a \in B(j) /\ j \notin B(a)
  <2>1. AreScored(scored, N)
    BY <1>1, <1>3 DEF AreScored
  <2> HIDE DEF N
  <2>2. HasFirst(scored, T)
    BY <1>1, <1>6, <2>1, OneGoesFirst
  <2>3. QED BY <2>2 DEF HasFirst, B
<1>7. /\ ranked # << >> /\ ~ IsTie(fuzzy, ranked)
      /\ ranked[1].score >= fuzzy.accept
  <2>1. decision.status = "MATCHED"
    BY DEF decision, ranked
  <2>2. QED BY <2>1 DEF Fuzzy, decision
<1>8. N >= 1
  <2>1. N # 0
    <3>1. ASSUME N = 0 PROVE FALSE
      <4>1. ranked = << >>
        BY <1>1, <1>2, <3>1
      <4>2. QED BY <1>7, <4>1
    <3>2. QED BY <3>1
  <2>2. QED BY <1>1, <2>1
<1>9. PICK a \in 1 .. N : \A j \in (1 .. N) \ {a} : a \in B(j) /\ j \notin B(a)
  <2>1. 1 .. N # {}
    BY <1>1, <1>8
  <2>2. QED BY <1>6, <2>1
<1>10. \A i \in 1 .. N : i \notin B(i)
  BY <1>3, <1>4
<1>0. \A i \in 1 .. N : IsFiniteSet(B(i))
  <2>1. IsFiniteSet(1 .. N)
    BY <1>1, FS_Interval
  <2>2. QED BY <1>5, <2>1, FS_Subset
<1>11. B(a) = {}
  BY <1>5, <1>9, <1>10
<1>12. ranked[1] = scored[a]
  <2>1. Cardinality(B(a)) = 0
    BY <1>11, FS_EmptySet
  <2>2. ASSUME NEW i \in 1 .. N, Cardinality(B(i)) = 0 PROVE i = a
    <3>1. B(i) = {}
      BY <1>0, <2>2, FS_EmptySet
    <3>2. QED BY <1>9, <3>1
  <2>3. at(0) = a
    BY <2>1, <2>2 DEF at
  <2>4. 1 \in 1 .. N /\ 1 - 1 = 0
    BY <1>1, <1>8
  <2>5. QED BY <1>2, <2>3, <2>4
<1>13. ASSUME NEW j \in (1 .. N) \ {a} PROVE score(j) + fuzzy.tie <= score(a)
  <2> DEFINE T == (1 .. N) \ {a}
  <2>1. PICK b \in T : \A i \in T \ {b} : b \in B(i) /\ i \notin B(b)
    <3>1. T \in SUBSET (1 .. N) /\ T # {}
      BY <1>13
    <3> HIDE DEF T
    <3>2. QED BY <1>6, <3>1
  <2>2. B(b) = {a}
    BY <1>5, <1>9, <1>10, <2>1
  <2>3. Cardinality(B(b)) = 1
    BY <2>2, FS_Singleton
  <2>4. ASSUME NEW i \in 1 .. N, Cardinality(B(i)) = 1 PROVE i = b
    <3>1. CASE i = a
      <4>1. Cardinality(B(a)) = 0
        BY <1>11, FS_EmptySet
      <4>2. QED BY <2>4, <3>1, <4>1
    <3>2. CASE i \in T \ {b}
      <4>1. a \in B(i) /\ b \in B(i) /\ a # b
        BY <1>9, <2>1, <3>2
      <4>2. PICK x : B(i) = {x}
        BY <1>0, <2>4, FS_Singleton
      <4>3. QED BY <4>1, <4>2
    <3>3. QED BY <3>1, <3>2
  <2>5. N >= 2
    BY <1>1, <1>13
  <2>6. ranked[2] = scored[b]
    <3>1. at(1) = b
      BY <2>3, <2>4 DEF at
    <3>2. 2 \in 1 .. N /\ 2 - 1 = 1
      BY <1>1, <2>5
    <3>3. QED BY <1>2, <3>1, <3>2
  <2>7. ~ (ranked[1].score < ranked[2].score + fuzzy.tie)
    <3>1. Len(ranked) = N
      <4> DEFINE S == {ranked[n] : n \in 1 .. N}
      <4>1. \A n \in 1 .. N : ranked[n] \in S
        OBVIOUS
      <4> HIDE DEF S, N
      <4>2. ranked = [n \in 1 .. N |-> ranked[n]]
        BY <1>2
      <4>3. ranked \in [1 .. N -> S]
        BY <4>1, <4>2, Zenon
      <4>4. QED BY <1>1, <4>3
    <3>2. QED BY <1>7, <2>5, <3>1 DEF IsTie
  <2>8. score(b) + fuzzy.tie <= score(a)
    <3>1. ~ (score(a) < score(b) + fuzzy.tie)
      BY <1>3, <1>12, <2>6, <2>7
    <3>2. score(a) \in Nat /\ score(b) \in Nat
      BY <1>3
    <3>3. QED BY <3>1, <3>2
  <2>9. score(j) <= score(b)
    <3>1. CASE j = b
      BY <1>3, <3>1
    <3>2. CASE j # b
      <4>1. b \in B(j)
        BY <1>13, <2>1, <3>2
      <4>2. QED BY <1>3, <1>4, <1>13, <4>1
    <3>3. QED BY <3>1, <3>2
  <2>10. score(a) \in Nat /\ score(b) \in Nat /\ score(j) \in Nat
    BY <1>3, <1>13
  <2>11. QED BY <2>8, <2>9, <2>10
<1>14. /\ decision.existing = candidates[a] /\ score(a) >= fuzzy.accept
  <2>1. score(a) >= fuzzy.accept /\ ranked[1].score = score(a) /\ ranked[1].record = candidates[a]
    BY <1>3, <1>7, <1>12
  <2>2. ~ (ranked[1].score < fuzzy.accept)
    <3>1. score(a) \in Nat
      BY <1>3
    <3>2. QED BY <2>1, <3>1
  <2>3. decision = [status |-> "MATCHED", existing |-> ranked[1].record]
    BY <1>7, <2>2 DEF Fuzzy, decision
  <2>4. QED BY <2>1, <2>3
<1>15. QED BY <1>1, <1>13, <1>14 DEF score, decision, ranked
=============================================================================
