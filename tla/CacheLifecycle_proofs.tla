------------------------ MODULE CacheLifecycle_proofs ------------------------
(***************************************************************************)
(* What the graph of the datasets computes; and that the tables of the     *)
(* cache agree with each other and a clean refresh leaves no gap, for any  *)
(* datasets, dependencies, records, processes and numbers of commands.     *)
(***************************************************************************)
EXTENDS CacheLifecycle, FiniteSetTheorems, WellFoundedInduction, TLAPS

----------------------------------------------------------------------------
(* The graph of the datasets                                               *)

\* A set of numbers that has 0, and the successor of each of its numbers, has all.
LEMMA AllNumbers ==
  ASSUME NEW P \in SUBSET Nat, 0 \in P, \A k \in P : k + 1 \in P
  PROVE  P = Nat
<1>1. SUFFICES ASSUME Nat \ P # {} PROVE FALSE OBVIOUS
<1>2. PICK k \in Nat \ P : \A j \in Nat \ P : ~ (<<j, k>> \in OpToRel(<, Nat))
  BY <1>1, WFMin, NatLessThanWellFounded
<1>3. k - 1 \in Nat /\ k - 1 < k OBVIOUS
<1>4. <<k - 1, k>> \in OpToRel(<, Nat) BY <1>3 DEF OpToRel
<1>5. k - 1 \in P BY <1>2, <1>3, <1>4
<1>6. QED BY <1>3, <1>5

\* A recursion of N steps, each of them a function on D, has a value at every step.
Steps(N, D) == [1..N -> [D -> D]]
Goes(N, D, start, step) ==
  \E f \in [0..N -> D] : f[0] = start /\ \A k \in 1..N : f[k] = step[k][f[k-1]]

LEMMA Recursion ==
  ASSUME NEW N \in Nat, NEW D, NEW start \in D, NEW step \in Steps(N, D)
  PROVE  Goes(N, D, start, step)
<1> USE DEF Steps, Goes
<1> DEFINE IsRun(f, m) == f[0] = start /\ \A k \in 1..m : f[k] = step[k][f[k-1]]
           P == {m \in Nat : m <= N => \E f \in [0..m -> D] : IsRun(f, m)}
<1>1. 0 \in P
  <2>1. IsRun([k \in 0..0 |-> start], 0) OBVIOUS
  <2>2. [k \in 0..0 |-> start] \in [0..0 -> D] OBVIOUS
  <2> HIDE DEF IsRun
  <2>3. QED BY <2>1, <2>2
<1>2. ASSUME NEW m \in P PROVE m + 1 \in P
  <2>1. SUFFICES ASSUME m + 1 <= N PROVE \E f \in [0..m + 1 -> D] : IsRun(f, m + 1) OBVIOUS
  <2>2. m \in Nat /\ m <= N /\ m + 1 \in 1..N BY <2>1
  <2>3. PICK f \in [0..m -> D] : IsRun(f, m) BY <2>2
  <2> DEFINE g == [k \in 0..m + 1 |-> IF k = m + 1 THEN step[m + 1][f[m]] ELSE f[k]]
  <2>4. step[m + 1][f[m]] \in D BY <2>2, <2>3
  <2>5. g \in [0..m + 1 -> D] BY <2>2, <2>3, <2>4
  <2>6. ASSUME NEW k \in 1..m + 1 PROVE g[k] = step[k][g[k-1]]
    <3>1. CASE k = m + 1 BY <2>2, <3>1
    <3>2. CASE k \in 1..m BY <2>2, <2>3, <3>2
    <3>3. QED BY <2>2, <3>1, <3>2
  <2>7. g[0] = start BY <2>2, <2>3
  <2>8. IsRun(g, m + 1) BY <2>6, <2>7
  <2> HIDE DEF g, IsRun
  <2>9. QED BY <2>5, <2>8
<1>3. P \in SUBSET Nat OBVIOUS
<1> HIDE DEF P
<1>4. P = Nat BY <1>1, <1>2, <1>3, AllNumbers
<1>5. QED BY <1>4 DEF P

\* w has the elements of seq that are in set, in the order they have there.
Picks(seq, set, w) ==
  \E at \in [1..Len(w) -> 1..Len(seq)] :
     /\ \A i \in 1..Len(w) : w[i] = seq[at[i]] /\ seq[at[i]] \in set
     /\ \A i, j \in 1..Len(w) : i < j => at[i] < at[j]
     /\ \A n \in 1..Len(seq) : seq[n] \in set => \E i \in 1..Len(w) : at[i] = n

LEMMA WithinOrder ==
  ASSUME NEW S, NEW seq \in Seq(S), NEW set
  PROVE  Within(seq, set) \in Seq(S) /\ Picks(seq, set, Within(seq, set))
<1> DEFINE N == Len(seq)
           more(k, s) == IF seq[k] \in set THEN Append(s, seq[k]) ELSE s
           IsKept(f) == f = [k \in 0..N |-> IF k = 0 THEN <<>> ELSE more(k, f[k-1])]
           step == [k \in 1..N |-> [s \in Seq(S) |-> more(k, s)]]
           kept[k \in 0..N] == IF k = 0 THEN <<>> ELSE more(k, kept[k-1])
<1>1. N \in Nat /\ \A k \in 1..N : seq[k] \in S OBVIOUS
<1>2. Within(seq, set) = kept[N] BY DEF Within
<1>3. step \in [1..N -> [Seq(S) -> Seq(S)]]
  <2>1. \A k \in 1..N : \A s \in Seq(S) : more(k, s) \in Seq(S) BY <1>1
  <2> HIDE DEF N, more
  <2>2. QED BY <2>1
<1>4. PICK f \in [0..N -> Seq(S)] : f[0] = <<>> /\ \A k \in 1..N : f[k] = step[k][f[k-1]]
  <2>1. <<>> \in Seq(S) OBVIOUS
  <2>2. step \in Steps(N, Seq(S)) BY <1>3 DEF Steps
  <2> HIDE DEF N, step
  <2>3. Goes(N, Seq(S), <<>>, step) BY <1>1, <2>1, <2>2, Recursion
  <2>4. QED BY <2>3 DEF Goes
<1>5. IsKept(f)
  <2> HIDE DEF N, more
  <2>1. \A k \in 1..N : f[k-1] \in Seq(S) /\ k \in 0..N /\ k # 0 BY <1>1, <1>4
  <2>2. \A k \in 1..N : f[k] = more(k, f[k-1]) BY <1>4, <2>1
  <2>3. \A k \in 0..N : k = 0 \/ k \in 1..N BY <1>1
  <2>4. \A k \in 0..N : f[k] = IF k = 0 THEN <<>> ELSE more(k, f[k-1]) BY <1>4, <2>2, <2>3
  <2>5. QED BY <1>4, <2>4
<1>6. IsKept(kept)
  <2> HIDE DEF N, more
  <2>1. QED BY <1>5
<1> HIDE DEF kept, step
<1>7. kept[0] = <<>> /\ \A k \in 1..N : kept[k] = more(k, kept[k-1])
  <2> HIDE DEF N, more
  <2>1. QED BY <1>1, <1>6
<1> DEFINE Split(s, at, k) ==
             /\ s \in Seq(S) /\ at \in [1..Len(s) -> 1..k]
             /\ \A i \in 1..Len(s) : s[i] = seq[at[i]] /\ seq[at[i]] \in set
             /\ \A i, j \in 1..Len(s) : i < j => at[i] < at[j]
             /\ \A n \in 1..k : seq[n] \in set => \E i \in 1..Len(s) : at[i] = n
           P == {k \in Nat : k <= N => \E at : Split(kept[k], at, k)}
<1>8. 0 \in P
  <2>1. Split(<<>>, <<>>, 0) OBVIOUS
  <2> HIDE DEF Split
  <2>2. QED BY <1>7, <2>1
<1>9. ASSUME NEW k \in Nat, k + 1 <= N, NEW at, Split(kept[k], at, k)
      PROVE  \E bt : Split(kept[k + 1], bt, k + 1)
  <2>2. k + 1 \in 1..N /\ (k + 1) - 1 = k BY <1>1, <1>9
  <2> DEFINE s == kept[k]
             t == kept[k + 1]
  <2>4. t = more(k + 1, s) BY <1>7, <2>2
  <2>5. Split(s, at, k) BY <1>9
  <2> HIDE DEF s, t
  <2>6. CASE seq[k + 1] \notin set
    <3>1. t = s BY <2>4, <2>6
    <3>2. Split(s, at, k + 1)
      <4>1. at \in [1..Len(s) -> 1..k + 1] BY <2>2, <2>5
      <4>2. ASSUME NEW n \in 1..k + 1, seq[n] \in set PROVE n \in 1..k BY <2>2, <2>6, <4>2
      <4>3. QED BY <2>5, <4>1, <4>2
    <3> HIDE DEF Split
    <3>3. QED BY <3>1, <3>2 DEF t
  <2>7. CASE seq[k + 1] \in set
    <3>1. t = Append(s, seq[k + 1]) /\ seq[k + 1] \in S BY <1>1, <2>2, <2>4, <2>7
    <3>2. /\ t \in Seq(S) /\ Len(s) \in Nat /\ Len(t) = Len(s) + 1
          /\ \A i \in 1..Len(s) : t[i] = s[i]
          /\ t[Len(s) + 1] = seq[k + 1]
      BY <2>5, <3>1
    <3> DEFINE bt == [i \in 1..Len(t) |-> IF i = Len(s) + 1 THEN k + 1 ELSE at[i]]
    <3>3. \A i \in 1..Len(t) : i = Len(s) + 1 \/ i \in 1..Len(s) BY <3>2
    <3>4. /\ \A i \in 1..Len(s) : bt[i] = at[i] /\ at[i] \in 1..k /\ i \in 1..Len(t)
          /\ bt[Len(s) + 1] = k + 1 /\ Len(s) + 1 \in 1..Len(t)
      <4>1. \A i \in 1..Len(s) : at[i] \in 1..k BY <2>5
      <4>2. \A i \in 1..Len(s) : i \in 1..Len(t) /\ i # Len(s) + 1 BY <3>2
      <4>3. Len(s) + 1 \in 1..Len(t) BY <3>2
      <4>4. QED BY <4>1, <4>2, <4>3
    <3>5. bt \in [1..Len(t) -> 1..k + 1] BY <2>2, <2>5, <3>2, <3>3
    <3> HIDE DEF bt
    <3>6. \A i \in 1..Len(t) : t[i] = seq[bt[i]] /\ seq[bt[i]] \in set
      BY <2>5, <2>7, <3>2, <3>3, <3>4
    <3>7. ASSUME NEW i \in 1..Len(t), NEW j \in 1..Len(t), i < j PROVE bt[i] < bt[j]
      <4>1. i \in 1..Len(s) BY <3>2, <3>7
      <4>2. CASE j \in 1..Len(s) BY <2>5, <3>4, <3>7, <4>1, <4>2
      <4>3. CASE j = Len(s) + 1
        <5>1. bt[i] \in 1..k /\ bt[j] = k + 1 BY <3>4, <4>1, <4>3
        <5>2. QED BY <5>1
      <4>4. QED BY <3>3, <4>2, <4>3
    <3>8. ASSUME NEW n \in 1..k + 1, seq[n] \in set PROVE \E i \in 1..Len(t) : bt[i] = n
      <4>1. CASE n = k + 1 BY <3>4, <4>1
      <4>2. CASE n \in 1..k
        <5>1. PICK i \in 1..Len(s) : at[i] = n BY <2>5, <3>8, <4>2
        <5>2. QED BY <3>4, <5>1
      <4>3. QED BY <2>2, <4>1, <4>2
    <3>9. Split(t, bt, k + 1) BY <3>2, <3>5, <3>6, <3>7, <3>8
    <3> HIDE DEF Split
    <3>10. QED BY <3>9 DEF t
  <2>8. QED BY <2>6, <2>7
<1> HIDE DEF Split, N
<1>10. ASSUME NEW k \in P PROVE k + 1 \in P
  <2>1. k \in Nat /\ (k <= N => \E at : Split(kept[k], at, k)) OBVIOUS
  <2>2. k + 1 <= N => k <= N BY <1>1, <2>1
  <2>3. k + 1 <= N => \E at : Split(kept[k + 1], at, k + 1) BY <1>9, <2>1, <2>2
  <2>4. QED BY <2>1, <2>3
<1>11. P \in SUBSET Nat OBVIOUS
<1>12. P = Nat
  <2> HIDE DEF P
  <2>1. QED BY <1>8, <1>10, <1>11, AllNumbers
<1>13. PICK at : Split(kept[N], at, N)
  <2>1. N <= N BY <1>1
  <2>2. N \in P
    <3> HIDE DEF P
    <3>1. QED BY <1>1, <1>12
  <2>3. QED BY <2>1, <2>2
<1>14. Split(Within(seq, set), at, N) BY <1>2, <1>13
<1>15. QED BY <1>14 DEF Split, N, Picks

\* No element twice.
Distinct(seq) == \A i, j \in 1..Len(seq) : seq[i] = seq[j] => i = j

LEMMA WithinMembers ==
  ASSUME NEW S, NEW seq \in Seq(S), NEW set
  PROVE  /\ Within(seq, set) \in Seq(S)
         /\ Members(Within(seq, set)) = Members(seq) \cap set
         /\ Distinct(seq) => Distinct(Within(seq, set))
<1> DEFINE w == Within(seq, set)
<1>2. w \in Seq(S) /\ Picks(seq, set, w) BY WithinOrder
<1> HIDE DEF w
<1>1. PICK at \in [1..Len(w) -> 1..Len(seq)] :
        /\ \A i \in 1..Len(w) : w[i] = seq[at[i]] /\ seq[at[i]] \in set
        /\ \A i, j \in 1..Len(w) : i < j => at[i] < at[j]
        /\ \A n \in 1..Len(seq) : seq[n] \in set => \E i \in 1..Len(w) : at[i] = n
  BY <1>2 DEF Picks
<1>3. DOMAIN w = 1..Len(w) /\ DOMAIN seq = 1..Len(seq) /\ Len(w) \in Nat BY <1>2
<1>4. Members(w) = Members(seq) \cap set
  <2>1. Members(w) \subseteq Members(seq) \cap set BY <1>1, <1>3 DEF Members
  <2>2. ASSUME NEW n \in 1..Len(seq), seq[n] \in set PROVE seq[n] \in Members(w)
    <3>1. PICK i \in 1..Len(w) : at[i] = n BY <1>1, <2>2
    <3>2. w[i] = seq[n] /\ i \in DOMAIN w BY <1>1, <1>3, <3>1
    <3>3. QED BY <3>2, Zenon DEF Members
  <2>3. Members(seq) \cap set \subseteq Members(w) BY <1>3, <2>2 DEF Members
  <2>4. QED BY <2>1, <2>3
<1>5. ASSUME Distinct(seq), NEW i \in 1..Len(w), NEW j \in 1..Len(w), w[i] = w[j] PROVE i = j
  <2>1. at[i] = at[j] /\ at[i] \in Nat BY <1>1, <1>5 DEF Distinct
  <2>2. ~ (i < j) /\ ~ (j < i) BY <1>1, <2>1
  <2>3. QED BY <1>3, <2>2
<1>6. QED BY <1>2, <1>4, <1>5 DEF w, Distinct

LEMMA AppendMembers ==
  ASSUME NEW S, NEW seq \in Seq(S), NEW x \in S
  PROVE  /\ Append(seq, x) \in Seq(S) /\ Members(Append(seq, x)) = Members(seq) \cup {x}
         /\ Distinct(seq) /\ x \notin Members(seq) => Distinct(Append(seq, x))
<1> DEFINE t == Append(seq, x)
<1>1. /\ t \in Seq(S) /\ Len(t) = Len(seq) + 1 /\ Len(seq) \in Nat
      /\ DOMAIN t = 1..Len(t) /\ DOMAIN seq = 1..Len(seq)
      /\ \A i \in 1..Len(seq) : t[i] = seq[i]
      /\ t[Len(seq) + 1] = x
  OBVIOUS
<1> HIDE DEF t
<1>2. \A i \in 1..Len(t) : i \in 1..Len(seq) \/ i = Len(seq) + 1 BY <1>1
<1>3. Len(seq) + 1 \in 1..Len(t) /\ \A i \in 1..Len(seq) : i \in 1..Len(t) BY <1>1
<1>4. Members(t) = Members(seq) \cup {x} BY <1>1, <1>2, <1>3 DEF Members
<1>5. ASSUME Distinct(seq), x \notin Members(seq) PROVE Distinct(t)
  <2>1. \A i \in 1..Len(seq) : seq[i] # x BY <1>1, <1>5 DEF Members
  <2>2. QED BY <1>1, <1>2, <1>5, <2>1 DEF Distinct
<1>6. QED BY <1>1, <1>4, <1>5 DEF t

LEMMA ConcatMembers ==
  ASSUME NEW S, NEW s \in Seq(S), NEW t \in Seq(S)
  PROVE  /\ s \o t \in Seq(S) /\ Members(s \o t) = Members(s) \cup Members(t)
         /\ Distinct(s) /\ Distinct(t) /\ Members(s) \cap Members(t) = {} => Distinct(s \o t)
<1> DEFINE u == s \o t
<1>1. /\ u \in Seq(S) /\ Len(u) = Len(s) + Len(t) /\ Len(s) \in Nat /\ Len(t) \in Nat
      /\ DOMAIN u = 1..Len(u) /\ DOMAIN s = 1..Len(s) /\ DOMAIN t = 1..Len(t)
      /\ \A i \in 1..Len(u) : u[i] = IF i <= Len(s) THEN s[i] ELSE t[i - Len(s)]
  OBVIOUS
<1> HIDE DEF u
<1>2. ASSUME NEW i \in 1..Len(u)
      PROVE  \/ i \in 1..Len(s) /\ u[i] = s[i]
             \/ i - Len(s) \in 1..Len(t) /\ u[i] = t[i - Len(s)]
  BY <1>1
<1>3. /\ \A i \in 1..Len(s) : i \in 1..Len(u) /\ u[i] = s[i]
      /\ \A i \in 1..Len(t) : i + Len(s) \in 1..Len(u) /\ u[i + Len(s)] = t[i]
  <2>1. ASSUME NEW i \in 1..Len(t) PROVE i + Len(s) \in 1..Len(u) /\ u[i + Len(s)] = t[i]
    <3>1. /\ i + Len(s) \in 1..Len(u) /\ ~ (i + Len(s) <= Len(s))
          /\ (i + Len(s)) - Len(s) = i
      BY <1>1
    <3>2. QED BY <1>1, <3>1
  <2>2. QED BY <1>1, <2>1
<1>4. Members(u) = Members(s) \cup Members(t)
  <2>1. Members(u) \subseteq Members(s) \cup Members(t) BY <1>1, <1>2 DEF Members
  <2>2. Members(s) \subseteq Members(u) BY <1>1, <1>3 DEF Members
  <2>3. ASSUME NEW i \in 1..Len(t) PROVE t[i] \in Members(u)
    <3>1. i + Len(s) \in DOMAIN u /\ u[i + Len(s)] = t[i] BY <1>1, <1>3
    <3>2. QED BY <3>1, Zenon DEF Members
  <2>4. Members(t) \subseteq Members(u) BY <1>1, <2>3 DEF Members
  <2>5. QED BY <2>1, <2>2, <2>4
<1>5. ASSUME Distinct(s), Distinct(t), Members(s) \cap Members(t) = {} PROVE Distinct(u)
  <2>1. \A i \in 1..Len(s), j \in 1..Len(t) : s[i] # t[j] BY <1>1, <1>5 DEF Members
  <2>2. SUFFICES ASSUME NEW i \in 1..Len(u), NEW j \in 1..Len(u), u[i] = u[j] PROVE i = j
    BY DEF Distinct
  <2>3. CASE i \in 1..Len(s) /\ u[i] = s[i]
    BY <1>2, <1>5, <2>1, <2>2, <2>3 DEF Distinct
  <2>4. CASE i - Len(s) \in 1..Len(t) /\ u[i] = t[i - Len(s)]
    <3>1. j - Len(s) \in 1..Len(t) /\ u[j] = t[j - Len(s)] BY <1>2, <2>1, <2>2, <2>4
    <3>2. i - Len(s) = j - Len(s) BY <1>5, <2>2, <2>4, <3>1 DEF Distinct
    <3>3. QED BY <1>1, <3>2
  <2>5. QED BY <1>2, <2>3, <2>4
<1>6. QED BY <1>1, <1>4, <1>5 DEF u

LEMMA TailMembers ==
  ASSUME NEW S, NEW seq \in Seq(S), seq # <<>>
  PROVE  /\ Head(seq) \in Members(seq) /\ Tail(seq) \in Seq(S)
         /\ Distinct(seq) => /\ Distinct(Tail(seq))
                             /\ Members(Tail(seq)) = Members(seq) \ {Head(seq)}
<1> DEFINE t == Tail(seq)
<1>1. /\ t \in Seq(S) /\ Len(t) = Len(seq) - 1 /\ Len(seq) \in Nat /\ Len(seq) # 0
      /\ DOMAIN t = 1..Len(t) /\ DOMAIN seq = 1..Len(seq)
      /\ \A i \in 1..Len(t) : t[i] = seq[i + 1]
      /\ Head(seq) = seq[1]
  OBVIOUS
<1> HIDE DEF t
<1>2. 1 \in 1..Len(seq) /\ \A i \in 1..Len(t) : i + 1 \in 1..Len(seq) /\ i + 1 # 1 BY <1>1
<1>3. Head(seq) \in Members(seq) BY <1>1, <1>2 DEF Members
<1>4. ASSUME Distinct(seq) PROVE Distinct(t) /\ Members(t) = Members(seq) \ {Head(seq)}
  <2>1. Distinct(t) BY <1>1, <1>2, <1>4 DEF Distinct
  <2>2. \A i \in 1..Len(t) : t[i] # Head(seq) BY <1>1, <1>2, <1>4 DEF Distinct
  <2>3. Members(t) \subseteq Members(seq) \ {Head(seq)} BY <1>1, <1>2, <2>2 DEF Members
  <2>4. ASSUME NEW i \in 1..Len(seq), seq[i] # Head(seq)
        PROVE  i - 1 \in 1..Len(t) /\ t[i - 1] = seq[i]
    <3>1. i # 1 BY <1>1, <2>4
    <3>2. i - 1 \in 1..Len(t) /\ (i - 1) + 1 = i BY <1>1, <3>1
    <3>3. QED BY <1>1, <3>2
  <2>5. \A i \in 1..Len(t) : t[i] \in Members(t) BY <1>1, Zenon DEF Members
  <2>6. \A i \in 1..Len(seq) : seq[i] # Head(seq) => seq[i] \in Members(t) BY <2>4, <2>5
  <2>7. Members(seq) \ {Head(seq)} \subseteq Members(t) BY <1>1, <2>6 DEF Members
  <2>8. QED BY <2>1, <2>3, <2>7
<1>5. QED BY <1>1, <1>3, <1>4 DEF t

\* What the constructor of the graph makes sure of: no dataset twice, and no
\* dependency on an unknown one (CacheDependencyGraph.__init__).
Registry(datasets, deps) ==
  /\ datasets \in Seq(Members(datasets)) /\ Distinct(datasets)
  /\ deps \in [Members(datasets) -> SUBSET Members(datasets)]

\* A dataset comes after all it depends on.
DepsFirst(order, deps) ==
  \A i \in 1..Len(order) : \A e \in deps[order[i]] : \E j \in 1..i - 1 : order[j] = e

\* In each round what is ordered and what is queued are the datasets of which every
\* dependency is ordered.
Sorting(datasets, deps, s) ==
  /\ s.queue \in Seq(Members(datasets)) /\ s.ordered \in Seq(Members(datasets))
  /\ Distinct(s.queue) /\ Distinct(s.ordered)
  /\ Members(s.queue) \cap Members(s.ordered) = {}
  /\ Members(s.queue) \cup Members(s.ordered)
       = {d \in Members(datasets) : deps[d] \subseteq Members(s.ordered)}
  /\ DepsFirst(s.ordered, deps)

LEMMA VisitSorts ==
  ASSUME NEW datasets, NEW deps, Registry(datasets, deps), NEW s, Sorting(datasets, deps, s),
         s.queue # <<>>
  PROVE  /\ Sorting(datasets, deps, Visit(s, datasets, deps))
         /\ Len(Visit(s, datasets, deps).ordered) = Len(s.ordered) + 1
<1> DEFINE S == Members(datasets)
           c == Head(s.queue)
           before == Members(s.ordered)
           ready == {d \in S : c \in deps[d] /\ deps[d] \subseteq before \cup {c}}
           freed == Freed(datasets, deps, before, c)
           rest == Tail(s.queue)
           t == Visit(s, datasets, deps)
<1>1. t.queue = rest \o freed /\ t.ordered = Append(s.ordered, c) BY DEF Visit
<1>2. /\ datasets \in Seq(S) /\ Distinct(datasets) /\ deps \in [S -> SUBSET S]
      /\ s.queue \in Seq(S) /\ s.ordered \in Seq(S)
      /\ Distinct(s.queue) /\ Distinct(s.ordered)
      /\ Members(s.queue) \cap before = {}
      /\ Members(s.queue) \cup before = {d \in S : deps[d] \subseteq before}
  BY DEF Registry, Sorting
<1>3. freed \in Seq(S) /\ Distinct(freed) /\ Members(freed) = S \cap ready
  <2>1. freed = Within(datasets, ready) BY DEF Freed
  <2> HIDE DEF freed, ready, S
  <2>2. QED BY <1>2, <2>1, WithinMembers DEF S
<1>4. /\ c \in Members(s.queue) /\ rest \in Seq(S) /\ Distinct(rest)
      /\ Members(rest) = Members(s.queue) \ {c}
  <2> HIDE DEF S
  <2>1. QED BY <1>2, TailMembers
<1>5. c \in S /\ c \notin before /\ deps[c] \subseteq before BY <1>2, <1>4
<1> HIDE DEF S, c, before, freed, rest, t
<1>6. /\ t.ordered \in Seq(S) /\ Distinct(t.ordered)
      /\ Members(t.ordered) = before \cup {c}
  BY <1>1, <1>2, <1>5, AppendMembers DEF before
<1>7. Members(rest) \cap Members(freed) = {} BY <1>2, <1>3, <1>4, <1>5
<1>8. /\ t.queue \in Seq(S) /\ Distinct(t.queue)
      /\ Members(t.queue) = Members(rest) \cup Members(freed)
  BY <1>1, <1>3, <1>4, <1>7, ConcatMembers
<1>9. Members(t.queue) \cap Members(t.ordered) = {}
  BY <1>2, <1>3, <1>4, <1>5, <1>6, <1>8
<1>10. Members(t.queue) \cup Members(t.ordered)
         = {d \in S : deps[d] \subseteq Members(t.ordered)}
  <2>1. \A d \in S : deps[d] \subseteq before \cup {c} <=>
                        d \in Members(s.queue) \cup before \/ d \in ready
    BY <1>2
  <2>2. Members(t.queue) \cup Members(t.ordered) = (Members(s.queue) \cup before) \cup ready
    BY <1>3, <1>4, <1>6, <1>8
  <2>3. Members(s.queue) \cup before \subseteq S BY <1>2
  <2>4. QED BY <1>6, <2>1, <2>2, <2>3
<1>11. Len(t.ordered) = Len(s.ordered) + 1 BY <1>1, <1>2, <1>5
<1>12. DepsFirst(t.ordered, deps)
  <2> DEFINE o == s.ordered
             n == Len(o) + 1
  <2>1. /\ \A i \in 1..Len(o) : t.ordered[i] = o[i]
        /\ t.ordered[n] = c /\ Len(o) \in Nat
    BY <1>1, <1>2, <1>5
  <2>2. \A i \in 1..Len(o) : \A e \in deps[o[i]] : \E j \in 1..i - 1 : o[j] = e
    BY DEF Sorting, DepsFirst
  <2>3. \A e \in deps[c] : \E j \in 1..Len(o) : o[j] = e
    BY <1>2, <1>5 DEF before, Members
  <2> HIDE DEF o
  <2>4. SUFFICES ASSUME NEW i \in 1..n, NEW e \in deps[t.ordered[i]]
                 PROVE  \E j \in 1..i - 1 : t.ordered[j] = e
    BY <1>11 DEF DepsFirst, o
  <2>5. CASE i \in 1..Len(o)
    <3>1. PICK j \in 1..i - 1 : o[j] = e BY <2>1, <2>2, <2>4, <2>5
    <3>2. j \in 1..Len(o) BY <2>1, <2>5
    <3>3. QED BY <2>1, <3>1, <3>2
  <2>6. CASE i = n
    <3>1. PICK j \in 1..Len(o) : o[j] = e BY <2>1, <2>3, <2>4, <2>6
    <3>2. j \in 1..i - 1 BY <2>1, <2>6
    <3>3. QED BY <2>1, <3>1, <3>2
  <2>7. QED BY <2>1, <2>5, <2>6
<1>13. QED BY <1>6, <1>8, <1>9, <1>10, <1>11, <1>12 DEF Sorting, S, t

LEMMA DistinctCount ==
  ASSUME NEW S, NEW seq \in Seq(S), Distinct(seq)
  PROVE  IsFiniteSet(Members(seq)) /\ Cardinality(Members(seq)) = Len(seq)
<1>1. Len(seq) \in Nat /\ DOMAIN seq = 1..Len(seq) OBVIOUS
<1>2. IsFiniteSet(1..Len(seq)) /\ Cardinality(1..Len(seq)) = Len(seq)
  BY <1>1, FS_Interval, SMTT(60)
<1> DEFINE f == [i \in 1..Len(seq) |-> seq[i]]
<1>3. f \in Bijection(1..Len(seq), Members(seq))
  BY <1>1 DEF Distinct, Members, Bijection, Injection, Surjection, IsInjective
<1>4. QED BY <1>2, <1>3, FS_Bijection DEF ExistsBijection

\* The order ends with an empty queue: a round per dataset is enough.
LEMMA OrderSorts ==
  ASSUME NEW datasets, NEW deps, Registry(datasets, deps)
  PROVE  \E s : /\ Sorting(datasets, deps, s) /\ s.queue = <<>>
                /\ s.ordered = TopologicalOrder(datasets, deps)
<1> DEFINE S == Members(datasets)
           N == Len(datasets)
           D == [queue : Seq(S), ordered : Seq(S)]
           start == [queue |-> Within(datasets, {d \in S : deps[d] = {}}), ordered |-> <<>>]
           go(s) == IF s.queue = <<>> THEN s ELSE Visit(s, datasets, deps)
           IsRound(f) == f = [n \in 0..N |-> IF n = 0 THEN start ELSE go(f[n-1])]
           step == [n \in 1..N |-> [s \in D |-> go(s)]]
           round[n \in 0..N] == IF n = 0 THEN start ELSE go(round[n-1])
<1>1. /\ datasets \in Seq(S) /\ Distinct(datasets) /\ deps \in [S -> SUBSET S] /\ N \in Nat
  BY DEF Registry
<1>2. TopologicalOrder(datasets, deps) = round[N].ordered BY DEF TopologicalOrder
<1>3. /\ start.queue \in Seq(S) /\ start.ordered = <<>> /\ start \in D
      /\ Members(start.queue) = {d \in S : deps[d] = {}} /\ Distinct(start.queue)
  <2> DEFINE free == {d \in S : deps[d] = {}}
  <2> HIDE DEF free
  <2>1. Within(datasets, free) \in Seq(S) /\ Distinct(Within(datasets, free))
        /\ Members(Within(datasets, free)) = S \cap free
    BY <1>1, WithinMembers DEF S
  <2>2. S \cap free = {d \in S : deps[d] = {}} BY DEF free
  <2>3. QED BY <2>1, <2>2 DEF free
<1>4. \A s \in D : go(s) \in D
  <2>1. SUFFICES ASSUME NEW s \in D, s.queue # <<>> PROVE Visit(s, datasets, deps) \in D
    OBVIOUS
  <2> DEFINE ready == {d \in S : Head(s.queue) \in deps[d]
                                 /\ deps[d] \subseteq Members(s.ordered) \cup {Head(s.queue)}}
  <2>2. Freed(datasets, deps, Members(s.ordered), Head(s.queue)) = Within(datasets, ready)
    BY DEF Freed
  <2> HIDE DEF ready, S
  <2>3. Freed(datasets, deps, Members(s.ordered), Head(s.queue)) \in Seq(S)
    BY <1>1, <2>2, WithinMembers
  <2>4. Head(s.queue) \in S /\ Tail(s.queue) \in Seq(S) BY <2>1
  <2>5. QED BY <2>1, <2>3, <2>4 DEF Visit
<1> HIDE DEF start, go, S
<1>5. step \in Steps(N, D) BY <1>4 DEF Steps
<1>6. IsRound(round)
  <2>1. Goes(N, D, start, step)
    <3> HIDE DEF N, D, step
    <3>1. QED BY <1>1, <1>3, <1>5, Recursion
  <2>2. PICK f \in [0..N -> D] : f[0] = start /\ \A n \in 1..N : f[n] = step[n][f[n-1]]
    BY <2>1 DEF Goes
  <2>3. \A n \in 1..N : f[n] = go(f[n-1])
    <3>1. \A n \in 1..N : n - 1 \in 0..N BY <1>1
    <3>2. \A n \in 1..N : \A s \in D : step[n][s] = go(s) OBVIOUS
    <3> HIDE DEF N, D, step
    <3>3. QED BY <2>2, <3>1, <3>2
  <2>4. IsRound(f)
    <3> HIDE DEF D
    <3>1. \A n \in 0..N : n = 0 \/ n \in 1..N BY <1>1
    <3>2. \A n \in 0..N : f[n] = IF n = 0 THEN start ELSE go(f[n-1]) BY <2>2, <2>3, <3>1
    <3>3. QED BY <2>2, <3>2
  <2> HIDE DEF N, D
  <2>5. QED BY <2>4
<1> HIDE DEF round, step, D
<1>7. round[0] = start /\ \A n \in Nat : n + 1 <= N => round[n + 1] = go(round[n])
  <2>1. \A n \in Nat : n + 1 <= N => n + 1 \in 0..N /\ n + 1 # 0 /\ (n + 1) - 1 = n BY <1>1
  <2> HIDE DEF N
  <2>2. 0 \in 0..N BY <1>1
  <2>3. QED BY <1>6, <2>1, <2>2
<1> DEFINE Right(s, n) == Sorting(datasets, deps, s) /\ (Len(s.ordered) = n \/ s.queue = <<>>)
           P == {n \in Nat : n <= N => Right(round[n], n)}
<1>8. Right(start, 0)
  <2>1. Members(<<>>) = {} BY DEF Members
  <2>2. Distinct(<<>>) /\ DepsFirst(<<>>, deps) BY DEF Distinct, DepsFirst
  <2>3. \A d \in S : deps[d] = {} <=> deps[d] \subseteq {} OBVIOUS
  <2>4. QED BY <1>3, <2>1, <2>2, <2>3 DEF Sorting, S
<1>9. ASSUME NEW n \in Nat, NEW s, Right(s, n) PROVE Right(go(s), n + 1)
  <2>1. CASE s.queue = <<>> BY <1>9, <2>1 DEF go
  <2>2. CASE s.queue # <<>>
    <3>1. go(s) = Visit(s, datasets, deps) BY <2>2 DEF go
    <3>2. QED BY <1>9, <2>2, <3>1, VisitSorts
  <2>3. QED BY <2>1, <2>2
<1> HIDE DEF Right
<1>10. P = Nat
  <2>1. 0 \in P BY <1>7, <1>8
  <2>2. ASSUME NEW n \in P PROVE n + 1 \in P
    <3>1. n \in Nat /\ (n <= N => Right(round[n], n)) OBVIOUS
    <3>2. n + 1 <= N => n <= N BY <1>1, <3>1
    <3>3. n + 1 <= N => Right(round[n + 1], n + 1) BY <1>7, <1>9, <3>1, <3>2
    <3>4. QED BY <3>1, <3>3
  <2>3. P \in SUBSET Nat OBVIOUS
  <2> HIDE DEF P
  <2>4. QED BY <2>1, <2>2, <2>3, AllNumbers
<1>11. Right(round[N], N)
  <2>1. N <= N BY <1>1
  <2>2. N \in P
    <3> HIDE DEF P
    <3>1. QED BY <1>1, <1>10
  <2>3. QED BY <2>1, <2>2
<1>12. round[N].queue = <<>>
  <2> DEFINE s == round[N]
  <2> HIDE DEF s
  <2>1. SUFFICES ASSUME s.queue # <<>> PROVE FALSE BY DEF s
  <2>2. Len(s.ordered) = N /\ Sorting(datasets, deps, s) BY <1>11, <2>1 DEF Right, s
  <2>3. /\ s.ordered \in Seq(S) /\ Distinct(s.ordered) /\ s.queue \in Seq(S)
        /\ Members(s.queue) \cap Members(s.ordered) = {}
    BY <2>2 DEF Sorting, S
  <2>4. Members(s.ordered) \subseteq S /\ Head(s.queue) \in Members(s.queue) /\ Head(s.queue) \in S
    BY <2>1, <2>3, TailMembers DEF Members
  <2>5. /\ IsFiniteSet(S) /\ Cardinality(S) = N
        /\ Cardinality(Members(s.ordered)) = N
    BY <1>1, <2>2, <2>3, DistinctCount DEF S
  <2>6. Members(s.ordered) = S BY <2>4, <2>5, FS_Subset
  <2>7. QED BY <2>3, <2>4, <2>6
<1>13. QED BY <1>2, <1>11, <1>12 DEF Right

\* The order of the graph, whatever the dependencies are: no dataset twice, and each
\* after all it depends on; and it is refused as incomplete exactly if there is a
\* cycle, a set of datasets of which each depends on one of the set
\* (_topological_order).
THEOREM TopologicalOrderCorrect ==
  ASSUME NEW datasets, NEW deps, Registry(datasets, deps)
  PROVE  LET S == Members(datasets)
             order == TopologicalOrder(datasets, deps)
         IN  /\ order \in Seq(S) /\ Distinct(order) /\ DepsFirst(order, deps)
             /\ HasCycle(datasets, deps) <=>
                  \E T \in SUBSET S : T # {} /\ \A d \in T : deps[d] \cap T # {}
             /\ ~HasCycle(datasets, deps) => Members(order) = S
<1> DEFINE S == Members(datasets)
           order == TopologicalOrder(datasets, deps)
           O == Members(order)
           Knot(T) == T # {} /\ \A d \in T : deps[d] \cap T # {}
<1> HIDE DEF S, order
<1>1. datasets \in Seq(S) /\ Distinct(datasets) /\ deps \in [S -> SUBSET S]
  BY DEF Registry, S
<1>2. /\ order \in Seq(S) /\ Distinct(order) /\ DepsFirst(order, deps)
      /\ O = {d \in S : deps[d] \subseteq O}
  <2>1. PICK s : Sorting(datasets, deps, s) /\ s.queue = <<>> /\ s.ordered = order
    BY OrderSorts DEF order
  <2>2. Members(<<>>) = {} BY DEF Members
  <2>3. QED BY <2>1, <2>2 DEF Sorting, S
<1>3. O \subseteq S BY <1>2
<1>4. HasCycle(datasets, deps) <=> O # S
  <2>1. /\ IsFiniteSet(S) /\ Cardinality(S) = Len(datasets)
        /\ IsFiniteSet(O) /\ Cardinality(O) = Len(order)
    BY <1>1, <1>2, DistinctCount DEF S
  <2>2. Len(order) \in Nat /\ Len(datasets) \in Nat BY <1>1, <1>2
  <2>3. O # S => Cardinality(O) < Cardinality(S) BY <1>3, <2>1, FS_Subset
  <2>4. QED BY <2>1, <2>2, <2>3 DEF HasCycle, order
<1>5. ASSUME O # S PROVE \E T \in SUBSET S : Knot(T)
  <2>1. Knot(S \ O) BY <1>1, <1>2, <1>5
  <2> HIDE DEF Knot
  <2>2. QED BY <2>1
<1>6. ASSUME NEW T \in SUBSET S, Knot(T) PROVE O # S
  <2>1. DOMAIN order = 1..Len(order) /\ Len(order) \in Nat BY <1>2
  \* nothing of a knot is ordered first, so none of it is ordered
  <2> DEFINE P == {n \in Nat : \A i \in 1..Len(order) : i <= n => order[i] \notin T}
  <2>2. 0 \in P OBVIOUS
  <2>3. ASSUME NEW n \in P PROVE n + 1 \in P
    <3>1. n \in Nat /\ \A i \in 1..Len(order) : i <= n => order[i] \notin T OBVIOUS
    <3>2. ASSUME NEW i \in 1..Len(order), i <= n + 1, order[i] \in T PROVE FALSE
      <4>1. PICK e \in T : e \in deps[order[i]] BY <1>6, <3>2
      <4>2. PICK j \in 1..i - 1 : order[j] = e BY <1>2, <4>1 DEF DepsFirst
      <4>3. j \in 1..Len(order) /\ j <= n BY <2>1, <3>1, <3>2
      <4>4. QED BY <3>1, <4>2, <4>3
    <3>3. QED BY <3>1, <3>2
  <2>4. P = Nat
    <3>1. P \in SUBSET Nat OBVIOUS
    <3> HIDE DEF P
    <3>2. QED BY <2>2, <2>3, <3>1, AllNumbers
  <2>5. \A i \in 1..Len(order) : order[i] \notin T BY <2>1, <2>4
  <2>6. O \cap T = {} BY <2>1, <2>5 DEF Members
  <2>7. QED BY <1>6, <2>6
<1>7. HasCycle(datasets, deps) <=> \E T \in SUBSET S : Knot(T)
  <2> HIDE DEF Knot
  <2>1. QED BY <1>4, <1>5, <1>6
<1>8. QED BY <1>2, <1>4, <1>7 DEF S, order

\* A scope is closed if it has what its datasets lead to.
Leads(scope, next) == \A d \in scope : next[d] \subseteq scope

\* What is reached from a scope is the least closed set around it, for every finite
\* graph (_expand_dependencies, _expand_dependents).
LEMMA ExpandIsLeast ==
  ASSUME NEW S, IsFiniteSet(S), NEW next \in [S -> SUBSET S], NEW scope \in SUBSET S
  PROVE  /\ Expand(scope, next) \in SUBSET S /\ scope \subseteq Expand(scope, next)
         /\ Leads(Expand(scope, next), next)
         /\ \A T \in SUBSET S : scope \subseteq T /\ Leads(T, next)
                                  => Expand(scope, next) \subseteq T
<1> DEFINE N == Cardinality(DOMAIN next)
           D == SUBSET S
           go(s) == s \cup UNION {next[d] : d \in s}
           step == [n \in 1..N |-> [s \in D |-> go(s)]]
           reached[n \in 0..N] == IF n = 0 THEN scope ELSE go(reached[n-1])
           IsRound(f) == f = [n \in 0..N |-> IF n = 0 THEN scope ELSE go(f[n-1])]
<1>1. N = Cardinality(S) /\ N \in Nat BY FS_CardinalityType
<1>2. Expand(scope, next) = reached[N] BY DEF Expand
<1>3. \A s \in D : go(s) \in D OBVIOUS
<1>4. \A s, T \in D : s \subseteq T /\ Leads(T, next) => go(s) \subseteq T BY DEF Leads
<1>5. \A s \in D : s \subseteq go(s) /\ (go(s) = s => Leads(s, next)) BY DEF Leads
<1>6. scope \in D OBVIOUS
<1> HIDE DEF go
<1>7. step \in Steps(N, D) BY <1>3 DEF Steps
<1>8. IsRound(reached)
  <2>1. Goes(N, D, scope, step)
    <3> HIDE DEF N, D, step
    <3>1. QED BY <1>1, <1>6, <1>7, Recursion
  <2>2. PICK f \in [0..N -> D] : f[0] = scope /\ \A n \in 1..N : f[n] = step[n][f[n-1]]
    BY <2>1 DEF Goes
  <2>3. \A n \in 1..N : f[n] = go(f[n-1])
    <3>1. \A n \in 1..N : n - 1 \in 0..N BY <1>1
    <3>2. \A n \in 1..N : \A s \in D : step[n][s] = go(s) OBVIOUS
    <3> HIDE DEF N, D, step
    <3>3. QED BY <2>2, <3>1, <3>2
  <2>4. IsRound(f)
    <3> HIDE DEF D
    <3>1. \A n \in 0..N : n = 0 \/ n \in 1..N BY <1>1
    <3>2. \A n \in 0..N : f[n] = IF n = 0 THEN scope ELSE go(f[n-1]) BY <2>2, <2>3, <3>1
    <3>3. QED BY <2>2, <3>2
  <2> HIDE DEF N, D
  <2>5. QED BY <2>4
<1> HIDE DEF reached, step, N, D
<1>9. reached[0] = scope /\ \A n \in Nat : n + 1 <= N => reached[n + 1] = go(reached[n])
  <2>1. \A n \in Nat : n + 1 <= N => n + 1 \in 0..N /\ n + 1 # 0 /\ (n + 1) - 1 = n BY <1>1
  <2>2. 0 \in 0..N BY <1>1
  <2>3. QED BY <1>8, <2>1, <2>2
<1> DEFINE Right(s, n) ==
             /\ s \in D /\ scope \subseteq s
             /\ \A T \in D : scope \subseteq T /\ Leads(T, next) => s \subseteq T
             /\ Cardinality(s) >= n \/ go(s) = s
           P == {n \in Nat : n <= N => Right(reached[n], n)}
<1>10. \A s \in D : IsFiniteSet(s) /\ Cardinality(s) \in Nat
  BY FS_Subset, FS_CardinalityType DEF D
<1>11. Right(scope, 0) BY <1>6, <1>10
<1>12. ASSUME NEW n \in Nat, NEW s, Right(s, n) PROVE Right(go(s), n + 1)
  <2>1. go(s) \in D /\ s \subseteq go(s) BY <1>3, <1>5, <1>12
  <2>2. CASE go(s) = s BY <1>12, <2>2
  <2>3. CASE go(s) # s
    <3>0. IsFiniteSet(go(s)) /\ s \in SUBSET go(s) BY <1>10, <2>1
    <3>1. Cardinality(s) < Cardinality(go(s))
      <4>1. /\ Cardinality(s) <= Cardinality(go(s))
            /\ Cardinality(go(s)) = Cardinality(s) => go(s) = s
        BY <3>0, FS_Subset
      <4>2. Cardinality(s) \in Nat /\ Cardinality(go(s)) \in Nat BY <1>10, <1>12, <2>1
      <4>3. QED BY <2>3, <4>1, <4>2
    <3>2. Cardinality(s) >= n BY <1>12, <2>3
    <3>3. Cardinality(go(s)) >= n + 1 BY <1>10, <1>12, <2>1, <3>1, <3>2
    <3>4. QED BY <1>4, <1>12, <2>1, <3>3
  <2>4. QED BY <2>2, <2>3
<1> HIDE DEF Right
<1>13. P = Nat
  <2>1. 0 \in P BY <1>9, <1>11
  <2>2. ASSUME NEW n \in P PROVE n + 1 \in P
    <3>1. n \in Nat /\ (n <= N => Right(reached[n], n)) OBVIOUS
    <3>2. n + 1 <= N => n <= N BY <1>1, <3>1
    <3>3. n + 1 <= N => Right(reached[n + 1], n + 1) BY <1>9, <1>12, <3>1, <3>2
    <3>4. QED BY <3>1, <3>3
  <2>3. P \in SUBSET Nat OBVIOUS
  <2> HIDE DEF P
  <2>4. QED BY <2>1, <2>2, <2>3, AllNumbers
<1>14. Right(reached[N], N)
  <2>1. N <= N BY <1>1
  <2>2. N \in P
    <3> HIDE DEF P
    <3>1. QED BY <1>1, <1>13
  <2>3. QED BY <2>1, <2>2
<1>15. go(reached[N]) = reached[N]
  <2> DEFINE s == reached[N]
  <2>1. s \in D /\ (Cardinality(s) >= N \/ go(s) = s) BY <1>14 DEF Right
  <2> HIDE DEF s
  <2>2. CASE Cardinality(s) >= N
    <3>1. s = S BY <1>1, <1>10, <2>1, <2>2, FS_Subset DEF D
    <3>2. s \subseteq go(s) /\ go(s) \subseteq S BY <1>3, <1>5, <2>1 DEF D
    <3>3. QED BY <3>1, <3>2 DEF s
  <2>3. QED BY <2>1, <2>2 DEF s
<1>16. QED BY <1>2, <1>5, <1>14, <1>15 DEF Right, D

\* A part of the order is an order.
LEMMA WithinKeepsOrder ==
  ASSUME NEW S, NEW order \in Seq(S), NEW deps \in [S -> SUBSET S], DepsFirst(order, deps),
         NEW set, NEW i \in 1..Len(Within(order, set)),
         NEW e \in deps[Within(order, set)[i]], e \in set
  PROVE  \E j \in 1..i - 1 : Within(order, set)[j] = e
<1> DEFINE w == Within(order, set)
<1>2. w \in Seq(S) /\ Picks(order, set, w) BY WithinOrder
<1> HIDE DEF w
<1>1. PICK at \in [1..Len(w) -> 1..Len(order)] :
        /\ \A n \in 1..Len(w) : w[n] = order[at[n]] /\ order[at[n]] \in set
        /\ \A n, m \in 1..Len(w) : n < m => at[n] < at[m]
        /\ \A n \in 1..Len(order) : order[n] \in set => \E m \in 1..Len(w) : at[m] = n
  BY <1>2 DEF Picks
<1>3. i \in 1..Len(w) /\ e \in deps[w[i]] BY DEF w
<1>4. Len(w) \in Nat /\ Len(order) \in Nat BY <1>2
<1>5. at[i] \in 1..Len(order) /\ w[i] = order[at[i]] BY <1>1, <1>3
<1>6. PICK n \in 1..at[i] - 1 : order[n] = e BY <1>3, <1>5 DEF DepsFirst
<1>7. PICK j \in 1..Len(w) : at[j] = n
  <2>1. n \in 1..Len(order) BY <1>4, <1>5
  <2>2. order[n] \in set BY <1>6
  <2>3. QED BY <1>1, <2>1, <2>2
<1>8. at[j] < at[i] BY <1>5, <1>6, <1>7
<1>9. ~ (i < j) /\ i # j
  <2>1. at[i] \in Nat /\ at[j] \in Nat BY <1>1, <1>5, <1>7
  <2>2. i < j => at[i] < at[j] BY <1>1, <1>3
  <2>3. i = j => at[i] = at[j] OBVIOUS
  <2>4. QED BY <1>8, <2>1, <2>2, <2>3
<1>10. j \in 1..i - 1 BY <1>3, <1>4, <1>9
<1>11. w[j] = e BY <1>1, <1>6, <1>7
<1>12. QED BY <1>10, <1>11 DEF w

\* The registry of the model is one.
LEMMA NamesAreRegistered ==
  /\ Registry(Datasets, Deps) /\ Registry(Datasets, ClearGraph)
  /\ Names = Members(Datasets) /\ IsFiniteSet(Names)
<1>1. /\ Names = Members(Datasets) /\ Datasets \in Seq(Names) /\ Distinct(Datasets)
      /\ Deps \in [Names -> SUBSET Names]
  BY CacheAssumption DEF Names, Members, Distinct
<1>2. ClearGraph \in [Names -> SUBSET Names] BY DEF ClearGraph
<1>3. IsFiniteSet(Names) BY <1>1, DistinctCount
<1> HIDE DEF Names
<1>4. QED BY <1>1, <1>2, <1>3 DEF Registry

\* A refresh without a dataset is of all, one of some datasets is of these, or of
\* these and all they depend on, which is the least closed set around them.  No
\* dataset is refreshed twice, and none before one of the plan that it depends on
\* (refresh_order).
THEOREM RefreshPlansCorrect ==
  \A o \in Refreshes :
    LET plan == RefreshPlan(o)
        scope == Members(plan)
    IN  /\ plan \in Seq(Names) /\ plan # <<>> /\ Distinct(plan)
        /\ o.chosen = {} => scope = Names
        /\ o.chosen # {} /\ ~o.withDeps => scope = o.chosen
        /\ o.chosen # {} /\ o.withDeps =>
              /\ o.chosen \subseteq scope /\ Leads(scope, Deps)
              /\ \A T \in SUBSET Names : o.chosen \subseteq T /\ Leads(T, Deps) => scope \subseteq T
        /\ \A i \in 1..Len(plan) : \A e \in Deps[plan[i]] \cap scope :
              \E j \in 1..i - 1 : plan[j] = e
<1> SUFFICES ASSUME NEW o \in Refreshes
             PROVE  LET plan == RefreshPlan(o)
                        scope == Members(plan)
                    IN  /\ plan \in Seq(Names) /\ plan # <<>> /\ Distinct(plan)
                        /\ o.chosen = {} => scope = Names
                        /\ o.chosen # {} /\ ~o.withDeps => scope = o.chosen
                        /\ o.chosen # {} /\ o.withDeps =>
                              /\ o.chosen \subseteq scope /\ Leads(scope, Deps)
                              /\ \A T \in SUBSET Names :
                                    o.chosen \subseteq T /\ Leads(T, Deps) => scope \subseteq T
                        /\ \A i \in 1..Len(plan) : \A e \in Deps[plan[i]] \cap scope :
                              \E j \in 1..i - 1 : plan[j] = e
  OBVIOUS
<1> DEFINE all == TopologicalOrder(Datasets, Deps)
           plan == RefreshPlan(o)
           wanted == IF o.withDeps THEN Expand(o.chosen, Deps) ELSE o.chosen
<1> HIDE DEF all
<1>1. /\ all \in Seq(Names) /\ Distinct(all) /\ DepsFirst(all, Deps) /\ Members(all) = Names
  BY TopologicalOrderCorrect, NamesAreRegistered, CacheAssumption DEF all
<1>2. o.chosen \in SUBSET Names /\ o.withDeps \in BOOLEAN /\ Deps \in [Names -> SUBSET Names]
  BY CacheAssumption
<1>3. plan = IF o.chosen = {} THEN all ELSE Within(all, wanted)
  BY DEF RefreshPlan, RefreshOrder, all
<1>4. /\ Expand(o.chosen, Deps) \in SUBSET Names /\ o.chosen \subseteq Expand(o.chosen, Deps)
      /\ Leads(Expand(o.chosen, Deps), Deps)
      /\ \A T \in SUBSET Names : o.chosen \subseteq T /\ Leads(T, Deps)
                                   => Expand(o.chosen, Deps) \subseteq T
  BY <1>2, NamesAreRegistered, ExpandIsLeast
<1>5. wanted \in SUBSET Names /\ o.chosen \subseteq wanted BY <1>2, <1>4
<1> HIDE DEF plan, wanted
<1>6. CASE o.chosen = {}
  <2>1. plan = all BY <1>3, <1>6
  <2>2. Names # {} BY CacheAssumption DEF Names
  <2>3. Members(<<>>) = {} BY DEF Members
  <2>4. /\ plan \in Seq(Names) /\ plan # <<>> /\ Distinct(plan) /\ Members(plan) = Names
        /\ DepsFirst(plan, Deps)
    BY <1>1, <2>1, <2>2, <2>3
  <2>5. \A i \in 1..Len(plan) : \A e \in Deps[plan[i]] \cap Members(plan) :
          \E j \in 1..i - 1 : plan[j] = e
    BY <2>4 DEF DepsFirst
  <2>6. QED BY <1>6, <2>4, <2>5, Zenon DEF plan
<1>7. CASE o.chosen # {}
  <2>1. plan = Within(all, wanted) BY <1>3, <1>7
  <2>2. /\ plan \in Seq(Names) /\ Distinct(plan) /\ Members(plan) = Names \cap wanted
    BY <1>1, <2>1, WithinMembers
  <2>3. Members(plan) = wanted BY <1>5, <2>2
  <2>4. Members(<<>>) = {} BY DEF Members
  <2>5. plan # <<>> BY <1>5, <1>7, <2>3, <2>4
  <2>6. \A i \in 1..Len(plan) : \A e \in Deps[plan[i]] \cap Members(plan) :
          \E j \in 1..i - 1 : plan[j] = e
    BY <1>1, <1>2, <2>1, <2>3, WithinKeepsOrder
  <2>7. ~o.withDeps => wanted = o.chosen BY DEF wanted
  <2>8. o.withDeps => wanted = Expand(o.chosen, Deps) BY DEF wanted
  <2>9. QED BY <1>4, <1>7, <2>2, <2>3, <2>5, <2>6, <2>7, <2>8 DEF plan
<1>8. QED BY <1>6, <1>7

\* A clear without a dataset is of all, one of some datasets of these and no others:
\* with --cascade too, for the graph it goes by has no dependencies (clear_order).
THEOREM ClearPlansCorrect ==
  \A o \in Clears :
    /\ ClearPlan(o) \in Seq(Names) /\ Distinct(ClearPlan(o))
    /\ Members(ClearPlan(o)) = IF o.chosen = {} THEN Names ELSE o.chosen
<1> SUFFICES ASSUME NEW o \in Clears
             PROVE  /\ ClearPlan(o) \in Seq(Names) /\ Distinct(ClearPlan(o))
                    /\ Members(ClearPlan(o)) = IF o.chosen = {} THEN Names ELSE o.chosen
  OBVIOUS
<1> DEFINE all == TopologicalOrder(Datasets, ClearGraph)
           next == Dependents(ClearGraph)
           wanted == IF o.cascade THEN Expand(o.chosen, next) ELSE o.chosen
<1> HIDE DEF all
<1>1. \A d \in Names : ClearGraph[d] = {} BY DEF ClearGraph
<1>2. /\ all \in Seq(Names) /\ Distinct(all) /\ Members(all) = Names
  <2>1. ~ \E T \in SUBSET Names : T # {} /\ \A d \in T : ClearGraph[d] \cap T # {} BY <1>1
  <2>2. QED BY <2>1, TopologicalOrderCorrect, NamesAreRegistered DEF all
<1>3. o.chosen \in SUBSET Names /\ o.cascade \in BOOLEAN BY CacheAssumption
<1>4. next \in [Names -> SUBSET Names] /\ \A d \in Names : next[d] = {}
  BY DEF Dependents, ClearGraph
<1> HIDE DEF next
<1>5. Leads(o.chosen, next) BY <1>3, <1>4 DEF Leads
<1>6. Expand(o.chosen, next) = o.chosen
  BY <1>3, <1>4, <1>5, NamesAreRegistered, ExpandIsLeast
<1>7. wanted = o.chosen BY <1>6
<1>8. ClearPlan(o) = IF o.chosen = {} THEN all ELSE Within(all, wanted)
  BY DEF ClearPlan, ClearOrder, all, next
<1> HIDE DEF wanted
<1>9. CASE o.chosen = {} BY <1>2, <1>8, <1>9
<1>10. CASE o.chosen # {}
  <2>1. /\ Within(all, o.chosen) \in Seq(Names) /\ Distinct(Within(all, o.chosen))
        /\ Members(Within(all, o.chosen)) = Names \cap o.chosen
    BY <1>2, WithinMembers
  <2>2. QED BY <1>3, <1>7, <1>8, <1>10, <2>1
<1>11. QED BY <1>9, <1>10

----------------------------------------------------------------------------
(* The inductive invariant                                                 *)

\* The scope of a job, and whether its transaction has a snapshot that no commit
\* has made old.
ScopeOf(j) == {j.scope[i] : i \in DOMAIN j.scope}
Current(j) == j.pc \in {"rebuild", "items", "finish"} /\ ~j.old

\* Before it reads a page, a refresh has no page, and rebuilds nothing outside its
\* scope.
Fresh(j) ==
  /\ j.pc \in {"drift", "rebuild"} => j.page = NoPage
  /\ j.pc = "drift" => j.rebuild = {}
  /\ j.pc = "rebuild" => j.rebuild \subseteq ScopeOf(j)

\* The page in memory is not newer than the target and, in a current snapshot,
\* not older than the cache.
PageAged(j) == j.pc = "items" =>
  \A k \in Keys : j.page[k] # Nothing =>
    /\ j.page[k].ver <= target[j.scope[j.at]][k].ver
    /\ ~j.old => j.page[k].ver >= db.rows[j.scope[j.at]][k].ver

\* A refresh that has not written yet sees no row of another schema than its own
\* outside the tables it is going to rebuild.
Unwritten(j) == Current(j) =>
  /\ j.pc # "rebuild" => j.rebuild = {}
  /\ \A d \in ScopeOf(j) \ j.rebuild : \A k \in Keys :
       db.rows[d][k] # NoRow => db.rows[d][k].spec = j.spec

\* What a refresh has made of the database w: rows of its datasets, in its own
\* schema and never in an older version.
WorkOf(j, w) ==
  \A d \in Names :
    /\ w.meta[d] = db.meta[d]
    /\ d \notin ScopeOf(j) => w.rows[d] = db.rows[d]
    /\ \A k \in Keys : w.rows[d][k] # NoRow =>
         /\ d \in ScopeOf(j) => w.rows[d][k].spec = j.spec
         /\ w.rows[d][k].ver >= db.rows[d][k].ver
         /\ w.rows[d][k].ver <= target[d][k].ver

\* The lock is held by a refresh in a current snapshot.
Holder(j) == Current(j) /\ j.pc # "rebuild" /\ WorkOf(j, work)

JobInv(p) ==
  /\ Fresh(job[p]) /\ PageAged(job[p])
  /\ writer = p => Holder(job[p])
  /\ writer # p => Unwritten(job[p])

\* The tables of database d agree, and every cached version was once the target's.
Agrees(d) ==
  \A e \in Names :
    /\ d.meta[e] # NoMeta => d.meta[e].count = Count(d.rows[e])
    /\ \A k \in Keys :
         /\ d.rows[e][k].ver <= target[e][k].ver
         /\ d.rows[e][k] # NoRow => /\ d.meta[e] # NoMeta
                                    /\ d.rows[e][k].spec = d.meta[e].hash

CacheInv ==
  /\ \A p \in Procs : JobInv(p)
  /\ writer = None => work = db
  /\ Agrees(db)

----------------------------------------------------------------------------
(* Type correctness                                                        *)

\* The number of rows of a table is a natural number.
LEMMA CountType == \A table : Count(table) \in Nat
<1> TAKE table
<1>1. IsFiniteSet({k \in Keys : table[k] # NoRow})
  BY CacheAssumption, FS_Subset
<1>2. QED BY <1>1, FS_CardinalityType DEF Count

\* An emptied table is a table.
LEMMA EmptyType == Empty \in [Keys -> Row]
BY DEF Empty, Row

\* A process without a command has a job of the right type.
LEMMA NoJobType == NoJob \in Job
<1>1. <<>> \in Seq(Names) OBVIOUS
<1>2. 1 \in Specs BY CacheAssumption DEF Specs
<1>3. NoPage \in [Keys -> Record] BY DEF NoPage, Record
<1>4. Unchecked \in [Names -> [Keys -> 0..MaxVersion]]
  BY CacheAssumption DEF Unchecked
<1>5. QED BY <1>1, <1>2, <1>3, <1>4 DEF NoJob, Job, PCs

\* A refresh is at one of the datasets of its scope.
LEMMA AtDataset ==
  ASSUME TypeOK, NEW p \in Procs,
         job[p].pc \in {"drift", "rebuild", "items", "finish"}
  PROVE  Dataset(p) \in Scope(p) /\ Dataset(p) \in Names
<1>1. job[p] \in Job /\ job[p].at \in DOMAIN job[p].scope
  BY DEF TypeOK
<1>2. job[p].scope \in Seq(Names) BY <1>1 DEF Job
<1>3. QED BY <1>1, <1>2 DEF Dataset, Scope

\* The datasets of a job are registered ones.
LEMMA ScopeType ==
  ASSUME TypeOK, NEW p \in Procs PROVE Scope(p) \subseteq Names
<1>1. job[p].scope \in Seq(Names) BY DEF TypeOK, Job
<1>2. QED BY <1>1 DEF Scope

\* What a process sees is a database.
LEMMA ViewType ==
  ASSUME TypeOK, NEW p \in Procs PROVE View(p) \in Database
BY DEF TypeOK, View

\* A job with its place in its scope.
Placed(j) == j.pc \in {"drift", "rebuild", "items", "finish"} => j.at \in DOMAIN j.scope

\* The steps that only move a job on.
LEMMA UpdateType ==
  ASSUME TypeOK, NEW p \in Procs, NEW j \in Job, Placed(j), Update(p, j)
  PROVE  /\ job' \in [Procs -> Job]
         /\ \A q \in Procs : job'[q].pc \in {"drift", "rebuild", "items", "finish"}
                               => job'[q].at \in DOMAIN job'[q].scope
BY DEF TypeOK, Update, Placed

\* A ROLLBACK keeps the types.
LEMMA RollbackType ==
  ASSUME TypeOK, NEW p \in Procs, Rollback(p), UNCHANGED <<target, spec, commands>>
  PROVE  TypeOK'
<1>1. Update(p, NoJob) /\ Placed(NoJob) BY DEF Rollback, Update, Placed, NoJob
<1>2. /\ job' \in [Procs -> Job]
      /\ \A q \in Procs : job'[q].pc \in {"drift", "rebuild", "items", "finish"}
                            => job'[q].at \in DOMAIN job'[q].scope
  BY <1>1, NoJobType, UpdateType
<1>3. QED BY <1>2 DEF TypeOK, Rollback

\* A COMMIT of a database keeps the types.
LEMMA CommitType ==
  ASSUME TypeOK, NEW p \in Procs, NEW d \in Database, Commit(p, d),
         UNCHANGED <<target, spec, commands>>
  PROVE  TypeOK'
<1>1. ASSUME NEW q \in Procs
      PROVE  job'[q] \in Job /\ Placed(job'[q])
  <2>1. CASE q = p
    BY <2>1, NoJobType DEF Commit, Placed, NoJob
  <2>2. CASE q # p
    <3>1. job'[q] = [job[q] EXCEPT !.old = job[q].pc \notin {"idle", "drift", "count"}]
      BY <2>2 DEF Commit
    <3>2. job[q] \in Job /\ Placed(job[q]) BY DEF TypeOK, Placed
    <3>3. QED BY <3>1, <3>2 DEF Job, Placed
  <2>3. QED BY <2>1, <2>2
<1>2. job' \in [Procs -> Job] BY <1>1 DEF Commit
<1>3. QED BY <1>1, <1>2 DEF TypeOK, Commit, Placed

\* Every variable of the caches, the commands and the target has its type, and a
\* refresh is always at a dataset of its plan (refresh, clear and the SQLite
\* transactions under them).
THEOREM TypeCorrect == Spec => []TypeOK
<1>1. Init => TypeOK
  <2> SUFFICES ASSUME Init PROVE TypeOK OBVIOUS
  <2>1. 1 \in Specs BY CacheAssumption DEF Specs
  <2>2. [d \in Names |-> Empty] \in [Names -> [Keys -> Row]] BY EmptyType
  <2>3. db \in Database BY <2>1, <2>2 DEF Init, Database, Meta, NoMeta
  <2>4. job \in [Procs -> Job] BY NoJobType DEF Init
  <2>5. target \in [Names -> [Keys -> Record]] BY DEF Init, Record
  <2>6. \A p \in Procs : job[p].pc = "idle" BY DEF Init, NoJob
  <2>7. QED BY <2>1, <2>3, <2>4, <2>5, <2>6, CacheAssumption DEF Init, TypeOK
<1>2. TypeOK /\ [Next]_vars => TypeOK'
  <2> SUFFICES ASSUME TypeOK, [Next]_vars PROVE TypeOK' OBVIOUS
  <2> DEFINE Unmoved == UNCHANGED <<target, spec, db, work, writer, commands>>
  <2>u. ASSUME NEW p \in Procs, NEW j \in Job, Placed(j), Update(p, j), Unmoved
        PROVE  TypeOK'
    BY <2>u, UpdateType DEF TypeOK
  <2>w. ASSUME NEW p \in Procs, NEW j \in Job, Placed(j), Update(p, j),
               NEW d \in Database, Write(p, d), UNCHANGED <<target, spec, db, commands>>
        PROVE  TypeOK'
    BY <2>w, UpdateType DEF TypeOK, Write
  <2>1. ASSUME NEW p \in Procs, NEW o \in Refreshes, StartRefresh(p, o) PROVE TypeOK'
    <3> DEFINE j == [NoJob EXCEPT !.pc = "drift", !.spec = spec, !.at = 1, !.todo = Keys,
                       !.scope = RefreshPlan(o), !.withDeleted = o.withDeleted,
                       !.partial = o.partial,
                       !.live = IF o.partial THEN Unchecked ELSE LiveVersions]
    <3>1. RefreshPlan(o) \in Seq(Names) /\ RefreshPlan(o) # <<>> BY RefreshPlansCorrect
    <3>2. LiveVersions \in [Names -> [Keys -> 0..MaxVersion]]
      BY CacheAssumption DEF TypeOK, LiveVersions, Record, Nothing
    <3>3. Unchecked \in [Names -> [Keys -> 0..MaxVersion]]
      BY CacheAssumption DEF Unchecked
    <3>4. o.withDeleted \in BOOLEAN /\ o.partial \in BOOLEAN /\ spec \in Specs
      BY CacheAssumption DEF TypeOK
    <3>5. j \in Job
      BY NoJobType, <3>1, <3>2, <3>3, <3>4, ZenonT(60) DEF Job, PCs
    <3>6. Placed(j)
      <4>1. j.at = 1 /\ j.scope = RefreshPlan(o) BY DEF NoJob
      <4>2. QED BY <4>1, <3>1 DEF Placed
    <3>7. Update(p, j) BY <2>1 DEF StartRefresh
    <3> HIDE DEF j
    <3>8. commands' \in 0..MaxCommands
      BY <2>1, CacheAssumption DEF TypeOK, StartRefresh, CanStart
    <3>9. QED BY <2>1, <3>5, <3>6, <3>7, <3>8, UpdateType DEF TypeOK, StartRefresh
  <2>2. ASSUME NEW p \in Procs, NEW o \in Clears, StartClear(p, o) PROVE TypeOK'
    <3> DEFINE j == [NoJob EXCEPT !.pc = "count", !.spec = spec, !.cascade = o.cascade,
                                  !.scope = ClearPlan(o)]
    <3>1. j \in Job
      BY NoJobType, ClearPlansCorrect, CacheAssumption DEF Job, PCs, TypeOK
    <3>2. Placed(j) BY DEF Placed, NoJob
    <3>3. Update(p, j) BY <2>2 DEF StartClear
    <3> HIDE DEF j
    <3>4. commands' \in 0..MaxCommands
      BY <2>2, CacheAssumption DEF TypeOK, StartClear, CanStart
    <3>5. QED BY <2>2, <3>1, <3>2, <3>3, <3>4, UpdateType DEF TypeOK, StartClear
  <2>3. ASSUME NEW p \in Procs, CheckDrift(p) PROVE TypeOK'
    <3>1. job[p] \in Job /\ Placed(job[p]) BY DEF TypeOK, Placed
    <3>2. Drifted(p) \subseteq Names /\ Scope(p) \subseteq Names
      BY ScopeType DEF Drifted
    <3>3. CASE Drifted(p) = {}
      <4>1. [job[p] EXCEPT !.pc = "items"] \in Job
        BY <3>1 DEF Job, PCs
      <4>2. Placed([job[p] EXCEPT !.pc = "items"])
        BY <2>3, <3>1 DEF Placed, CheckDrift, Job
      <4>3. QED BY <4>1, <4>2, <2>u, <2>3, <3>3 DEF CheckDrift
    <3>4. CASE Drifted(p) # {} /\ ~Rebuilds
      BY <2>3, <3>4, RollbackType DEF CheckDrift
    <3>5. CASE Drifted(p) # {} /\ Rebuilds
      <4> DEFINE j == [job[p] EXCEPT !.pc = "rebuild",
                         !.rebuild = IF RebuildsAll THEN Scope(p) ELSE Drifted(p)]
      <4>1. j \in Job BY <3>1, <3>2 DEF Job, PCs
      <4>2. Placed(j) BY <2>3, <3>1 DEF Placed, CheckDrift, Job
      <4>3. Update(p, j) /\ Unmoved BY <2>3, <3>5 DEF CheckDrift
      <4> HIDE DEF j
      <4>4. QED BY <4>1, <4>2, <4>3, <2>u
    <3>6. QED BY <3>3, <3>4, <3>5
  <2>4. ASSUME NEW p \in Procs, Rebuild(p) PROVE TypeOK'
    <3> DEFINE d == [View(p) EXCEPT
                 !.rows = [e \in Names |-> IF e \in job[p].rebuild THEN Empty ELSE @[e]],
                 !.layout = [e \in Names |-> IF e \in job[p].rebuild
                                               THEN job[p].spec ELSE @[e]]]
    <3>1. job[p] \in Job /\ Placed(job[p]) BY DEF TypeOK, Placed
    <3>2. View(p) \in Database BY ViewType, SMTT(60)
    <3>3. d \in Database BY <3>1, <3>2, EmptyType DEF Database, Job
    <3>4. [job[p] EXCEPT !.pc = "items"] \in Job BY <3>1 DEF Job, PCs
    <3>5. Placed([job[p] EXCEPT !.pc = "items"])
      BY <2>4, <3>1 DEF Placed, Rebuild, Job
    <3>6. Write(p, d) BY <2>4 DEF Rebuild
    <3> HIDE DEF d
    <3>7. QED BY <2>4, <3>3, <3>4, <3>5, <3>6, <2>w DEF Rebuild
  <2>5. ASSUME NEW p \in Procs, NEW ks \in SUBSET Keys, ReadPage(p, ks) PROVE TypeOK'
    <3> DEFINE j == [job[p] EXCEPT !.todo = @ \ ks,
          !.page = [k \in Keys |-> IF k \in ks THEN target[Dataset(p)][k] ELSE Nothing]]
    <3>1. job[p] \in Job /\ Placed(job[p]) BY DEF TypeOK, Placed
    <3>2. Dataset(p) \in Names BY <2>5, AtDataset DEF ReadPage
    <3>3. [k \in Keys |-> IF k \in ks THEN target[Dataset(p)][k] ELSE Nothing]
            \in [Keys -> Record]
      BY <3>2, SMTT(60) DEF TypeOK, Record
    <3>4. j \in Job BY <3>1, <3>3 DEF Job
    <3>5. Placed(j) BY <3>1 DEF Placed, Job
    <3>6. Update(p, j) /\ Unmoved BY <2>5 DEF ReadPage
    <3> HIDE DEF j
    <3>7. QED BY <3>4, <3>5, <3>6, <2>u
  <2>i. ASSUME NEW p \in Procs, NEW k \in Keys
        PROVE  /\ ItemDone(p, k) \in Job /\ Placed(ItemDone(p, k))
               /\ [ItemDone(p, k) EXCEPT !.live = Unchecked] \in Job
               /\ Placed([ItemDone(p, k) EXCEPT !.live = Unchecked])
    <3>1. job[p] \in Job /\ Placed(job[p]) BY DEF TypeOK, Placed
    <3>2. ItemDone(p, k) \in Job BY <3>1 DEF ItemDone, Job, Record
    <3>3. Placed(ItemDone(p, k)) BY <3>1 DEF ItemDone, Placed, Job
    <3>4. Unchecked \in [Names -> [Keys -> 0..MaxVersion]]
      BY CacheAssumption DEF Unchecked
    <3>5. QED BY <3>2, <3>3, <3>4 DEF Placed, Job
  <2>6. ASSUME NEW p \in Procs, NEW k \in Keys, SkipItem(p, k) PROVE TypeOK'
    BY <2>6, <2>i, <2>u DEF SkipItem
  <2>7. ASSUME NEW p \in Procs, NEW k \in Keys, UpsertItem(p, k) PROVE TypeOK'
    <3> DEFINE d == [View(p) EXCEPT !.rows[Dataset(p)][k] =
                       [ver |-> job[p].page[k].ver, spec |-> job[p].spec]]
    <3>1. job[p] \in Job BY DEF TypeOK
    <3>2. job[p].page[k] \in Record /\ job[p].page[k] # Nothing
      BY <2>7, <3>1 DEF UpsertItem, Listed, Job
    <3>3. [ver |-> job[p].page[k].ver, spec |-> job[p].spec] \in Row
      BY <3>1, <3>2 DEF Row, Record, Job
    <3>4. View(p) \in Database BY ViewType
    <3>5. d \in Database BY <3>3, <3>4 DEF Database
    <3>6. Write(p, d) BY <2>7 DEF UpsertItem
    <3> HIDE DEF d
    <3>7. QED BY <2>7, <3>5, <3>6, <2>i, <2>w DEF UpsertItem
  <2>8. ASSUME NEW p \in Procs, NEW k \in Keys, FailItem(p, k) PROVE TypeOK'
    <3>1. CASE UNCHANGED <<work, writer>>
      BY <2>8, <3>1, <2>i, <2>u DEF FailItem
    <3>2. CASE Write(p, View(p))
      BY <2>8, <3>2, <2>i, <2>w, ViewType DEF FailItem
    <3>3. QED BY <2>8, <3>1, <3>2 DEF FailItem
  <2>9. ASSUME NEW p \in Procs, NextDataset(p) PROVE TypeOK'
    <3>1. job[p] \in Job /\ job[p].at \in DOMAIN job[p].scope /\ job[p].scope \in Seq(Names)
      BY <2>9 DEF TypeOK, NextDataset, Job
    <3>2. CASE job[p].at < Len(job[p].scope)
      <4> DEFINE j == [job[p] EXCEPT !.at = @ + 1, !.todo = Keys]
      <4>0. job[p].at + 1 \in Nat BY <3>1 DEF Job
      <4>1. j \in Job
        <5> HIDE <3>1
        <5>1. job[p] \in Job BY <3>1
        <5>2. QED BY <4>0, <5>1 DEF Job
      <4>2. Placed(j) BY <3>1, <3>2 DEF Placed, Job
      <4>3. Update(p, j) /\ Unmoved BY <2>9, <3>2 DEF NextDataset
      <4> HIDE DEF j
      <4>4. QED BY <4>1, <4>2, <4>3, <2>u
    <3>3. CASE ~(job[p].at < Len(job[p].scope))
      <4> DEFINE j == [job[p] EXCEPT !.pc = "finish", !.todo = {}, !.withDeleted = FALSE]
      <4>1. j \in Job BY <3>1 DEF Job, PCs
      <4>2. Placed(j) BY <3>1 DEF Placed, Job
      <4>3. Update(p, j) /\ Unmoved BY <2>9, <3>3 DEF NextDataset
      <4> HIDE DEF j
      <4>4. QED BY <4>1, <4>2, <4>3, <2>u
    <3>4. QED BY <3>2, <3>3
  <2>10. ASSUME NEW p \in Procs, Finish(p) PROVE TypeOK'
    <3> DEFINE d == [View(p) EXCEPT !.meta = [e \in Names |->
           IF e \in Scope(p) THEN [hash |-> job[p].spec, count |-> Count(View(p).rows[e])]
           ELSE @[e]]]
    <3>1. View(p) \in Database /\ job[p].spec \in Specs BY ViewType DEF TypeOK, Job
    <3>2. \A e \in Names : [hash |-> job[p].spec, count |-> Count(View(p).rows[e])] \in Meta
      BY <3>1, CountType DEF Meta
    <3>3. d \in Database BY <3>1, <3>2 DEF Database
    <3>4. Commit(p, d) BY <2>10 DEF Finish
    <3> HIDE DEF d
    <3>5. QED BY <2>10, <3>3, <3>4, CommitType DEF Finish
  <2>11. ASSUME NEW p \in Procs, ClearCounts(p) PROVE TypeOK'
    <3>1. [job[p] EXCEPT !.pc = "clear"] \in Job BY ZenonT(60) DEF TypeOK, Job, PCs
    <3>2. Placed([job[p] EXCEPT !.pc = "clear"]) BY DEF TypeOK, Job, Placed
    <3>3. QED BY <2>11, <3>1, <3>2, <2>u DEF ClearCounts
  <2>12. ASSUME NEW p \in Procs, Clear(p) PROVE TypeOK'
    <3> DEFINE d == [View(p) EXCEPT
                 !.rows = [e \in Names |-> IF e \in Scope(p) THEN Empty ELSE @[e]],
                 !.meta = [e \in Names |-> IF e \in Scope(p) THEN NoMeta ELSE @[e]]]
    <3>1. View(p) \in Database BY ViewType
    <3>2. d \in Database BY <3>1, EmptyType DEF Database, Meta
    <3>3. Commit(p, d) BY <2>12 DEF Clear
    <3> HIDE DEF d
    <3>4. QED BY <2>12, <3>2, <3>3, CommitType DEF Clear
  <2>13. ASSUME NEW p \in Procs, PageFails(p) \/ Locked(p) \/ Crash(p) PROVE TypeOK'
    BY <2>13, RollbackType DEF PageFails, Locked, Crash
  <2>14. ASSUME NEW d \in Names, NEW k \in Keys, TargetChanges(d, k) PROVE TypeOK'
    <3>1. PICK gone \in BOOLEAN :
            target' = [target EXCEPT ![d][k] = [ver |-> @.ver + 1, gone |-> gone]]
      BY <2>14 DEF TargetChanges
    <3>2. target[d][k] \in Record BY DEF TypeOK
    <3>3. [ver |-> target[d][k].ver + 1, gone |-> gone] \in Record
      BY <2>14, <3>2, CacheAssumption DEF TargetChanges, Record, Nothing
    <3>4. target' \in [Names -> [Keys -> Record]] BY <3>1, <3>3 DEF TypeOK
    <3>5. QED BY <2>14, <3>4 DEF TypeOK, TargetChanges
  <2>15. ASSUME EditSpec PROVE TypeOK'
    BY <2>15, CacheAssumption DEF TypeOK, EditSpec, Specs
  <2>16. CASE UNCHANGED vars BY <2>16 DEF TypeOK, vars
  <2>17. QED
    BY <2>1, <2>2, <2>3, <2>4, <2>5, <2>6, <2>7, <2>8, <2>9, <2>10, <2>11, <2>12, <2>13,
       <2>14, <2>15, <2>16 DEF Next, Start, RefreshStep, ClearStep
<1>3. QED BY <1>1, <1>2, PTL DEF Spec

----------------------------------------------------------------------------
(* Safety                                                                  *)

\* The scope of a job is a matter of the job alone.
LEMMA ScopeIs == \A p : Scope(p) = ScopeOf(job[p]) /\ Dataset(p) = job[p].scope[job[p].at]
BY DEF Scope, ScopeOf, Dataset

\* NoJob has nothing to keep.
LEMMA NoJobInv == Fresh(NoJob) /\ PageAged(NoJob) /\ Unwritten(NoJob) /\ ~Current(NoJob)
BY DEF Fresh, PageAged, Unwritten, Current, NoJob

\* The versions in a database are numbers.
LEMMA VersionType ==
  ASSUME TypeOK, NEW d \in Names, NEW k \in Keys
  PROVE  /\ db.rows[d][k].ver \in Int
         /\ target[d][k].ver \in Int
<1>1. db.rows[d][k] \in Row BY DEF TypeOK, Database
<1>2. target[d][k] \in Record BY DEF TypeOK
<1>3. QED BY <1>1, <1>2, CacheAssumption DEF Row, NoRow, Record, Nothing

\* A step that moves the job of p on and leaves the database alone.
LEMMA JobStep ==
  ASSUME TypeOK, CacheInv, NEW p \in Procs, NEW j, Update(p, j),
         UNCHANGED <<target, db, work, writer>>,
         Fresh(j), PageAged(j), writer = p => Holder(j), writer # p => Unwritten(j)
  PROVE  CacheInv'
<1>1. job'[p] = j /\ \A q \in Procs : q # p => job'[q] = job[q]
  BY DEF TypeOK, Update
<1>2. ASSUME NEW q \in Procs PROVE JobInv(q)'
  <2>1. CASE q = p
    BY <2>1, <1>1 DEF JobInv, Fresh, PageAged, Holder, WorkOf, Unwritten, Current, ScopeOf
  <2>2. CASE q # p
    BY <2>2, <1>1, SMTT(60)
    DEF CacheInv, JobInv, Fresh, PageAged, Holder, WorkOf, Unwritten, Current, ScopeOf
  <2>3. QED BY <2>1, <2>2
<1>3. QED BY <1>2 DEF CacheInv, Agrees

\* A step that writes.
LEMMA WriteStep ==
  ASSUME TypeOK, CacheInv, NEW p \in Procs, NEW j, NEW w, Update(p, j), Write(p, w),
         MayWrite(p), UNCHANGED <<target, db>>,
         Fresh(j), PageAged(j), Current(j), j.pc # "rebuild", WorkOf(j, w)
  PROVE  CacheInv'
<1>1. job'[p] = j /\ \A q \in Procs : q # p => job'[q] = job[q]
  BY DEF TypeOK, Update
<1>2. writer' = p /\ work' = w /\ p # None
  BY CacheAssumption DEF Write
<1>3. ASSUME NEW q \in Procs PROVE JobInv(q)'
  <2>1. CASE q = p
    BY <2>1, <1>1, <1>2 DEF JobInv, Fresh, PageAged, Holder, WorkOf, Current, ScopeOf
  <2>2. CASE q # p
    <3>1. writer # q BY <2>2, CacheAssumption DEF MayWrite
    <3>2. QED BY <3>1, <2>2, <1>1, <1>2, SMTT(60)
          DEF CacheInv, JobInv, Fresh, PageAged, Unwritten, Current, ScopeOf
  <2>3. QED BY <2>1, <2>2
<1>4. QED BY <1>2, <1>3 DEF CacheInv, Agrees

\* A ROLLBACK keeps the invariant: the work is gone, the committed database stays.
LEMMA RollbackStep ==
  ASSUME TypeOK, CacheInv, NEW p \in Procs, Rollback(p), UNCHANGED target
  PROVE  CacheInv'
<1>1. job'[p] = NoJob /\ \A q \in Procs : q # p => job'[q] = job[q]
  BY DEF TypeOK, Rollback
<1>2. ASSUME NEW q \in Procs PROVE JobInv(q)'
  <2>1. CASE q = p
    <3>1. writer' # p BY CacheAssumption, SMTT(60) DEF Rollback
    <3>2. QED BY <3>1, <2>1, <1>1, NoJobInv
          DEF JobInv, Fresh, PageAged, Unwritten, Current, ScopeOf, NoJob
  <2>2. CASE q # p
    <3>1. /\ writer' = q => writer = q /\ work' = work
          /\ writer' # q => writer # q
          /\ db' = db
      BY <2>2, CacheAssumption DEF Rollback
    <3>2. QED BY <3>1, <2>2, <1>1, SMTT(60)
          DEF CacheInv, JobInv, Fresh, PageAged, Holder, WorkOf, Unwritten, Current, ScopeOf
  <2>3. QED BY <2>1, <2>2
<1>3. writer' = None => work' = db' BY DEF Rollback, CacheInv
<1>4. QED BY <1>2, <1>3 DEF CacheInv, Agrees, Rollback

\* A COMMIT keeps the invariant when the database it leaves agrees: every other
\* transaction with a snapshot is old from then on.
LEMMA CommitStep ==
  ASSUME TypeOK, CacheInv, NEW p \in Procs, NEW d, Commit(p, d), MayWrite(p),
         UNCHANGED target, Agrees(d)
  PROVE  CacheInv'
<1>1. db' = d /\ work' = d /\ writer' = None BY DEF Commit
<1>2. ASSUME NEW q \in Procs PROVE JobInv(q)'
  <2>0. writer' # q BY <1>1, CacheAssumption
  <2>1. CASE q = p
    <3>1. job'[q] = NoJob BY <2>1, SMTT(60) DEF Commit
    <3>2. QED BY <3>1, <2>0, NoJobInv
          DEF JobInv, Fresh, PageAged, Unwritten, Current, ScopeOf, NoJob
  <2>2. CASE q # p
    <3> DEFINE old == job[q].pc \notin {"idle", "drift", "count"}
    <3>1. job'[q] = [job[q] EXCEPT !.old = old] BY <2>2 DEF Commit
    <3>2. job[q] \in Job BY DEF TypeOK
    <3>3. /\ job'[q].pc = job[q].pc /\ job'[q].page = job[q].page
          /\ job'[q].rebuild = job[q].rebuild /\ job'[q].scope = job[q].scope
          /\ job'[q].at = job[q].at /\ job'[q].old = old
      BY <3>1, <3>2 DEF Job
    <3>4. Fresh(job[q]) /\ PageAged(job[q]) BY DEF CacheInv, JobInv
    <3>5. Fresh(job'[q]) BY <3>3, <3>4 DEF Fresh, ScopeOf
    <3>6. job[q].pc \in {"rebuild", "items", "finish"} => job'[q].old
      BY <3>3
    <3>7. ~Current(job'[q]) BY <3>3, <3>6 DEF Current
    <3>8. \A k \in Keys : job[q].pc = "items" /\ job'[q].page[k] # Nothing =>
            job'[q].page[k].ver <= target'[job'[q].scope[job'[q].at]][k].ver
      BY <3>3, <3>4 DEF PageAged
    <3>9. QED BY <3>3, <3>5, <3>6, <3>7, <3>8, <2>0
          DEF JobInv, Fresh, PageAged, Unwritten, Current, ScopeOf
  <2>3. QED BY <2>1, <2>2
<1>3. Agrees(db)' BY <1>1 DEF Agrees
<1>4. QED BY <1>1, <1>2, <1>3 DEF CacheInv

\* What a refresh sees when it may write: its own work, or a clean database.
LEMMA ViewWork ==
  ASSUME TypeOK, CacheInv, NEW p \in Procs, MayWrite(p),
         job[p].pc \in {"items", "finish"}
  PROVE  /\ Current(job[p]) /\ WorkOf(job[p], View(p))
         /\ Agrees(db)
<1>1. Agrees(db) /\ JobInv(p) BY DEF CacheInv
<1>2. CASE writer = p
  BY <1>1, <1>2 DEF JobInv, Holder, View
<1>3. CASE writer # p
  <2>1. Current(job[p]) /\ View(p) = db
    BY <1>3, CacheAssumption DEF MayWrite, Current, View, TypeOK, Job
  <2>2. job[p].rebuild = {} /\ \A d \in ScopeOf(job[p]) : \A k \in Keys :
          db.rows[d][k] # NoRow => db.rows[d][k].spec = job[p].spec
    BY <1>1, <1>3, <2>1 DEF JobInv, Unwritten
  <2>3. WorkOf(job[p], db)
    BY <1>1, <2>2, VersionType DEF WorkOf, Agrees
  <2>4. QED BY <1>1, <2>1, <2>3
<1>4. QED BY <1>2, <1>3

\* A write of the cache is Finish's or Clear's: the rows they commit.
LEMMA FinishAgrees ==
  ASSUME TypeOK, CacheInv, NEW p \in Procs, Finish(p)
  PROVE  \E d : /\ Commit(p, d) /\ Agrees(d)
                /\ \A e \in Names : \A k \in Keys :
                     d.rows[e][k] # NoRow => d.rows[e][k].ver >= db.rows[e][k].ver
<1> DEFINE d == [View(p) EXCEPT !.meta = [e \in Names |->
       IF e \in Scope(p) THEN [hash |-> job[p].spec, count |-> Count(View(p).rows[e])]
       ELSE @[e]]]
<1>1. WorkOf(job[p], View(p)) /\ Agrees(db) BY ViewWork DEF Finish
<1>2. View(p) \in Database BY ViewType
<1>3. /\ d.rows = View(p).rows
      /\ \A e \in Names : d.meta[e] =
           IF e \in ScopeOf(job[p])
           THEN [hash |-> job[p].spec, count |-> Count(View(p).rows[e])]
           ELSE View(p).meta[e]
  BY <1>2, ScopeIs DEF Database
<1>4. Commit(p, d) BY DEF Finish
<1> HIDE DEF d
<1>5. job[p].spec # 0 BY CacheAssumption DEF TypeOK, Job, Specs
<1>6. ASSUME NEW e \in Names
      PROVE  /\ d.meta[e] # NoMeta => d.meta[e].count = Count(d.rows[e])
             /\ \A k \in Keys : d.rows[e][k] # NoRow =>
                  d.meta[e] # NoMeta /\ d.rows[e][k].spec = d.meta[e].hash
  <2>1. CASE e \in ScopeOf(job[p])
    <3>1. d.meta[e] = [hash |-> job[p].spec, count |-> Count(View(p).rows[e])]
      BY <2>1, <1>3
    <3>2. /\ d.meta[e].hash = job[p].spec
          /\ d.meta[e].count = Count(View(p).rows[e])
      BY <3>1
    <3>3. d.meta[e] # NoMeta BY <3>2, <1>5 DEF NoMeta
    <3>4. Count(View(p).rows[e]) = Count(d.rows[e]) BY <1>3
    <3>5. QED BY <3>2, <3>3, <3>4, <2>1, <1>1, <1>3 DEF WorkOf
  <2>2. CASE e \notin ScopeOf(job[p])
    <3>1. d.meta[e] = db.meta[e] /\ d.rows[e] = db.rows[e]
      BY <2>2, <1>1, <1>3 DEF WorkOf
    <3>2. QED BY <3>1, <1>1 DEF Agrees
  <2>3. QED BY <2>1, <2>2
<1>7. ASSUME NEW e \in Names, NEW k \in Keys
      PROVE  /\ d.rows[e][k].ver <= target[e][k].ver
             /\ d.rows[e][k] # NoRow => d.rows[e][k].ver >= db.rows[e][k].ver
  <2>1. CASE d.rows[e][k] # NoRow
    BY <2>1, <1>1, <1>3 DEF WorkOf
  <2>2. CASE d.rows[e][k] = NoRow
    <3>1. target[e][k] \in Record BY DEF TypeOK
    <3>2. QED BY <2>2, <3>1, CacheAssumption DEF NoRow, Record, Nothing
  <2>3. QED BY <2>1, <2>2
<1>8. Agrees(d) BY <1>6, <1>7 DEF Agrees
<1>9. QED BY <1>4, <1>7, <1>8

\* A clear forgets the meta entries of the tables it empties.
LEMMA ClearAgrees ==
  ASSUME TypeOK, CacheInv, NEW p \in Procs, Clear(p)
  PROVE  \E d : /\ Commit(p, d) /\ Agrees(d)
                /\ \A e \in Names : \A k \in Keys :
                     d.rows[e][k] # NoRow => d.rows[e][k].ver >= db.rows[e][k].ver
<1> DEFINE d == [View(p) EXCEPT
       !.rows = [e \in Names |-> IF e \in Scope(p) THEN Empty ELSE @[e]],
       !.meta = [e \in Names |-> IF e \in Scope(p) THEN NoMeta ELSE @[e]]]
<1>1. View(p) = db
  <2>1. JobInv(p) /\ job[p].pc = "clear" BY DEF Clear, CacheInv
  <2>2. writer # p BY <2>1 DEF JobInv, Holder, Current
  <2>3. QED BY <2>2 DEF View
<1>2. db \in Database /\ Agrees(db) BY DEF TypeOK, CacheInv
<1>3. \A e \in Names :
        /\ d.rows[e] = IF e \in Scope(p) THEN Empty ELSE db.rows[e]
        /\ d.meta[e] = IF e \in Scope(p) THEN NoMeta ELSE db.meta[e]
  BY <1>1, <1>2 DEF Database
<1>4. Commit(p, d) BY DEF Clear
<1> HIDE DEF d
<1>5. ASSUME NEW e \in Names, NEW k \in Keys
      PROVE  /\ d.rows[e][k].ver <= target[e][k].ver
             /\ d.rows[e][k] # NoRow => d.rows[e][k].ver >= db.rows[e][k].ver
  <2>1. CASE e \in Scope(p)
    <3>1. d.rows[e][k] = NoRow BY <2>1, <1>3 DEF Empty
    <3>2. target[e][k] \in Record BY DEF TypeOK
    <3>3. QED BY <3>1, <3>2, CacheAssumption DEF NoRow, Record, Nothing
  <2>2. CASE e \notin Scope(p)
    BY <2>2, <1>2, <1>3, VersionType DEF Agrees
  <2>3. QED BY <2>1, <2>2
<1>6. ASSUME NEW e \in Names
      PROVE  /\ d.meta[e] # NoMeta => d.meta[e].count = Count(d.rows[e])
             /\ \A k \in Keys : d.rows[e][k] # NoRow =>
                  d.meta[e] # NoMeta /\ d.rows[e][k].spec = d.meta[e].hash
  <2>1. CASE e \in Scope(p) BY <2>1, <1>3 DEF Empty
  <2>2. CASE e \notin Scope(p) BY <2>2, <1>2, <1>3 DEF Agrees
  <2>3. QED BY <2>1, <2>2
<1>7. Agrees(d) BY <1>5, <1>6 DEF Agrees
<1>8. QED BY <1>4, <1>5, <1>7

\* The inductive invariant: what every job, the lock holder's uncommitted database
\* and the committed one know of each other (engine.transaction around
\* CacheRefreshUseCase.refresh and CacheLifecycleEngine.clear).
THEOREM CacheInvCorrect == Spec => []CacheInv
<1>1. Init => CacheInv
  <2> SUFFICES ASSUME Init PROVE CacheInv OBVIOUS
  <2>1. \A p \in Procs : job[p] = NoJob /\ writer # p
    BY CacheAssumption DEF Init
  <2>2. \A p \in Procs : JobInv(p)
    BY <2>1, NoJobInv DEF JobInv
  <2>3. ASSUME NEW e \in Names, NEW k \in Keys
        PROVE  db.rows[e][k] = NoRow /\ target[e][k] = Nothing /\ db.meta[e] = NoMeta
    BY DEF Init, Empty
  <2>4. Agrees(db)
    <3>1. \A e \in Names : db.meta[e] = NoMeta BY DEF Init
    <3>2. QED BY <2>3, <3>1 DEF Agrees, NoRow, Nothing
  <2>5. QED BY <2>2, <2>4 DEF CacheInv, Init
<1>2. TypeOK /\ CacheInv /\ [Next]_vars => CacheInv'
  <2> SUFFICES ASSUME TypeOK, CacheInv, [Next]_vars PROVE CacheInv' OBVIOUS
  <2>j. ASSUME NEW p \in Procs
        PROVE  /\ job[p] \in Job /\ JobInv(p)
               /\ writer = p => job[p].pc \in {"items", "finish"} /\ ~job[p].old
    BY DEF TypeOK, CacheInv, JobInv, Holder, Current
  <2>1. ASSUME NEW p \in Procs, Start(p) PROVE CacheInv'
    <3>1. PICK j : /\ Update(p, j)
                   /\ j.pc \in {"drift", "count"} /\ j.page = NoPage /\ j.rebuild = {}
      <4>0. NoJob \in Job /\ NoJob.page = NoPage /\ NoJob.rebuild = {}
        BY NoJobType DEF NoJob
      <4>1. ASSUME NEW o \in Refreshes, StartRefresh(p, o)
            PROVE  \E j : /\ Update(p, j) /\ j.pc \in {"drift", "count"}
                          /\ j.page = NoPage /\ j.rebuild = {}
        <5> DEFINE j == [NoJob EXCEPT !.pc = "drift", !.spec = spec, !.at = 1,
                          !.todo = Keys, !.scope = RefreshPlan(o),
                          !.withDeleted = o.withDeleted, !.partial = o.partial,
                          !.live = IF o.partial THEN Unchecked ELSE LiveVersions]
        <5>1. Update(p, j) BY <4>1 DEF StartRefresh
        <5>2. j.pc = "drift" /\ j.page = NoPage /\ j.rebuild = {} BY <4>0 DEF Job
        <5> HIDE DEF j
        <5>3. QED BY <5>1, <5>2
      <4>2. ASSUME NEW o \in Clears, StartClear(p, o)
            PROVE  \E j : /\ Update(p, j) /\ j.pc \in {"drift", "count"}
                          /\ j.page = NoPage /\ j.rebuild = {}
        <5> DEFINE j == [NoJob EXCEPT !.pc = "count", !.spec = spec,
                          !.cascade = o.cascade, !.scope = ClearPlan(o)]
        <5>1. Update(p, j) BY <4>2 DEF StartClear
        <5>2. j.pc = "count" /\ j.page = NoPage /\ j.rebuild = {} BY <4>0, SMTT(60) DEF Job
        <5> HIDE DEF j
        <5>3. QED BY <5>1, <5>2
      <4>3. QED BY <2>1, <4>1, <4>2 DEF Start
    <3>2. writer # p BY <2>1, <2>j DEF Start, StartRefresh, StartClear, CanStart
    <3>3. UNCHANGED <<target, db, work, writer>>
      BY <2>1 DEF Start, StartRefresh, StartClear
    <3>4. Fresh(j) /\ PageAged(j) /\ Unwritten(j)
      BY <3>1 DEF Fresh, PageAged, Unwritten, Current
    <3>5. QED BY <3>1, <3>2, <3>3, <3>4, JobStep
  <2>2. ASSUME NEW p \in Procs, CheckDrift(p) PROVE CacheInv'
    <3>1. job[p] \in Job /\ job[p].pc = "drift" /\ writer # p /\ Fresh(job[p])
      BY <2>2, <2>j DEF CheckDrift, JobInv
    <3>2. job[p].page = NoPage /\ job[p].rebuild = {} BY <3>1 DEF Fresh
    <3>3. ASSUME NEW d \in Scope(p) \ Drifted(p), NEW k \in Keys, db.rows[d][k] # NoRow
          PROVE  db.rows[d][k].spec = job[p].spec
      <4>1. d \in Names BY ScopeType
      <4>2. QED BY <4>1, <3>3 DEF Drifted, CacheInv, Agrees
    <3>4. CASE Drifted(p) = {}
      <4> DEFINE j == [job[p] EXCEPT !.pc = "items"]
      <4>1. Update(p, j) /\ UNCHANGED <<target, db, work, writer>>
        BY <2>2, <3>4 DEF CheckDrift
      <4>2. /\ j.pc = "items" /\ j.page = NoPage /\ j.rebuild = {}
            /\ j.scope = job[p].scope /\ j.spec = job[p].spec
        BY <3>1, <3>2 DEF Job
      <4> HIDE DEF j
      <4>3. ScopeOf(j) = Scope(p) BY <4>2 DEF ScopeOf, Scope
      <4>4. Fresh(j) /\ PageAged(j) BY <4>2 DEF Fresh, PageAged, NoPage
      <4>5. Unwritten(j) BY <4>2, <4>3, <3>3, <3>4 DEF Unwritten
      <4>6. QED BY <4>1, <4>4, <4>5, <3>1, JobStep
    <3>5. CASE Drifted(p) # {} /\ ~Rebuilds
      BY <2>2, <3>5, RollbackStep DEF CheckDrift
    <3>6. CASE Drifted(p) # {} /\ Rebuilds
      <4> DEFINE r == IF RebuildsAll THEN Scope(p) ELSE Drifted(p)
                 j == [job[p] EXCEPT !.pc = "rebuild", !.rebuild = r]
      <4>1. Update(p, j) /\ UNCHANGED <<target, db, work, writer>>
        BY <2>2, <3>6 DEF CheckDrift
      <4>2. /\ j.pc = "rebuild" /\ j.page = NoPage /\ j.rebuild = r
            /\ j.scope = job[p].scope /\ j.spec = job[p].spec
        BY <3>1, <3>2 DEF Job
      <4>3. Drifted(p) \subseteq r /\ r \subseteq Scope(p) BY DEF Drifted
      <4> HIDE DEF j, r
      <4>4. ScopeOf(j) = Scope(p) BY <4>2 DEF ScopeOf, Scope
      <4>5. Fresh(j) /\ PageAged(j) BY <4>2, <4>3, <4>4 DEF Fresh, PageAged
      <4>6. Unwritten(j) BY <4>2, <4>3, <4>4, <3>3 DEF Unwritten
      <4>7. QED BY <4>1, <4>5, <4>6, <3>1, JobStep
    <3>7. QED BY <3>4, <3>5, <3>6
  <2>3. ASSUME NEW p \in Procs, Rebuild(p) PROVE CacheInv'
    <3> DEFINE w == [View(p) EXCEPT
                 !.rows = [e \in Names |-> IF e \in job[p].rebuild THEN Empty ELSE @[e]],
                 !.layout = [e \in Names |-> IF e \in job[p].rebuild
                                               THEN job[p].spec ELSE @[e]]]
               j == [job[p] EXCEPT !.pc = "items"]
    <3>1. /\ job[p] \in Job /\ job[p].pc = "rebuild" /\ writer # p /\ ~job[p].old
          /\ Fresh(job[p]) /\ Unwritten(job[p])
      BY <2>3, <2>j DEF Rebuild, JobInv, MayWrite
    <3>2. db \in Database /\ View(p) = db /\ Agrees(db)
      BY <3>1 DEF View, TypeOK, CacheInv
    <3>3. /\ w.meta = db.meta
          /\ \A e \in Names : w.rows[e] = IF e \in job[p].rebuild THEN Empty ELSE db.rows[e]
      BY <3>2 DEF Database
    <3>4. /\ j.pc = "items" /\ j.page = job[p].page /\ j.old = job[p].old
          /\ j.scope = job[p].scope /\ j.spec = job[p].spec
      BY <3>1 DEF Job
    <3>5. Write(p, w) /\ Update(p, j) BY <2>3 DEF Rebuild
    <3> HIDE DEF w, j
    <3>6. ScopeOf(j) = ScopeOf(job[p]) BY <3>4, SMTT(60) DEF ScopeOf
    <3>7. Fresh(j) /\ PageAged(j) /\ Current(j) /\ j.pc # "rebuild"
      BY <3>1, <3>4 DEF Fresh, PageAged, Current, NoPage
    <3>8. WorkOf(j, w)
      <4>1. SUFFICES ASSUME NEW d \in Names
            PROVE  /\ d \notin ScopeOf(j) => w.rows[d] = db.rows[d]
                   /\ \A k \in Keys : w.rows[d][k] # NoRow =>
                        /\ d \in ScopeOf(j) => w.rows[d][k].spec = j.spec
                        /\ w.rows[d][k].ver >= db.rows[d][k].ver
                        /\ w.rows[d][k].ver <= target[d][k].ver
        BY <3>3 DEF WorkOf
      <4>2. CASE d \in job[p].rebuild
        BY <4>2, <3>1, <3>3, <3>6 DEF Fresh, Empty
      <4>3. CASE d \notin job[p].rebuild
        <5>1. w.rows[d] = db.rows[d] BY <4>3, <3>3
        <5>2. Current(job[p]) BY <3>1 DEF Current
        <5>3. \A k \in Keys : /\ db.rows[d][k].ver >= db.rows[d][k].ver
                              /\ db.rows[d][k].ver <= target[d][k].ver
          BY <3>2, VersionType DEF Agrees
        <5>4. QED BY <5>1, <5>2, <5>3, <4>3, <3>1, <3>4, <3>6 DEF Unwritten
      <4>4. QED BY <4>2, <4>3
    <3>9. QED BY <2>3, <3>5, <3>7, <3>8, WriteStep DEF Rebuild
  <2>4. ASSUME NEW p \in Procs, NEW ks \in SUBSET Keys, ReadPage(p, ks) PROVE CacheInv'
    <3> DEFINE j == [job[p] EXCEPT !.todo = @ \ ks,
          !.page = [k \in Keys |-> IF k \in ks THEN target[Dataset(p)][k] ELSE Nothing]]
    <3>1. job[p] \in Job /\ JobInv(p) /\ job[p].pc = "items"
      BY <2>4, <2>j DEF ReadPage
    <3>2. Dataset(p) \in Names /\ Dataset(p) = job[p].scope[job[p].at]
      BY <3>1, AtDataset, ScopeIs
    <3>3. /\ j.pc = "items" /\ j.scope = job[p].scope /\ j.at = job[p].at
          /\ j.rebuild = job[p].rebuild /\ j.old = job[p].old /\ j.spec = job[p].spec
          /\ \A k \in Keys : j.page[k] = IF k \in ks THEN target[Dataset(p)][k] ELSE Nothing
      BY <3>1 DEF Job
    <3>4. Update(p, j) /\ UNCHANGED <<target, db, work, writer>> BY <2>4 DEF ReadPage
    <3> HIDE DEF j
    <3>5. ScopeOf(j) = ScopeOf(job[p]) BY <3>3 DEF ScopeOf
    <3>6. Fresh(j) BY <3>3, SMTT(60) DEF Fresh
    <3>7. PageAged(j)
      <4>1. \A k \in Keys : /\ target[Dataset(p)][k].ver <= target[Dataset(p)][k].ver
                            /\ db.rows[Dataset(p)][k].ver <= target[Dataset(p)][k].ver
                            /\ target[Dataset(p)][k].ver \in Int
                            /\ db.rows[Dataset(p)][k].ver \in Int
        BY <3>2, VersionType DEF CacheInv, Agrees
      <4>2. QED BY <4>1, <3>2, <3>3, SMTT(60) DEF PageAged
    <3>8. writer = p => Holder(j)
      BY <3>1, <3>3, <3>5 DEF JobInv, Holder, Current, WorkOf
    <3>9. writer # p => Unwritten(j)
      BY <3>1, <3>3, <3>5 DEF JobInv, Unwritten, Current
    <3>10. QED BY <3>4, <3>6, <3>7, <3>8, <3>9, JobStep
  \* A job that is done with an item, in whatever way.
  <2>d. ASSUME NEW p \in Procs, NEW k \in Keys, NEW j, Listed(p, k),
               j = ItemDone(p, k) \/ j = [ItemDone(p, k) EXCEPT !.live = Unchecked]
        PROVE  /\ j.pc = "items" /\ j.scope = job[p].scope /\ j.at = job[p].at
               /\ j.rebuild = job[p].rebuild /\ j.old = job[p].old /\ j.spec = job[p].spec
               /\ ScopeOf(j) = ScopeOf(job[p])
               /\ Fresh(j) /\ PageAged(j)
               /\ writer = p => Holder(j)
               /\ writer # p => Unwritten(j)
    <3>1. job[p] \in Job /\ JobInv(p) /\ job[p].pc = "items" BY <2>d, <2>j DEF Listed
    <3>2. /\ j.pc = "items" /\ j.scope = job[p].scope /\ j.at = job[p].at
          /\ j.rebuild = job[p].rebuild /\ j.old = job[p].old /\ j.spec = job[p].spec
          /\ j.page = [job[p].page EXCEPT ![k] = Nothing]
      BY <2>d, <3>1, ZenonT(60) DEF ItemDone, Job
    <3>3. \A i \in Keys : j.page[i] # Nothing => j.page[i] = job[p].page[i]
      BY <3>1, <3>2 DEF Job
    <3>4. ScopeOf(j) = ScopeOf(job[p]) BY <3>2 DEF ScopeOf
    <3>5. Fresh(j) BY <3>2 DEF Fresh
    <3>6. PageAged(j) BY <3>1, <3>2, <3>3 DEF JobInv, PageAged
    <3>7. writer = p => Holder(j)
      BY <3>1, <3>2, <3>4 DEF JobInv, Holder, Current, WorkOf
    <3>8. writer # p => Unwritten(j)
      BY <3>1, <3>2, <3>4 DEF JobInv, Unwritten, Current
    <3>9. QED BY <3>2, <3>4, <3>5, <3>6, <3>7, <3>8
  <2>5. ASSUME NEW p \in Procs, NEW k \in Keys, SkipItem(p, k) PROVE CacheInv'
    BY <2>5, <2>d, JobStep DEF SkipItem
  <2>6. ASSUME NEW p \in Procs, NEW k \in Keys, UpsertItem(p, k) PROVE CacheInv'
    <3> DEFINE row == [ver |-> job[p].page[k].ver, spec |-> job[p].spec]
               w == [View(p) EXCEPT !.rows[Dataset(p)][k] = row]
    <3>1. /\ job[p] \in Job /\ JobInv(p) /\ job[p].pc = "items"
          /\ Listed(p, k) /\ job[p].page[k] # Nothing /\ MayWrite(p)
      BY <2>6, <2>j DEF UpsertItem, Listed
    <3>2. PICK j : /\ Update(p, j)
                   /\ j = ItemDone(p, k) \/ j = [ItemDone(p, k) EXCEPT !.live = Unchecked]
      BY <2>6 DEF UpsertItem
    <3>3. /\ Dataset(p) \in ScopeOf(job[p]) /\ Dataset(p) \in Names
          /\ Dataset(p) = job[p].scope[job[p].at]
      BY <3>1, AtDataset, ScopeIs
    <3>4. Current(job[p]) /\ WorkOf(job[p], View(p)) BY <3>1, ViewWork
    <3>5. View(p) \in Database BY ViewType, SMTT(60)
    <3>6. /\ w.meta = View(p).meta
          /\ \A e \in Names : \A i \in Keys :
               w.rows[e][i] = IF e = Dataset(p) /\ i = k THEN row ELSE View(p).rows[e][i]
          /\ \A e \in Names : e # Dataset(p) => w.rows[e] = View(p).rows[e]
      BY <3>3, <3>5 DEF Database
    <3>7. Write(p, w) BY <2>6, SMTT(60) DEF UpsertItem
    <3>8. /\ row.ver <= target[Dataset(p)][k].ver
          /\ row.ver >= db.rows[Dataset(p)][k].ver
          /\ row.spec = job[p].spec
      BY <3>1, <3>3, <3>4, SMTT(60) DEF JobInv, PageAged, Current
    <3> HIDE DEF w, row
    <3>9. WorkOf(job[p], w)
      BY <3>3, <3>4, <3>6, <3>8, SMTT(60) DEF WorkOf
    <3>10. /\ Fresh(j) /\ PageAged(j) /\ ScopeOf(j) = ScopeOf(job[p]) /\ j.spec = job[p].spec
           /\ j.pc = "items" /\ j.old = job[p].old
      BY <3>1, <3>2, <2>d
    <3>11. WorkOf(j, w) BY <3>9, <3>10 DEF WorkOf
    <3>12. Current(j) BY <3>4, <3>10 DEF Current
    <3>13. QED BY <2>6, <3>1, <3>2, <3>7, <3>10, <3>11, <3>12, WriteStep DEF UpsertItem
  <2>7. ASSUME NEW p \in Procs, NEW k \in Keys, FailItem(p, k) PROVE CacheInv'
    <3> DEFINE j == [ItemDone(p, k) EXCEPT !.live = Unchecked]
    <3>1. Listed(p, k) /\ Update(p, j) BY <2>7 DEF FailItem
    <3>2. /\ Fresh(j) /\ PageAged(j) /\ ScopeOf(j) = ScopeOf(job[p]) /\ j.spec = job[p].spec
          /\ j.pc = "items" /\ j.old = job[p].old
          /\ writer = p => Holder(j)
          /\ writer # p => Unwritten(j)
      BY <3>1, <2>d
    <3> HIDE DEF j
    <3>3. CASE UNCHANGED <<work, writer>>
      BY <2>7, <3>1, <3>2, <3>3, JobStep DEF FailItem
    <3>4. CASE MayWrite(p) /\ Write(p, View(p))
      <4>1. Current(job[p]) /\ WorkOf(job[p], View(p))
        BY <3>1, <3>4, ViewWork DEF Listed
      <4>2. Current(j) /\ WorkOf(j, View(p)) BY <4>1, <3>2 DEF Current, WorkOf
      <4>3. QED BY <2>7, <3>1, <3>2, <3>4, <4>2, WriteStep DEF FailItem
    <3>5. QED BY <2>7, <3>3, <3>4 DEF FailItem
  <2>8. ASSUME NEW p \in Procs, NextDataset(p) PROVE CacheInv'
    <3>1. job[p] \in Job /\ JobInv(p) /\ job[p].pc = "items" /\ job[p].page = NoPage
      BY <2>8, <2>j DEF NextDataset
    <3>2. PICK j : /\ Update(p, j)
                   /\ j = [job[p] EXCEPT !.at = @ + 1, !.todo = Keys]
                      \/ j = [job[p] EXCEPT !.pc = "finish", !.todo = {}, !.withDeleted = FALSE]
      BY <2>8 DEF NextDataset
    <3>3. /\ j.pc \in {"items", "finish"} /\ j.page = NoPage /\ j.scope = job[p].scope
          /\ j.rebuild = job[p].rebuild /\ j.old = job[p].old /\ j.spec = job[p].spec
      BY <3>1, <3>2, ZenonT(60) DEF Job
    <3>4. ScopeOf(j) = ScopeOf(job[p]) BY <3>3 DEF ScopeOf
    <3>5. Fresh(j) /\ PageAged(j) BY <3>3 DEF Fresh, PageAged, NoPage
    <3>6. writer = p => Holder(j)
      BY <3>1, <3>3, <3>4 DEF JobInv, Holder, Current, WorkOf
    <3>7. writer # p => Unwritten(j)
      BY <3>1, <3>3, <3>4 DEF JobInv, Unwritten, Current
    <3>8. QED BY <2>8, <3>2, <3>5, <3>6, <3>7, JobStep DEF NextDataset
  <2>9. ASSUME NEW p \in Procs, Finish(p) PROVE CacheInv'
    BY <2>9, FinishAgrees, CommitStep DEF Finish
  <2>10. ASSUME NEW p \in Procs, ClearCounts(p) PROVE CacheInv'
    <3> DEFINE j == [job[p] EXCEPT !.pc = "clear"]
    <3>1. writer # p /\ job[p] \in Job BY <2>10, <2>j DEF ClearCounts
    <3>2. j.pc = "clear" BY <3>1 DEF Job
    <3>3. Update(p, j) /\ UNCHANGED <<target, db, work, writer>> BY <2>10 DEF ClearCounts
    <3> HIDE DEF j
    <3>4. Fresh(j) /\ PageAged(j) /\ Unwritten(j)
      BY <3>2, SMTT(60) DEF Fresh, PageAged, Unwritten, Current
    <3>5. QED BY <3>1, <3>3, <3>4, JobStep
  <2>11. ASSUME NEW p \in Procs, Clear(p) PROVE CacheInv'
    BY <2>11, ClearAgrees, CommitStep DEF Clear
  <2>12. ASSUME NEW p \in Procs, PageFails(p) \/ Locked(p) \/ Crash(p) PROVE CacheInv'
    BY <2>12, RollbackStep DEF PageFails, Locked, Crash
  <2>13. ASSUME NEW d \in Names, NEW k \in Keys, TargetChanges(d, k) PROVE CacheInv'
    <3>1. PICK gone \in BOOLEAN :
            target' = [target EXCEPT ![d][k] = [ver |-> @.ver + 1, gone |-> gone]]
      BY <2>13 DEF TargetChanges
    <3>2. \A e \in Names : \A i \in Keys :
            /\ target[e][i].ver \in Int /\ target'[e][i].ver \in Int
            /\ target[e][i].ver <= target'[e][i].ver
            /\ db.rows[e][i].ver \in Int
      BY <3>1, VersionType DEF TypeOK
    <3>3. UNCHANGED <<db, work, writer, job>> BY <2>13 DEF TargetChanges
    <3>4. Agrees(db)' BY <3>2, <3>3 DEF CacheInv, Agrees
    <3>5. ASSUME NEW p \in Procs PROVE JobInv(p)'
      <4>1. JobInv(p) /\ job[p] \in Job BY <2>j
      <4>2. PageAged(job[p])'
        <5>1. CASE job[p].pc = "items"
          <6>1. job[p].scope[job[p].at] \in Names BY <5>1, AtDataset, ScopeIs
          <6>2. \A i \in Keys : job[p].page[i].ver \in Int
            BY <4>1, CacheAssumption DEF Job, Record, Nothing
          <6>3. QED BY <6>1, <6>2, <4>1, <3>2, <3>3, SMTT(60) DEF JobInv, PageAged
        <5>2. CASE job[p].pc # "items" BY <5>2, <3>3 DEF PageAged
        <5>3. QED BY <5>1, <5>2, SMTT(60)
      <4>3. ASSUME writer = p PROVE WorkOf(job[p], work)'
        <5>1. WorkOf(job[p], work) BY <4>1, <4>3 DEF JobInv, Holder
        <5>2. \A e \in Names : \A i \in Keys : work.rows[e][i].ver \in Int
          BY CacheAssumption, SMTT(60) DEF TypeOK, Database, Row, NoRow
        <5>3. QED BY <5>1, <5>2, <3>2, <3>3, SMTT(60) DEF WorkOf, ScopeOf
      <4>4. QED BY <4>1, <4>2, <4>3, <3>3
            DEF JobInv, Fresh, Holder, Unwritten, Current, ScopeOf
    <3>6. QED BY <3>3, <3>4, <3>5 DEF CacheInv
  <2>14. CASE UNCHANGED <<target, db, work, writer, job>>
    BY <2>14 DEF CacheInv, JobInv, Fresh, PageAged, Holder, WorkOf, Unwritten, Current,
                 ScopeOf, Agrees
  <2>15. QED
    BY <2>1, <2>2, <2>3, <2>4, <2>5, <2>6, <2>7, <2>8, <2>9, <2>10, <2>11, <2>12, <2>13,
       <2>14 DEF Next, RefreshStep, ClearStep, EditSpec, vars
<1>3. QED BY <1>1, <1>2, TypeCorrect, PTL DEF Spec

\* count_total is the number of rows, for any overlap of refreshes and clears
\* (set_meta at the end of CacheRefreshUseCase.refresh, reset_meta in clear).
THEOREM MetaCountsRowsCorrect == Spec => []MetaCountsRows
<1>1. CacheInv => MetaCountsRows BY DEF CacheInv, Agrees, MetaCountsRows
<1>2. QED BY <1>1, CacheInvCorrect, PTL

\* Rows of two schemas never mix (_apply_drift_policy_for_scope).
THEOREM RowsUnderRecordedHashCorrect == Spec => []RowsUnderRecordedHash
<1>1. CacheInv => RowsUnderRecordedHash BY DEF CacheInv, Agrees, RowsUnderRecordedHash
<1>2. QED BY <1>1, CacheInvCorrect, PTL

\* No commit brings back an older version of a record (the snapshots of
\* SqliteEngine.transaction).
THEOREM CacheNeverGoesBackCorrect == Spec => CacheNeverGoesBack
<1> DEFINE Forward == \A d \in Names : \A k \in Keys :
             db'.rows[d][k] # NoRow => db'.rows[d][k].ver >= db.rows[d][k].ver
<1>1. TypeOK /\ CacheInv /\ [Next]_vars => [Forward]_vars
  <2> SUFFICES ASSUME TypeOK, CacheInv, [Next]_vars PROVE Forward OBVIOUS
  <2>1. CASE db' = db BY <2>1, VersionType
  <2>2. ASSUME NEW p \in Procs, Finish(p) PROVE Forward
    BY <2>2, FinishAgrees DEF Commit
  <2>3. ASSUME NEW p \in Procs, Clear(p) PROVE Forward
    BY <2>3, ClearAgrees, SMTT(60) DEF Commit
  <2>4. ASSUME db' # db PROVE \E p \in Procs : Finish(p) \/ Clear(p)
    BY <2>4, ZenonT(60) DEF Next, Start, StartRefresh, StartClear, RefreshStep, ClearStep, CheckDrift,
       Rollback, Rebuild, ReadPage, SkipItem, UpsertItem, FailItem, PageFails,
       NextDataset, ClearCounts, Locked, Crash, TargetChanges, EditSpec, vars
  <2>5. QED BY <2>1, <2>2, <2>3, <2>4
<1>2. QED BY <1>1, TypeCorrect, CacheInvCorrect, PTL DEF Spec, CacheNeverGoesBack

----------------------------------------------------------------------------
(* What a full refresh promises                                            *)

\* The record k of dataset d was live when the refresh started and has not changed.
Promised(j, d, k) == j.live[d][k] # 0 /\ target[d][k].ver = j.live[d][k]

\* The refresh is past the record k of the i-th dataset of its scope.
Passed(j, i, k) ==
  \/ j.pc = "finish"
  \/ /\ j.pc = "items"
     /\ i < j.at \/ (i = j.at /\ k \notin j.todo /\ j.page[k] = Nothing)

\* A page is read after the start, so a record of it is as old as the promise or
\* younger, and the target's own if that has the same version; a partial refresh
\* promises nothing.
Sound(j) ==
  /\ j.pc \in {"drift", "rebuild"} => j.at = 1 /\ j.todo = Keys
  /\ \A d \in Names : \A k \in Keys :
       /\ j.partial => j.live[d][k] = 0
       /\ j.live[d][k] <= target[d][k].ver
       /\ Promised(j, d, k) => ~target[d][k].gone
  /\ j.pc = "items" =>
       LET d == j.scope[j.at]
       IN  \A k \in Keys : j.page[k] # Nothing =>
             /\ j.live[d][k] <= j.page[k].ver
             /\ j.page[k].ver = target[d][k].ver => j.page[k] = target[d][k]

\* What it has passed and still stands by is in the database w.
Written(j, w) ==
  \A i \in DOMAIN j.scope : \A k \in Keys :
    Passed(j, i, k) /\ Promised(j, j.scope[i], k)
      => w.rows[j.scope[i]][k].ver = j.live[j.scope[i]][k]

\* A refresh without the lock has passed nothing it stands by.
Owes(j) == \E i \in DOMAIN j.scope : \E k \in Keys :
             Passed(j, i, k) /\ Promised(j, j.scope[i], k)

Keeps(p) ==
  /\ Sound(job[p])
  /\ Owes(job[p]) => writer = p
  /\ writer = p => Written(job[p], work)

PromiseInv == \A p \in Procs : Keeps(p)

LEMMA JobFacts ==
  ASSUME TypeOK, NEW p \in Procs
  PROVE  /\ job[p] \in Job /\ job[p].at \in Nat
         /\ \A i \in DOMAIN job[p].scope : i \in Nat /\ i >= 1 /\ job[p].scope[i] \in Names
         /\ \A d \in Names : \A k \in Keys :
              /\ job[p].live[d][k] \in Nat
              /\ target[d][k] \in Record /\ target[d][k].ver \in Nat
              /\ target[d][k].ver = 0 => target[d][k] = Nothing
         /\ \A k \in Keys : job[p].page[k] \in Record /\ job[p].page[k].ver \in Nat
<1>1. job[p] \in Job BY DEF TypeOK
<1>2. job[p].scope \in Seq(Names) BY <1>1 DEF Job
<1>3. \A d \in Names : \A k \in Keys : target[d][k] \in Record
  BY DEF TypeOK
<1>4. \A r \in Record : r.ver \in Nat /\ (r.ver = 0 => r = Nothing)
  BY CacheAssumption DEF Record, Nothing
<1>5. \A d \in Names : \A k \in Keys : job[p].live[d][k] \in Nat
  BY <1>1, CacheAssumption DEF Job
<1>6. \A k \in Keys : job[p].page[k] \in Record
  BY <1>1 DEF Job
<1>7. job[p].at \in Nat BY <1>1 DEF Job
<1>8. \A i \in DOMAIN job[p].scope : i \in Nat /\ i >= 1 /\ job[p].scope[i] \in Names
  BY <1>2
<1>9. QED BY <1>1, <1>3, <1>4, <1>5, <1>6, <1>7, <1>8

\* A job that promises nothing and is not about to start.
LEMMA Silent ==
  ASSUME TypeOK, NEW j, j.pc \notin {"drift", "rebuild"},
         \A d \in Names : \A k \in Keys : j.live[d][k] = 0,
         j.pc = "items" => \A k \in Keys : j.page[k] # Nothing =>
                             /\ j.page[k].ver >= 0
                             /\ j.page[k].ver = target[j.scope[j.at]][k].ver
                                  => j.page[k] = target[j.scope[j.at]][k],
         \A i \in DOMAIN j.scope : j.scope[i] \in Names,
         j.pc = "items" => j.scope[j.at] \in Names
  PROVE  Sound(j) /\ ~Owes(j) /\ \A w : Written(j, w)
<1>1. \A d \in Names : \A k \in Keys : target[d][k].ver >= 0 /\ ~Promised(j, d, k)
  <2>1. \A r \in Record : r.ver >= 0 BY CacheAssumption DEF Record, Nothing
  <2>2. QED BY <2>1 DEF TypeOK, Promised
<1>2. Sound(j) BY <1>1 DEF Sound
<1>3. ~Owes(j) /\ \A w : Written(j, w) BY <1>1 DEF Owes, Written
<1>4. QED BY <1>2, <1>3

LEMMA NoJobSilent ==
  ASSUME TypeOK
  PROVE  Sound(NoJob) /\ ~Owes(NoJob) /\ \A w : Written(NoJob, w)
<1>1. NoJob.pc = "idle" /\ NoJob.scope = <<>> BY DEF NoJob
<1>2. \A d \in Names : \A k \in Keys : NoJob.live[d][k] = 0 BY DEF NoJob, Unchecked
<1>3. QED BY <1>1, <1>2, Silent

\* What a job knows of the target does not depend on whose job it is, nor on the
\* age of its snapshot.
LEMMA SameJob ==
  ASSUME NEW j, NEW i, i.pc = j.pc, i.at = j.at, i.todo = j.todo, i.page = j.page,
         i.scope = j.scope, i.live = j.live, i.partial = j.partial
  PROVE  /\ Sound(j) => Sound(i) /\ (Owes(i) => Owes(j))
         /\ \A w : Written(j, w) => Written(i, w)
BY DEF Sound, Owes, Written, Passed, Promised

LEMMA KeepsPrimed ==
  ASSUME target' = target, NEW q, NEW j, job'[q] = j, NEW w, work' = w,
         Sound(j), Owes(j) => writer' = q, writer' = q => Written(j, w)
  PROVE  Keeps(q)'
BY DEF Keeps, Sound, Owes, Written, Passed, Promised

\* A step that moves the job of p on and leaves the database alone.
LEMMA PromiseJob ==
  ASSUME TypeOK, PromiseInv, NEW p \in Procs, NEW j, Update(p, j),
         UNCHANGED <<target, work, writer>>,
         Sound(j), Owes(j) => writer = p, writer = p => Written(j, work)
  PROVE  PromiseInv'
<1>1. job'[p] = j /\ \A q \in Procs : q # p => job'[q] = job[q]
  BY DEF TypeOK, Update
<1>2. ASSUME NEW q \in Procs PROVE Keeps(q)'
  <2>1. PICK i, w : job'[q] = i /\ work' = w OBVIOUS
  <2>2. Sound(i) /\ (Owes(i) => writer = q) /\ (writer = q => Written(i, w))
    BY <1>1, <2>1 DEF PromiseInv, Keeps
  <2>3. QED BY <2>1, <2>2, KeepsPrimed
<1>3. QED BY <1>2 DEF PromiseInv

\* A step that writes.
LEMMA PromiseWrite ==
  ASSUME TypeOK, PromiseInv, NEW p \in Procs, NEW j, NEW w, Update(p, j), Write(p, w),
         MayWrite(p), target' = target, Sound(j), Written(j, w)
  PROVE  PromiseInv'
<1>1. job'[p] = j /\ \A q \in Procs : q # p => job'[q] = job[q]
  BY DEF TypeOK, Update
<1>2. writer' = p /\ work' = w BY DEF Write
<1>3. \A q \in Procs : q # p => writer # q
  BY CacheAssumption DEF MayWrite
<1>4. ASSUME NEW q \in Procs PROVE Keeps(q)'
  <2>1. PICK i : job'[q] = i OBVIOUS
  <2>2. Sound(i) /\ (Owes(i) => p = q) /\ (p = q => Written(i, w))
    BY <1>1, <1>3, <2>1 DEF PromiseInv, Keeps
  <2>3. QED BY <1>2, <2>1, <2>2, KeepsPrimed
<1>5. QED BY <1>4 DEF PromiseInv

LEMMA PromiseRollback ==
  ASSUME TypeOK, PromiseInv, NEW p \in Procs, Rollback(p), target' = target
  PROVE  PromiseInv'
<1>1. job'[p] = NoJob /\ \A q \in Procs : q # p => job'[q] = job[q]
  BY DEF TypeOK, Rollback
<1>2. \A q \in Procs : q # p => (writer' = q <=> writer = q) /\ (writer' = q => work' = work)
  BY CacheAssumption DEF Rollback
<1>3. ASSUME NEW q \in Procs PROVE Keeps(q)'
  <2>1. PICK i, w : job'[q] = i /\ work' = w OBVIOUS
  <2>2. Sound(i) /\ (Owes(i) => writer' = q) /\ (writer' = q => Written(i, w))
    BY <1>1, <1>2, <2>1, NoJobSilent DEF PromiseInv, Keeps
  <2>3. QED BY <2>1, <2>2, KeepsPrimed
<1>4. QED BY <1>3 DEF PromiseInv

LEMMA PromiseCommit ==
  ASSUME TypeOK, PromiseInv, NEW p \in Procs, NEW d, Commit(p, d), MayWrite(p),
         target' = target
  PROVE  PromiseInv'
<1>1. \A q \in Procs : writer' # q BY CacheAssumption DEF Commit
<1>2. ASSUME NEW q \in Procs PROVE Keeps(q)'
  <2>1. PICK i, w : job'[q] = i /\ work' = w OBVIOUS
  <2>2. CASE q = p
    <3>1. i = NoJob BY <2>1, <2>2 DEF Commit
    <3>2. QED BY <1>1, <2>1, <3>1, NoJobSilent, KeepsPrimed
  <2>3. CASE q # p
    <3>1. i = [job[q] EXCEPT !.old = job[q].pc \notin {"idle", "drift", "count"}]
      BY <2>1, <2>3 DEF Commit
    <3>2. job[q] \in Job BY DEF TypeOK
    <3>3. /\ i.pc = job[q].pc /\ i.at = job[q].at /\ i.todo = job[q].todo
          /\ i.page = job[q].page /\ i.scope = job[q].scope /\ i.live = job[q].live
          /\ i.partial = job[q].partial
      BY <3>1, <3>2 DEF Job
    <3>4. Sound(job[q]) /\ ~Owes(job[q])
      BY <2>3, CacheAssumption DEF PromiseInv, Keeps, MayWrite
    <3>5. Sound(i) /\ ~Owes(i) BY <3>3, <3>4, SameJob
    <3>6. QED BY <1>1, <2>1, <3>5, KeepsPrimed
  <2>4. QED BY <2>2, <2>3
<1>3. QED BY <1>2 DEF PromiseInv

\* The record of the page is the promised one.
LEMMA PageKeeps ==
  ASSUME TypeOK, CacheInv, PromiseInv, NEW p \in Procs, NEW k \in Keys, Listed(p, k),
         Promised(job[p], Dataset(p), k)
  PROVE  /\ job[p].page[k].ver = job[p].live[Dataset(p)][k]
         /\ ~job[p].page[k].gone
<1>1. job[p].pc = "items" /\ job[p].page[k] # Nothing BY DEF Listed
<1>2. Dataset(p) \in Names /\ Dataset(p) = job[p].scope[job[p].at]
  BY <1>1, AtDataset, ScopeIs
<1>3. /\ job[p].live[Dataset(p)][k] <= job[p].page[k].ver
      /\ job[p].page[k].ver = target[Dataset(p)][k].ver => job[p].page[k] = target[Dataset(p)][k]
      /\ ~target[Dataset(p)][k].gone
  BY <1>1, <1>2 DEF PromiseInv, Keeps, Sound
<1>4. job[p].page[k].ver <= target[Dataset(p)][k].ver
  BY <1>1, <1>2, SMTT(60) DEF CacheInv, JobInv, PageAged
<1>5. job[p].page[k].ver = target[Dataset(p)][k].ver
  BY <1>2, <1>3, <1>4, JobFacts DEF Promised
<1>6. QED BY <1>3, <1>5 DEF Promised

\* Done with an item, a refresh has passed one record more.
LEMMA ItemDoneSound ==
  ASSUME TypeOK, PromiseInv, NEW p \in Procs, NEW k \in Keys, Listed(p, k)
  PROVE  /\ Sound(ItemDone(p, k))
         /\ ItemDone(p, k).scope = job[p].scope /\ ItemDone(p, k).live = job[p].live
         /\ \A i \in DOMAIN job[p].scope, l \in Keys :
              Passed(ItemDone(p, k), i, l) => Passed(job[p], i, l) \/ (i = job[p].at /\ l = k)
<1> DEFINE j == ItemDone(p, k)
<1>1. job[p] \in Job /\ job[p].pc = "items" /\ Sound(job[p])
  BY DEF TypeOK, Listed, PromiseInv, Keeps
<1>2. /\ j.pc = "items" /\ j.at = job[p].at /\ j.todo = job[p].todo
      /\ j.scope = job[p].scope /\ j.live = job[p].live /\ j.partial = job[p].partial
      /\ j.page = [job[p].page EXCEPT ![k] = Nothing]
  BY <1>1 DEF ItemDone, Job
<1>3. \A l \in Keys : j.page[l] = IF l = k THEN Nothing ELSE job[p].page[l]
  BY <1>1, <1>2 DEF Job
<1> HIDE DEF j
<1>4. Sound(j) BY <1>1, <1>2, <1>3 DEF Sound, Promised
<1>5. \A i \in DOMAIN job[p].scope, l \in Keys :
        Passed(j, i, l) => Passed(job[p], i, l) \/ (i = job[p].at /\ l = k)
  BY <1>1, <1>2, <1>3 DEF Passed
<1>6. QED BY <1>2, <1>4, <1>5 DEF j

\* A refresh that has counted a failure promises nothing.
LEMMA FailedSilent ==
  ASSUME TypeOK, PromiseInv, NEW p \in Procs, NEW k \in Keys, Listed(p, k)
  PROVE  LET j == [ItemDone(p, k) EXCEPT !.live = Unchecked]
         IN  Sound(j) /\ ~Owes(j) /\ \A w : Written(j, w)
<1> DEFINE i == ItemDone(p, k)
           j == [i EXCEPT !.live = Unchecked]
<1>1. job[p] \in Job /\ job[p].pc = "items" BY DEF TypeOK, Listed
<1>2. Sound(i) BY ItemDoneSound
<1>3. /\ i.pc = "items" /\ i.at = job[p].at /\ i.scope = job[p].scope
      /\ j.pc = "items" /\ j.at = i.at /\ j.scope = i.scope /\ j.page = i.page
      /\ j.live = Unchecked
      /\ \A l \in Keys : i.page[l] = IF l = k THEN Nothing ELSE job[p].page[l]
  BY <1>1 DEF ItemDone, Job
<1>4. Dataset(p) = i.scope[i.at] /\ Dataset(p) \in Names
  BY <1>1, <1>3, AtDataset, ScopeIs
<1>5. \A l \in Keys : i.page[l] # Nothing => i.page[l].ver >= 0
  BY <1>3, JobFacts
<1> HIDE DEF i, j
<1>6. \A l \in Keys : j.page[l] # Nothing =>
        /\ j.page[l].ver >= 0
        /\ j.page[l].ver = target[j.scope[j.at]][l].ver => j.page[l] = target[j.scope[j.at]][l]
  BY <1>2, <1>3, <1>5 DEF Sound
<1>7. \A d \in Names : \A l \in Keys : j.live[d][l] = 0
  BY <1>3 DEF Unchecked
<1>8. \A n \in DOMAIN j.scope : j.scope[n] \in Names
  BY <1>3, JobFacts
<1>9. j.pc \notin {"drift", "rebuild"} /\ j.scope[j.at] \in Names
  BY <1>3, <1>4
<1>10. Sound(j) /\ ~Owes(j) /\ \A w : Written(j, w)
  BY <1>6, <1>7, <1>8, <1>9, Silent
<1>11. QED BY <1>10 DEF i, j

LEMMA PromiseStep ==
  ASSUME TypeOK, CacheInv, PromiseInv, Next
  PROVE  PromiseInv'
<1>j. ASSUME NEW p \in Procs
      PROVE  job[p] \in Job /\ Fresh(job[p]) /\ Keeps(p)
  BY DEF TypeOK, CacheInv, JobInv, PromiseInv
\* A refresh that starts with its first dataset has passed nothing.
<1>b. ASSUME NEW p \in Procs, NEW j, j.pc \in {"drift", "rebuild", "items"}, j.at = 1,
             j.todo = Keys, j.page = NoPage, \A i \in DOMAIN j.scope : i >= 1 /\ i \in Nat
      PROVE  ~Owes(j) /\ \A w : Written(j, w)
  BY <1>b DEF Owes, Written, Passed
<1>1. ASSUME NEW p \in Procs, NEW o \in Refreshes, StartRefresh(p, o) PROVE PromiseInv'
  <2> DEFINE live == IF o.partial THEN Unchecked ELSE LiveVersions
             j == [NoJob EXCEPT !.pc = "drift", !.spec = spec, !.at = 1, !.todo = Keys,
                      !.scope = RefreshPlan(o), !.withDeleted = o.withDeleted,
                      !.partial = o.partial, !.live = live]
  <2>1. /\ j.pc = "drift" /\ j.at = 1 /\ j.todo = Keys /\ j.page = NoPage
        /\ j.scope = RefreshPlan(o) /\ j.partial = o.partial /\ j.live = live
    BY ZenonT(60) DEF NoJob
  <2>2. Update(p, j) /\ UNCHANGED <<target, work, writer>> BY <1>1 DEF StartRefresh
  <2>3. ASSUME NEW d \in Names, NEW k \in Keys
        PROVE  /\ o.partial => live[d][k] = 0
               /\ live[d][k] <= target[d][k].ver
               /\ live[d][k] # 0 => live[d][k] = target[d][k].ver /\ ~target[d][k].gone
    <3>1. target[d][k].ver \in Nat /\ target[d][k].ver >= 0 BY JobFacts
    <3>2. CASE o.partial
      BY <3>1, <3>2 DEF Unchecked
    <3>3. CASE ~o.partial
      <4>1. live[d][k] = IF target[d][k].gone THEN 0 ELSE target[d][k].ver
        BY <3>3 DEF LiveVersions
      <4> HIDE DEF live
      <4>2. QED BY <3>1, <3>3, <4>1
    <3>4. QED BY <3>2, <3>3
  <2> HIDE DEF j, live
  <2>4. Sound(j) BY <2>1, <2>3 DEF Sound, Promised
  <2>5. j.scope \in Seq(Names) BY <2>1, RefreshPlansCorrect
  <2>6. ~Owes(j) /\ \A w : Written(j, w)
    BY <1>b, <2>1, <2>5
  <2>7. QED BY <2>2, <2>4, <2>6, PromiseJob
<1>2. ASSUME NEW p \in Procs, NEW o \in Clears, StartClear(p, o) PROVE PromiseInv'
  <2> DEFINE j == [NoJob EXCEPT !.pc = "count", !.spec = spec, !.cascade = o.cascade,
                                !.scope = ClearPlan(o)]
  <2>1. j.pc = "count" /\ j.scope = ClearPlan(o) /\ j.live = Unchecked
    BY ZenonT(60) DEF NoJob
  <2>2. Update(p, j) /\ UNCHANGED <<target, work, writer>> BY <1>2 DEF StartClear
  <2> HIDE DEF j
  <2>3. \A i \in DOMAIN j.scope : j.scope[i] \in Names
    BY <2>1, ClearPlansCorrect
  <2>4. Sound(j) /\ ~Owes(j) /\ \A w : Written(j, w)
    BY <2>1, <2>3, Silent DEF Unchecked
  <2>5. QED BY <2>2, <2>4, PromiseJob
\* The steps from the drift check to the items change neither the place nor the promise.
<1>i. ASSUME NEW p \in Procs, job[p].pc \in {"drift", "rebuild"}, NEW j,
             j.pc \in {"rebuild", "items"}, j.at = job[p].at, j.todo = job[p].todo,
             j.page = job[p].page, j.scope = job[p].scope, j.live = job[p].live,
             j.partial = job[p].partial
      PROVE  Sound(j) /\ ~Owes(j) /\ \A w : Written(j, w)
  <2>1. job[p].at = 1 /\ job[p].todo = Keys /\ job[p].page = NoPage /\ Sound(job[p])
    BY <1>j, <1>i DEF Keeps, Sound, Fresh
  <2>2. Sound(j) BY <1>i, <2>1 DEF Sound, Promised, NoPage
  <2>3. \A i \in DOMAIN j.scope : i >= 1 /\ i \in Nat BY <1>i, JobFacts
  <2>4. ~Owes(j) /\ \A w : Written(j, w) BY <1>b, <1>i, <2>1, <2>3
  <2>5. QED BY <2>2, <2>4
<1>3. ASSUME NEW p \in Procs, CheckDrift(p) PROVE PromiseInv'
  <2>1. CASE Rollback(p) BY <1>3, <2>1, PromiseRollback DEF CheckDrift
  <2>2. ASSUME NEW r, NEW pc \in {"rebuild", "items"},
               Update(p, [job[p] EXCEPT !.pc = pc, !.rebuild = r]),
               UNCHANGED <<target, work, writer>>
        PROVE  PromiseInv'
    <3> DEFINE j == [job[p] EXCEPT !.pc = pc, !.rebuild = r]
    <3>1. /\ j.pc = pc /\ j.at = job[p].at /\ j.todo = job[p].todo /\ j.page = job[p].page
          /\ j.scope = job[p].scope /\ j.live = job[p].live /\ j.partial = job[p].partial
      BY <1>j DEF Job
    <3>2. Update(p, j) BY <2>2
    <3> HIDE DEF j
    <3>3. Sound(j) /\ ~Owes(j) /\ \A w : Written(j, w)
      BY <1>3, <1>i, <2>2, <3>1 DEF CheckDrift
    <3>4. QED BY <2>2, <3>2, <3>3, PromiseJob
  <2>3. CASE Drifted(p) = {}
    <3>1. [job[p] EXCEPT !.pc = "items"] = [job[p] EXCEPT !.pc = "items", !.rebuild = job[p].rebuild]
      BY <1>j DEF Job
    <3>2. Update(p, [job[p] EXCEPT !.pc = "items"]) /\ UNCHANGED <<target, work, writer>>
      BY <1>3, <2>3 DEF CheckDrift
    <3>3. QED BY <2>2, <3>1, <3>2
  <2>4. CASE Drifted(p) # {}
    <3>1. Rollback(p) \/
          /\ Update(p, [job[p] EXCEPT !.pc = "rebuild",
                          !.rebuild = IF RebuildsAll THEN Scope(p) ELSE Drifted(p)])
          /\ UNCHANGED <<target, work, writer>>
      BY <1>3, <2>4 DEF CheckDrift
    <3>2. QED BY <2>1, <2>2, <3>1
  <2>5. QED BY <2>3, <2>4
<1>4. ASSUME NEW p \in Procs, Rebuild(p) PROVE PromiseInv'
  <2> DEFINE j == [job[p] EXCEPT !.pc = "items"]
             w == [View(p) EXCEPT
                 !.rows = [d \in Names |-> IF d \in job[p].rebuild THEN Empty ELSE @[d]],
                 !.layout = [d \in Names |-> IF d \in job[p].rebuild
                                               THEN job[p].spec ELSE @[d]]]
  <2>1. /\ j.pc = "items" /\ j.at = job[p].at /\ j.todo = job[p].todo /\ j.page = job[p].page
        /\ j.scope = job[p].scope /\ j.live = job[p].live /\ j.partial = job[p].partial
    BY <1>j DEF Job
  <2>2. /\ Update(p, j) /\ Write(p, w) /\ MayWrite(p) /\ target' = target
        /\ job[p].pc = "rebuild"
    BY <1>4 DEF Rebuild
  <2> HIDE DEF j, w
  <2>3. Sound(j) /\ Written(j, w) BY <1>i, <2>1, <2>2
  <2>4. QED BY <2>2, <2>3, PromiseWrite
<1>5. ASSUME NEW p \in Procs, NEW ks \in SUBSET Keys, ReadPage(p, ks) PROVE PromiseInv'
  <2> DEFINE d == Dataset(p)
             j == [job[p] EXCEPT !.todo = @ \ ks,
                     !.page = [k \in Keys |-> IF k \in ks THEN target[d][k] ELSE Nothing]]
  <2>1. /\ j.pc = "items" /\ j.at = job[p].at /\ j.todo = job[p].todo \ ks
        /\ \A k \in Keys : j.page[k] = IF k \in ks THEN target[d][k] ELSE Nothing
        /\ j.scope = job[p].scope /\ j.live = job[p].live /\ j.partial = job[p].partial
        /\ job[p].pc = "items" /\ job[p].page = NoPage
    BY <1>5, <1>j DEF Job, ReadPage
  <2>2. d \in Names /\ d = job[p].scope[job[p].at] BY <2>1, AtDataset, ScopeIs
  <2>3. Update(p, j) /\ UNCHANGED <<target, work, writer>> BY <1>5 DEF ReadPage
  <2>4. Sound(job[p]) BY <1>j DEF Keeps
  <2> HIDE DEF j, d
  <2>5. Sound(j) BY <2>1, <2>2, <2>4, SMTT(60) DEF Sound, Promised
  <2>6. ASSUME NEW i \in DOMAIN j.scope, NEW k \in Keys, Passed(j, i, k),
               Promised(j, j.scope[i], k)
        PROVE  Passed(job[p], i, k) /\ Promised(job[p], j.scope[i], k)
    <3>1. Promised(job[p], j.scope[i], k) BY <2>1, <2>6 DEF Promised
    <3>2. CASE i = j.at /\ k \in ks
      <4>1. target[d][k] = Nothing
        <5>1. job[p].at \in Nat BY <1>j DEF Job
        <5>2. ~(i < j.at) BY <2>1, <3>2, <5>1
        <5>3. j.page[k] = Nothing BY <2>1, <2>6, <5>2 DEF Passed
        <5>4. QED BY <2>1, <3>2, <5>3
      <4>2. j.scope[i] = d BY <2>1, <2>2, <3>2
      <4>3. job[p].live[d][k] = 0 BY <3>1, <4>1, <4>2 DEF Promised, Nothing
      <4>4. QED BY <3>1, <4>2, <4>3 DEF Promised
    <3>3. CASE ~(i = j.at /\ k \in ks)
      BY <2>1, <2>6, <3>1, <3>3 DEF Passed, NoPage
    <3>4. QED BY <3>2, <3>3
  <2>7. (Owes(j) => writer = p) /\ (writer = p => Written(j, work))
    BY <1>j, <2>1, <2>6 DEF Keeps, Owes, Written
  <2>8. QED BY <2>3, <2>5, <2>7, PromiseJob
<1>6. ASSUME NEW p \in Procs, NEW k \in Keys, SkipItem(p, k) PROVE PromiseInv'
  <2> DEFINE j == ItemDone(p, k)
  <2>1. /\ Listed(p, k) /\ job[p].page[k].gone /\ Update(p, j)
        /\ UNCHANGED <<target, work, writer>>
    BY <1>6 DEF SkipItem
  <2>2. /\ Sound(j) /\ j.scope = job[p].scope /\ j.live = job[p].live
        /\ \A i \in DOMAIN job[p].scope, l \in Keys :
              Passed(j, i, l) => Passed(job[p], i, l) \/ (i = job[p].at /\ l = k)
    BY <2>1, ItemDoneSound
  <2>3. ~Promised(job[p], job[p].scope[job[p].at], k)
    BY <2>1, PageKeeps, ScopeIs
  <2> HIDE DEF j
  <2>4. ASSUME NEW i \in DOMAIN j.scope, NEW l \in Keys, Passed(j, i, l),
               Promised(j, j.scope[i], l)
        PROVE  Passed(job[p], i, l) /\ Promised(job[p], j.scope[i], l)
    <3>1. Promised(job[p], j.scope[i], l) BY <2>2, <2>4 DEF Promised
    <3>2. QED BY <2>2, <2>3, <2>4, <3>1
  <2>5. (Owes(j) => writer = p) /\ (writer = p => Written(j, work))
    BY <1>j, <2>2, <2>4 DEF Keeps, Owes, Written
  <2>6. QED BY <2>1, <2>2, <2>5, PromiseJob
<1>7. ASSUME NEW p \in Procs, NEW k \in Keys, UpsertItem(p, k) PROVE PromiseInv'
  <2> DEFINE d == Dataset(p)
             row == [ver |-> job[p].page[k].ver, spec |-> job[p].spec]
             w == [View(p) EXCEPT !.rows[d][k] = row]
  <2>1. Listed(p, k) /\ MayWrite(p) /\ Write(p, w) /\ target' = target
    BY <1>7 DEF UpsertItem
  <2>2. CASE Update(p, [ItemDone(p, k) EXCEPT !.live = Unchecked])
    BY <2>1, <2>2, FailedSilent, PromiseWrite
  <2>3. CASE Update(p, ItemDone(p, k))
    <3> DEFINE j == ItemDone(p, k)
    <3>1. /\ Sound(j) /\ j.scope = job[p].scope /\ j.live = job[p].live
          /\ \A i \in DOMAIN job[p].scope, l \in Keys :
                Passed(j, i, l) => Passed(job[p], i, l) \/ (i = job[p].at /\ l = k)
      BY <2>1, ItemDoneSound
    <3>2. d = job[p].scope[job[p].at] /\ d \in Names
      BY <2>1, AtDataset, ScopeIs DEF Listed
    <3>3. \A e \in Names : \A l \in Keys :
            w.rows[e][l] = IF e = d /\ l = k THEN row ELSE View(p).rows[e][l]
      <4>1. View(p) \in Database BY ViewType
      <4>2. QED BY <3>2, <4>1 DEF Database
    <3>4. row.ver = job[p].page[k].ver OBVIOUS
    <3> HIDE DEF j, w, row, d
    <3>5. ASSUME NEW i \in DOMAIN j.scope, NEW l \in Keys, Passed(j, i, l),
                 Promised(j, j.scope[i], l)
          PROVE  w.rows[j.scope[i]][l].ver = j.live[j.scope[i]][l]
      <4>1. j.scope[i] \in Names /\ Promised(job[p], j.scope[i], l)
        BY <3>1, <3>5, JobFacts DEF Promised
      <4>2. CASE j.scope[i] = d /\ l = k
        <5>1. job[p].page[k].ver = job[p].live[d][k]
          BY <2>1, <4>1, <4>2, PageKeeps DEF d
        <5>2. QED BY <3>1, <3>3, <3>4, <4>1, <4>2, <5>1
      <4>3. CASE ~(j.scope[i] = d /\ l = k)
        <5>1. Passed(job[p], i, l) BY <3>1, <3>2, <3>5, <4>3
        <5>2. writer = p BY <1>j, <3>1, <4>1, <5>1 DEF Keeps, Owes
        <5>3. work.rows[j.scope[i]][l].ver = j.live[j.scope[i]][l]
          BY <1>j, <3>1, <4>1, <5>1, <5>2 DEF Keeps, Written
        <5>4. View(p) = work BY <5>2 DEF View
        <5>5. QED BY <3>3, <4>1, <4>3, <5>3, <5>4
      <4>4. QED BY <4>2, <4>3
    <3>6. Written(j, w) BY <3>5 DEF Written
    <3>7. QED BY <2>1, <2>3, <3>1, <3>6, PromiseWrite DEF j
  <2>4. QED BY <1>7, <2>2, <2>3 DEF UpsertItem
<1>8. ASSUME NEW p \in Procs, NEW k \in Keys, FailItem(p, k) PROVE PromiseInv'
  <2> DEFINE j == [ItemDone(p, k) EXCEPT !.live = Unchecked]
  <2>1. Listed(p, k) /\ Update(p, j) /\ target' = target
    BY <1>8 DEF FailItem
  <2>2. Sound(j) /\ ~Owes(j) /\ \A w : Written(j, w) BY <2>1, FailedSilent
  <2> HIDE DEF j
  <2>3. CASE UNCHANGED <<work, writer>> BY <2>1, <2>2, <2>3, PromiseJob
  <2>4. CASE MayWrite(p) /\ Write(p, View(p)) BY <2>1, <2>2, <2>4, PromiseWrite
  <2>5. QED BY <1>8, <2>3, <2>4 DEF FailItem
<1>9. ASSUME NEW p \in Procs, NextDataset(p) PROVE PromiseInv'
  <2>1. /\ job[p].pc = "items" /\ job[p].page = NoPage
        /\ job[p].todo = {} \/ job[p].partial
        /\ UNCHANGED <<target, work, writer>>
    BY <1>9 DEF NextDataset
  <2>2. Sound(job[p]) /\ job[p].at \in Nat /\ job[p].scope \in Seq(Names)
    BY <1>j, JobFacts DEF Keeps, Job
  \* What a full refresh has passed then, it had passed before.
  <2>3. ASSUME NEW i \in DOMAIN job[p].scope, NEW k \in Keys, i <= job[p].at,
               Promised(job[p], job[p].scope[i], k)
        PROVE  Passed(job[p], i, k)
    <3>1. job[p].scope[i] \in Names /\ i \in Nat BY JobFacts
    <3>2. ~job[p].partial BY <2>2, <2>3, <3>1 DEF Sound, Promised
    <3>3. QED BY <2>1, <2>2, <2>3, <3>1, <3>2 DEF Passed, NoPage
  <2>4. ASSUME NEW j, Update(p, j), j.pc \in {"items", "finish"}, j.page = NoPage,
               j.scope = job[p].scope, j.live = job[p].live, j.partial = job[p].partial,
               \A i \in DOMAIN j.scope, k \in Keys : Passed(j, i, k) => i <= job[p].at
        PROVE  PromiseInv'
    <3>1. Sound(j) BY <2>2, <2>4 DEF Sound, Promised, NoPage
    <3>2. \A i \in DOMAIN j.scope, k \in Keys :
            Passed(j, i, k) /\ Promised(j, j.scope[i], k)
              => Passed(job[p], i, k) /\ Promised(job[p], job[p].scope[i], k)
      BY <2>3, <2>4 DEF Promised
    <3>3. (Owes(j) => writer = p) /\ (writer = p => Written(j, work))
      BY <1>j, <2>4, <3>2 DEF Keeps, Owes, Written
    <3>4. QED BY <2>1, <2>4, <3>1, <3>3, PromiseJob
  <2>5. CASE job[p].at < Len(job[p].scope)
    <3> DEFINE j == [job[p] EXCEPT !.at = @ + 1, !.todo = Keys]
    <3>1. /\ j.pc = "items" /\ j.page = NoPage /\ j.scope = job[p].scope
          /\ j.live = job[p].live /\ j.partial = job[p].partial
          /\ j.at = job[p].at + 1 /\ j.todo = Keys
      BY <1>j, <2>1 DEF Job
    <3>2. Update(p, j) BY <1>9, <2>5 DEF NextDataset
    <3> HIDE DEF j
    <3>3. \A i \in DOMAIN j.scope, k \in Keys : Passed(j, i, k) => i <= job[p].at
      BY <2>2, <3>1, JobFacts DEF Passed
    <3>4. QED BY <2>4, <3>1, <3>2, <3>3
  <2>6. CASE ~(job[p].at < Len(job[p].scope))
    <3> DEFINE j == [job[p] EXCEPT !.pc = "finish", !.todo = {}, !.withDeleted = FALSE]
    <3>1. /\ j.pc = "finish" /\ j.page = NoPage /\ j.scope = job[p].scope
          /\ j.live = job[p].live /\ j.partial = job[p].partial
      BY <1>j, <2>1 DEF Job
    <3>2. Update(p, j) BY <1>9, <2>6 DEF NextDataset
    <3> HIDE DEF j
    <3>3. \A i \in DOMAIN j.scope, k \in Keys : Passed(j, i, k) => i <= job[p].at
      BY <2>2, <2>6, <3>1, JobFacts
    <3>4. QED BY <2>4, <3>1, <3>2, <3>3
  <2>7. QED BY <2>5, <2>6
<1>10. ASSUME NEW p \in Procs, Finish(p) \/ Clear(p) PROVE PromiseInv'
  <2>1. MayWrite(p) /\ target' = target /\ \E d : Commit(p, d)
    BY <1>10, ZenonT(60) DEF Finish, Clear
  <2>2. QED BY <2>1, PromiseCommit
<1>11. ASSUME NEW p \in Procs, ClearCounts(p) PROVE PromiseInv'
  <2> DEFINE j == [job[p] EXCEPT !.pc = "clear"]
  <2>1. /\ j.pc = "clear" /\ j.live = job[p].live /\ j.partial = job[p].partial
        /\ job[p].pc = "count"
    BY <1>j, <1>11 DEF Job, ClearCounts
  <2>2. Update(p, j) /\ UNCHANGED <<target, work, writer>> BY <1>11 DEF ClearCounts
  <2> HIDE DEF j
  <2>3. Sound(j) BY <1>j, <2>1 DEF Keeps, Sound, Promised
  <2>4. ~Owes(j) /\ \A w : Written(j, w) BY <2>1 DEF Owes, Written, Passed
  <2>5. QED BY <2>2, <2>3, <2>4, PromiseJob
<1>12. ASSUME NEW p \in Procs, PageFails(p) \/ Locked(p) \/ Crash(p) PROVE PromiseInv'
  BY <1>12, PromiseRollback DEF PageFails, Locked, Crash
<1>13. ASSUME NEW d \in Names, NEW k \in Keys, TargetChanges(d, k) PROVE PromiseInv'
  <2>1. /\ target[d][k].ver \in Nat /\ UNCHANGED <<work, writer, job>>
        /\ target'[d][k].ver = target[d][k].ver + 1
        /\ \A e \in Names : \A l \in Keys : e # d \/ l # k => target'[e][l] = target[e][l]
    <3>1. PICK gone \in BOOLEAN :
            target' = [target EXCEPT ![d][k] = [ver |-> target[d][k].ver + 1, gone |-> gone]]
      BY <1>13 DEF TargetChanges
    <3>2. target \in [Names -> [Keys -> Record]] BY DEF TypeOK
    <3>3. target[d][k].ver \in Nat
      BY <3>2, CacheAssumption DEF Record, Nothing
    <3>4. UNCHANGED <<work, writer, job>> BY <1>13 DEF TargetChanges
    <3>5. QED BY <3>1, <3>2, <3>3, <3>4
  <2>2. ASSUME NEW p \in Procs PROVE Keeps(p)'
    <3>1. Sound(job[p]) /\ PageAged(job[p]) BY <1>j DEF Keeps, CacheInv, JobInv
    <3>2. \A e \in Names, l \in Keys :
            target'[e][l].ver = job[p].live[e][l] => target'[e][l] = target[e][l]
      BY <2>1, <3>1, JobFacts, SMTT(60) DEF Sound
    <3>3. \A e \in Names, l \in Keys : job[p].live[e][l] <= target'[e][l].ver
      BY <2>1, <3>1, JobFacts, SMTT(60) DEF Sound
    <3>4. ASSUME job[p].pc = "items", NEW l \in Keys, job[p].page[l] # Nothing,
                 job[p].page[l].ver = target'[Dataset(p)][l].ver
          PROVE  job[p].page[l] = target'[Dataset(p)][l]
      <4>1. Dataset(p) \in Names /\ Dataset(p) = job[p].scope[job[p].at]
        BY <3>4, AtDataset, ScopeIs
      <4>2. job[p].page[l].ver <= target[Dataset(p)][l].ver
        BY <3>1, <3>4, <4>1 DEF PageAged
      <4>3. target'[Dataset(p)][l] = target[Dataset(p)][l]
        BY <2>1, <3>4, <4>1, <4>2, JobFacts
      <4>4. QED BY <3>1, <3>4, <4>1, <4>3 DEF Sound
    <3>5. Sound(job[p])'
      BY <2>1, <3>1, <3>2, <3>3, <3>4, ScopeIs, SMTT(60) DEF Sound, Promised
    <3>6. (Owes(job[p])' => Owes(job[p])) /\ (Written(job[p], work) => Written(job[p], work)')
      BY <2>1, <3>2, JobFacts, SMTT(60) DEF Owes, Written, Passed, Promised
    <3>7. QED BY <1>j, <2>1, <3>5, <3>6 DEF Keeps
  <2>3. QED BY <2>2 DEF PromiseInv
<1>14. ASSUME UNCHANGED <<target, work, writer, job>> PROVE PromiseInv'
  BY <1>14 DEF PromiseInv, Keeps, Sound, Owes, Written, Passed, Promised
<1>15. QED
  BY <1>1, <1>2, <1>3, <1>4, <1>5, <1>6, <1>7, <1>8, <1>9, <1>10, <1>11, <1>12, <1>13, <1>14
     DEF Next, Start, RefreshStep, ClearStep, EditSpec

\* A refresh of every page that counts no failure leaves no gap in its scope
\* (CacheRefreshUseCase.refresh: iter_pages, the loop over the items, the commit).
THEOREM CleanRefreshIsCompleteCorrect == Spec => CleanRefreshIsComplete
<1> DEFINE Complete == \A p \in Procs :
             /\ job[p].pc = "finish"
             /\ job'[p].pc = "idle" /\ db' # db
             => \A d \in Scope(p) : \A k \in Keys :
                  job[p].live[d][k] \in {0, db'.rows[d][k].ver}
                    \/ target[d][k].ver # job[p].live[d][k]
<1>1. Init /\ TypeOK => PromiseInv
  <2> SUFFICES ASSUME Init, TypeOK, NEW p \in Procs PROVE Keeps(p)
    BY DEF PromiseInv
  <2>1. job[p] = NoJob /\ writer # p BY CacheAssumption DEF Init
  <2>2. QED BY <2>1, NoJobSilent DEF Keeps
<1>2. TypeOK /\ CacheInv /\ PromiseInv /\ [Next]_vars => PromiseInv'
  <2>1. ASSUME UNCHANGED vars, PromiseInv PROVE PromiseInv'
    BY <2>1 DEF vars, PromiseInv, Keeps, Sound, Owes, Written, Passed, Promised
  <2>2. QED BY <2>1, PromiseStep, SMTT(60)
<1>3. TypeOK /\ CacheInv /\ PromiseInv /\ [Next]_vars => [Complete]_vars
  <2> SUFFICES ASSUME TypeOK, CacheInv, PromiseInv, Next, NEW p \in Procs,
                      job[p].pc = "finish", job'[p].pc = "idle", db' # db,
                      NEW d \in Scope(p), NEW k \in Keys,
                      job[p].live[d][k] # 0, target[d][k].ver = job[p].live[d][k]
               PROVE  db'.rows[d][k].ver = job[p].live[d][k]
    BY DEF vars
  <2>1. \E q \in Procs : Finish(q) \/ Clear(q)
    BY ZenonT(60) DEF Next, Start, StartRefresh, StartClear, RefreshStep, ClearStep, CheckDrift,
       Rollback, Rebuild, ReadPage, SkipItem, UpsertItem, FailItem, PageFails,
       NextDataset, ClearCounts, Locked, Crash, TargetChanges, EditSpec
  <2>2. ASSUME NEW q \in Procs, q # p PROVE ~Finish(q) /\ ~Clear(q)
    <3>1. ASSUME NEW w, Commit(q, w) PROVE job'[p].pc = job[p].pc
      <4>1. job'[p] = [job[p] EXCEPT !.old = job[p].pc \notin {"idle", "drift", "count"}]
        BY <2>2, <3>1 DEF Commit
      <4>2. job[p] \in Job BY DEF TypeOK
      <4>3. QED BY <4>1, <4>2 DEF Job
    <3>2. (Finish(q) \/ Clear(q)) => \E w : Commit(q, w)
      BY ZenonT(60) DEF Finish, Clear
    <3>3. QED BY <3>1, <3>2
  <2>3. Finish(p)
    BY <2>1, <2>2 DEF Clear
  <2>4. PICK i \in DOMAIN job[p].scope : d = job[p].scope[i]
    BY DEF Scope
  <2>5. Passed(job[p], i, k) /\ Promised(job[p], job[p].scope[i], k)
    BY <2>4 DEF Passed, Promised
  <2>6. writer = p /\ work.rows[d][k].ver = job[p].live[d][k]
    BY <2>4, <2>5 DEF PromiseInv, Keeps, Owes, Written
  <2>7. db'.rows = View(p).rows
    <3>1. View(p) \in Database BY ViewType
    <3>2. QED BY <2>3, <3>1 DEF Finish, Commit, Database
  <2>8. QED BY <2>6, <2>7 DEF View
<1>4. QED
  BY <1>1, <1>2, <1>3, TypeCorrect, CacheInvCorrect, PTL DEF Spec, CleanRefreshIsComplete

=============================================================================
