-------------------------- MODULE TopologyRun_proofs --------------------------
(***************************************************************************)
(* Proofs about the topology of a run, in three parts: what the recursive  *)
(* definitions compute, by sets of numbers that are closed under           *)
(* successor; what the steps of a run keep; and what follows for the rows. *)
(***************************************************************************)
EXTENDS TopologyRun, TLAPS, FiniteSetTheorems, WellFoundedInduction

\* A set of numbers that has 0, and the successor of each of its numbers, has all.
LEMMA AllNumbers ==
  ASSUME NEW P \in SUBSET Nat, 0 \in P, \A k \in P : k + 1 \in P
  PROVE  P = Nat
<1>1. SUFFICES ASSUME Nat \ P # {} PROVE FALSE
  OBVIOUS
<1>2. PICK k \in Nat \ P : \A j \in Nat \ P : ~ (<<j, k>> \in OpToRel(<, Nat))
  BY <1>1, WFMin, NatLessThanWellFounded
<1>3. k - 1 \in Nat /\ k - 1 < k
  OBVIOUS
<1>4. <<k - 1, k>> \in OpToRel(<, Nat)
  BY <1>3 DEF OpToRel
<1>5. k - 1 \in P
  BY <1>2, <1>3, <1>4
<1>6. QED BY <1>3, <1>5

\* The ancestors of a node, one by one: a walk of any length agrees with every
\* longer one.  (path_to_root.)
LEMMA AncestorSteps ==
  ASSUME NEW parent, NEW n
  PROVE  /\ Ancestor(parent, n, 0) = n
         /\ \A k \in Nat :
               Ancestor(parent, n, k + 1) =
                  IF Ancestor(parent, n, k) \in DOMAIN parent
                  THEN parent[Ancestor(parent, n, k)] ELSE NoParent
<1> DEFINE above(a) == IF a \in DOMAIN parent THEN parent[a] ELSE NoParent
          IsUp(f, m) == f = [i \in 0 .. m |-> IF i = 0 THEN n ELSE above(f[i - 1])]
<1> HIDE DEF above
<1>1. \A m \in Nat : \E f : IsUp(f, m)
  <2> DEFINE P == {m \in Nat : \E f : IsUp(f, m)}
  <2>1. 0 \in P
    <3> DEFINE f == [i \in 0 .. 0 |-> n]
    <3>1. IsUp(f, 0)
      OBVIOUS
    <3>2. QED BY <3>1
  <2>2. ASSUME NEW m \in P PROVE m + 1 \in P
    <3>1. PICK f : IsUp(f, m)
      OBVIOUS
    <3> DEFINE g == [i \in 0 .. m + 1 |-> IF i = m + 1 THEN above(f[m]) ELSE f[i]]
    <3>2. m \in Nat
      OBVIOUS
    <3>3. ASSUME NEW i \in 0 .. m + 1
          PROVE  g[i] = IF i = 0 THEN n ELSE above(g[i - 1])
      <4>1. CASE i = m + 1
        BY <3>2, <4>1
      <4>2. CASE i \in 0 .. m
        BY <3>1, <3>2, <4>2
      <4>3. QED BY <3>2, <4>1, <4>2
    <3>4. IsUp(g, m + 1)
      BY <3>2, <3>3
    <3>5. \E h : IsUp(h, m + 1)
      <4> HIDE DEF g, IsUp
      <4>1. QED BY <3>4
    <3>6. QED
      <4> HIDE DEF IsUp
      <4>1. QED BY <3>2, <3>5
  <2>3. P = Nat
    <3> HIDE DEF IsUp
    <3>1. P \in SUBSET Nat
      OBVIOUS
    <3> HIDE DEF P
    <3>2. QED BY <2>1, <2>2, <3>1, AllNumbers
  <2>4. QED
    <3> HIDE DEF IsUp
    <3>1. QED BY <2>3
<1>2. ASSUME NEW m \in Nat
      PROVE  \E f : IsUp(f, m) /\ Ancestor(parent, n, m) = f[m]
  <2> DEFINE up[i \in 0 .. m] == IF i = 0 THEN n ELSE above(up[i - 1])
  <2>1. Ancestor(parent, n, m) = up[m]
    BY DEF Ancestor, above
  <2>2. IsUp(up, m)
    <3>1. \E f : IsUp(f, m)
      BY <1>1
    <3>2. QED BY <3>1
  <2> HIDE DEF up, IsUp
  <2>3. QED BY <2>1, <2>2
<1>3. ASSUME NEW m \in Nat, NEW f, NEW g, IsUp(f, m), IsUp(g, m + 1)
      PROVE  f[m] = g[m]
  <2> DEFINE P == {i \in Nat : i <= m => f[i] = g[i]}
  <2>1. 0 \in P
    BY <1>3
  <2>2. ASSUME NEW i \in P PROVE i + 1 \in P
    <3>1. SUFFICES ASSUME i + 1 <= m PROVE f[i + 1] = g[i + 1]
      OBVIOUS
    <3>2. i \in Nat /\ f[i] = g[i]
      BY <3>1
    <3>3. f[i + 1] = above(f[i]) /\ g[i + 1] = above(g[i])
      BY <1>3, <3>1, <3>2
    <3>4. QED BY <3>2, <3>3
  <2>3. P = Nat
    <3>1. P \in SUBSET Nat
      OBVIOUS
    <3> HIDE DEF P
    <3>2. QED BY <2>1, <2>2, <3>1, AllNumbers
  <2>4. QED BY <2>3
<1>4. Ancestor(parent, n, 0) = n
  BY <1>2
<1>5. ASSUME NEW k \in Nat
      PROVE  Ancestor(parent, n, k + 1) = above(Ancestor(parent, n, k))
  <2>1. PICK f : IsUp(f, k) /\ Ancestor(parent, n, k) = f[k]
    BY <1>2
  <2>0. \A m \in Nat : \E g : IsUp(g, m) /\ Ancestor(parent, n, m) = g[m]
    BY <1>2
  <2>2. PICK g : IsUp(g, k + 1) /\ Ancestor(parent, n, k + 1) = g[k + 1]
    <3> HIDE DEF IsUp
    <3>1. k + 1 \in Nat
      OBVIOUS
    <3>2. QED BY <2>0, <3>1
  <2>3. f[k] = g[k]
    BY <1>3, <2>1, <2>2, SMTT(60)
  <2>4. g[k + 1] = above(g[k])
    BY <2>2
  <2>5. QED BY <2>1, <2>2, <2>3, <2>4
<1>6. QED BY <1>4, <1>5 DEF above

\* The lineage of a node holds the node and, after as many steps as there are
\* nodes, every parent of what it holds, and nothing a set with these two could miss.
LEMMA LineageIsLeast ==
  ASSUME NEW parent, IsFiniteSet(DOMAIN parent), NoParent \notin DOMAIN parent,
         NEW n \in DOMAIN parent
  PROVE  /\ n \in Lineage(parent, n)
         /\ \A a \in Lineage(parent, n) :
               parent[a] \in DOMAIN parent => parent[a] \in Lineage(parent, n)
         /\ \A S \in SUBSET DOMAIN parent :
               n \in S /\ (\A a \in S : parent[a] \in DOMAIN parent => parent[a] \in S)
                  => Lineage(parent, n) \subseteq S
<1> DEFINE N == Cardinality(DOMAIN parent)
          Anc(k) == Ancestor(parent, n, k)
<1>1. N \in Nat
  BY FS_CardinalityType
<1>2. /\ Anc(0) = n
      /\ \A k \in Nat : Anc(k + 1) = IF Anc(k) \in DOMAIN parent
                                       THEN parent[Anc(k)] ELSE NoParent
  BY AncestorSteps
<1>3. \A a : a \in Lineage(parent, n) <=> a \in DOMAIN parent /\ \E k \in 0 .. N : a = Anc(k)
  BY DEF Lineage
<1> HIDE DEF Anc, N
<1>4. \A k \in Nat : Anc(k + 1) \in DOMAIN parent
        => Anc(k) \in DOMAIN parent /\ Anc(k + 1) = parent[Anc(k)]
  BY <1>2
<1>5. n \in Lineage(parent, n)
  BY <1>1, <1>2, <1>3
<1>6. ASSUME NEW S \in SUBSET DOMAIN parent, n \in S,
             \A a \in S : parent[a] \in DOMAIN parent => parent[a] \in S
      PROVE  Lineage(parent, n) \subseteq S
  <2> DEFINE P == {k \in Nat : Anc(k) \in DOMAIN parent => Anc(k) \in S}
  <2>1. 0 \in P
    BY <1>2, <1>6
  <2>2. ASSUME NEW k \in P PROVE k + 1 \in P
    BY <1>4, <1>6
  <2>3. P = Nat
    <3>1. P \in SUBSET Nat
      OBVIOUS
    <3> HIDE DEF P
    <3>2. QED BY <2>1, <2>2, <3>1, AllNumbers
  <2>4. QED BY <1>1, <1>3, <2>3
<1>7. ASSUME NEW i \in Nat, NEW j \in Nat, Anc(i) = Anc(j)
      PROVE  \A d \in Nat : Anc(i + d) = Anc(j + d)
  <2> DEFINE P == {d \in Nat : Anc(i + d) = Anc(j + d)}
  <2>1. 0 \in P
    BY <1>7
  <2>2. ASSUME NEW d \in P PROVE d + 1 \in P
    <3>1. Anc((i + d) + 1) = Anc((j + d) + 1)
      BY <1>2
    <3>2. (i + d) + 1 = i + (d + 1) /\ (j + d) + 1 = j + (d + 1)
      OBVIOUS
    <3>3. QED BY <3>1, <3>2
  <2>3. P = Nat
    <3>1. P \in SUBSET Nat
      OBVIOUS
    <3> HIDE DEF P
    <3>2. QED BY <2>1, <2>2, <3>1, AllNumbers
  <2>4. QED BY <2>3
<1>8. ASSUME Anc(N + 1) \in DOMAIN parent
      PROVE  \E k \in 0 .. N : Anc(k) = Anc(N + 1)
  <2>1. \A k \in 0 .. N : Anc(k) \in DOMAIN parent
    <3> DEFINE P == {k \in Nat : k <= N + 1 => Anc(N + 1 - k) \in DOMAIN parent}
    <3>1. 0 \in P
      BY <1>1, <1>8
    <3>2. ASSUME NEW k \in P PROVE k + 1 \in P
      <4>1. SUFFICES ASSUME k + 1 <= N + 1
                     PROVE  Anc(N + 1 - (k + 1)) \in DOMAIN parent
        OBVIOUS
      <4>2. Anc(N + 1 - k) \in DOMAIN parent
        BY <1>1, <4>1
      <4>3. N - k \in Nat /\ N + 1 - k = (N - k) + 1 /\ N + 1 - (k + 1) = N - k
        BY <1>1, <4>1
      <4>4. QED BY <1>4, <4>2, <4>3
    <3>3. P = Nat
      <4>1. P \in SUBSET Nat
        OBVIOUS
      <4> HIDE DEF P
      <4>2. QED BY <3>1, <3>2, <4>1, AllNumbers
    <3>4. ASSUME NEW k \in 0 .. N PROVE Anc(k) \in DOMAIN parent
      <4>0. N + 1 - k \in Nat
        BY <1>1
      <4>1. N + 1 - k \in P
        <5> HIDE DEF P
        <5>1. QED BY <4>0, <3>3
      <4>2. N + 1 - (N + 1 - k) = k /\ N + 1 - k <= N + 1
        BY <1>1
      <4>3. QED BY <4>1, <4>2
    <3>5. QED BY <3>4
  <2> DEFINE f == [k \in 0 .. N |-> Anc(k)]
  <2>2. IsFiniteSet(0 .. N) /\ Cardinality(0 .. N) = N + 1
    BY <1>1, FS_Interval
  <2>3. f \in [0 .. N -> DOMAIN parent] /\ Cardinality(DOMAIN parent) < Cardinality(0 .. N)
    BY <1>1, <2>1, <2>2 DEF N
  <2>4. \E x, y \in 0 .. N : x # y /\ f[x] = f[y]
    <3> HIDE DEF f
    <3>1. QED BY <2>2, <2>3, FS_PigeonHole
  <2>5. PICK i \in 0 .. N, j \in 0 .. N : i < j /\ Anc(i) = Anc(j)
    <3>1. PICK x \in 0 .. N, y \in 0 .. N : x # y /\ f[x] = f[y]
      BY <2>4
    <3>2. Anc(x) = Anc(y)
      BY <3>1
    <3>3. x < y \/ y < x
      BY <1>1, <3>1
    <3>4. QED BY <3>2, <3>3
  <2>6. N + 1 - j \in Nat /\ j + (N + 1 - j) = N + 1 /\ i + (N + 1 - j) \in 0 .. N
        /\ i \in Nat /\ j \in Nat
    BY <1>1, <2>5
  <2>7. Anc(i + (N + 1 - j)) = Anc(j + (N + 1 - j))
    BY <1>7, <2>5, <2>6
  <2>8. QED BY <2>6, <2>7
<1>9. ASSUME NEW a \in Lineage(parent, n), parent[a] \in DOMAIN parent
      PROVE  parent[a] \in Lineage(parent, n)
  <2>1. PICK k \in 0 .. N : a = Anc(k) /\ a \in DOMAIN parent
    BY <1>3
  <2>2. Anc(k + 1) = parent[a]
    BY <1>1, <1>2, <2>1
  <2>3. CASE k < N
    BY <1>1, <1>3, <1>9, <2>2, <2>3
  <2>4. CASE k = N
    BY <1>3, <1>8, <1>9, <2>2, <2>4
  <2>5. QED BY <1>1, <2>3, <2>4
<1>10. QED BY <1>5, <1>6, <1>9

\* A walk starts with the parent.
LEMMA AncestorOfParent ==
  ASSUME NEW parent, NEW n \in DOMAIN parent, NEW k \in Nat
  PROVE  Ancestor(parent, n, k + 1) = Ancestor(parent, parent[n], k)
<1> DEFINE P == {i \in Nat : Ancestor(parent, n, i + 1) = Ancestor(parent, parent[n], i)}
           above(a) == IF a \in DOMAIN parent THEN parent[a] ELSE NoParent
<1>0. \A m : /\ Ancestor(parent, m, 0) = m
             /\ \A i \in Nat : Ancestor(parent, m, i + 1) = above(Ancestor(parent, m, i))
  BY AncestorSteps, Zenon
<1> HIDE DEF above
<1>1. 0 \in P
  <2>1. Ancestor(parent, n, 0 + 1) = parent[n]
    <3>1. 0 \in Nat
      OBVIOUS
    <3>2. Ancestor(parent, n, 0 + 1) = above(Ancestor(parent, n, 0))
      BY <1>0, <3>1
    <3>3. QED BY <1>0, <3>2 DEF above
  <2>2. Ancestor(parent, parent[n], 0) = parent[n]
    BY <1>0
  <2>3. QED BY <2>1, <2>2
<1>2. ASSUME NEW i \in P PROVE i + 1 \in P
  <2>1. i \in Nat /\ i + 1 \in Nat /\ Ancestor(parent, n, i + 1) = Ancestor(parent, parent[n], i)
    OBVIOUS
  <2>2. Ancestor(parent, n, i + 1 + 1) = Ancestor(parent, parent[n], i + 1)
    <3>1. /\ Ancestor(parent, n, i + 1 + 1) = above(Ancestor(parent, n, i + 1))
          /\ Ancestor(parent, parent[n], i + 1) = above(Ancestor(parent, parent[n], i))
      BY <1>0, <2>1
    <3>2. QED BY <2>1, <3>1
  <2>3. QED BY <2>1, <2>2
<1>3. P = Nat
  <2>1. P \in SUBSET Nat
    OBVIOUS
  <2> HIDE DEF P
  <2>2. QED BY <1>1, <1>2, <2>1, AllNumbers
<1>4. QED BY <1>3

\* From outside the rows there is no way back among them.
LEMMA NoLineageOutside ==
  ASSUME NEW parent, NoParent \notin DOMAIN parent, NEW n, n \notin DOMAIN parent,
         IsFiniteSet(DOMAIN parent)
  PROVE  Lineage(parent, n) = {}
<1> DEFINE P == {k \in Nat : Ancestor(parent, n, k) \notin DOMAIN parent}
<1>1. 0 \in P BY AncestorSteps
<1>2. ASSUME NEW k \in P PROVE k + 1 \in P
  <2>1. Ancestor(parent, n, k + 1) = NoParent
    BY AncestorSteps, Zenon
  <2>2. QED BY <2>1
<1>3. P = Nat
  <2>1. P \in SUBSET Nat
    OBVIOUS
  <2> HIDE DEF P
  <2>2. QED BY <1>1, <1>2, <2>1, AllNumbers
<1>4. Cardinality(DOMAIN parent) \in Nat BY FS_CardinalityType
<1>5. \A k \in 0 .. Cardinality(DOMAIN parent) : k \in P BY <1>3, <1>4
<1>6. QED BY <1>5 DEF Lineage

\* The lineage of a node is the node and the lineage of its parent.
LEMMA LineageOfParent ==
  ASSUME NEW parent, IsFiniteSet(DOMAIN parent), NoParent \notin DOMAIN parent,
         NEW n \in DOMAIN parent
  PROVE  /\ Lineage(parent, n) = {n} \cup Lineage(parent, parent[n])
         /\ IsFiniteSet(Lineage(parent, n)) /\ Lineage(parent, n) \subseteq DOMAIN parent
<1> DEFINE L(m) == Lineage(parent, m)
           closed(S) == \A a \in S : parent[a] \in DOMAIN parent => parent[a] \in S
<1>1. \A m : L(m) \subseteq DOMAIN parent BY DEF Lineage
<1>2. \A m \in DOMAIN parent :
         /\ m \in L(m) /\ closed(L(m))
         /\ \A S \in SUBSET DOMAIN parent : m \in S /\ closed(S) => L(m) \subseteq S
  BY LineageIsLeast
<1>3. \A m : m \notin DOMAIN parent => L(m) = {} BY NoLineageOutside
<1>4. IsFiniteSet(L(n)) BY <1>1, FS_Subset
<1> HIDE DEF L
<1>5. closed({n} \cup L(parent[n])) BY <1>2, <1>3
<1>6. L(n) \subseteq {n} \cup L(parent[n])
  <2>1. {n} \cup L(parent[n]) \in SUBSET DOMAIN parent BY <1>1
  <2> HIDE DEF closed
  <2>2. QED BY <1>2, <1>5, <2>1
<1>7. L(parent[n]) \subseteq L(n)
  <2>1. CASE parent[n] \in DOMAIN parent
    <3>1. parent[n] \in L(n) BY <1>2, <2>1
    <3>2. L(n) \in SUBSET DOMAIN parent BY <1>1
    <3> HIDE DEF closed
    <3>3. QED BY <1>2, <2>1, <3>1, <3>2
  <2>2. CASE parent[n] \notin DOMAIN parent BY <1>3, <2>2
  <2>3. QED BY <2>1, <2>2
<1>8. n \in L(n) BY <1>2
<1>9. L(n) = {n} \cup L(parent[n]) BY <1>6, <1>7, <1>8
<1>10. QED BY <1>1, <1>4, <1>9 DEF L

\* Where the walk up finds no cycle, the lineage of a parent is smaller by one.
LEMMA DepthOfParent ==
  ASSUME NEW parent, IsFiniteSet(DOMAIN parent), NoParent \notin DOMAIN parent,
         ~ HasCycle(parent), NEW n \in DOMAIN parent
  PROVE  /\ Depth(parent, n) \in Nat /\ Depth(parent, n) < Cardinality(DOMAIN parent)
         /\ parent[n] \in DOMAIN parent => Depth(parent, n) = Depth(parent, parent[n]) + 1
         /\ parent[n] \notin DOMAIN parent => Depth(parent, n) = 0
<1> DEFINE up == Lineage(parent, parent[n])
<1>1. Lineage(parent, n) = {n} \cup up /\ n \notin up BY LineageOfParent DEF HasCycle
<1>2. IsFiniteSet(Lineage(parent, n)) /\ Lineage(parent, n) \subseteq DOMAIN parent
  BY LineageOfParent
<1>3. IsFiniteSet(up) BY <1>1, <1>2, FS_Subset
<1>4. Cardinality(up) \in Nat /\ Cardinality(Lineage(parent, n)) = Cardinality(up) + 1
  BY <1>1, <1>3, FS_AddElement, FS_CardinalityType
<1>5. /\ Cardinality(Lineage(parent, n)) <= Cardinality(DOMAIN parent)
      /\ Cardinality(DOMAIN parent) \in Nat
  BY <1>2, FS_Subset, FS_CardinalityType
<1>6. parent[n] \notin DOMAIN parent => up = {} BY NoLineageOutside
<1>7. up = {} => Cardinality(up) = 0 BY FS_EmptySet
<1>8. QED BY <1>4, <1>5, <1>6, <1>7 DEF Depth

\* The check for cycles is exact: there is none if and only if the nodes can be ranked
\* so that every parent ranks below its children (_has_cycle).
THEOREM CyclesAreFound ==
  ASSUME NEW parent, IsFiniteSet(DOMAIN parent), NoParent \notin DOMAIN parent
  PROVE  ~ HasCycle(parent) <=>
            \E rank \in [DOMAIN parent -> 0 .. Cardinality(DOMAIN parent)] :
               \A n \in DOMAIN parent :
                  parent[n] \in DOMAIN parent => rank[parent[n]] < rank[n]
<1> DEFINE D == DOMAIN parent
           Ranks(rank) == \A n \in D : parent[n] \in D => rank[parent[n]] < rank[n]
<1>0. Cardinality(D) \in Nat BY FS_CardinalityType
<1>1. ASSUME ~ HasCycle(parent)
      PROVE  \E rank \in [D -> 0 .. Cardinality(D)] : Ranks(rank)
  <2> DEFINE rank == [n \in D |-> Depth(parent, n)]
  <2>1. \A n \in D : /\ Depth(parent, n) \in 0 .. Cardinality(D)
                     /\ parent[n] \in D => Depth(parent, parent[n]) < Depth(parent, n)
    BY <1>0, <1>1, DepthOfParent
  <2>2. rank \in [D -> 0 .. Cardinality(D)] /\ Ranks(rank) BY <2>1
  <2> HIDE DEF rank, Ranks
  <2>3. QED BY <2>2
<1>2. ASSUME NEW rank \in [D -> 0 .. Cardinality(D)], Ranks(rank), HasCycle(parent)
      PROVE  FALSE
  <2>0. \A m : m \notin D => Lineage(parent, m) = {} BY NoLineageOutside
  <2>1. PICK n \in D : n \in Lineage(parent, parent[n]) BY <1>2 DEF HasCycle
  <2> DEFINE below == {m \in D : rank[m] < rank[n]}
  <2>2. parent[n] \in D BY <2>0, <2>1
  <2>3. \A m \in D : rank[m] \in Nat BY <1>0, <1>2
  <2>4. parent[n] \in below BY <1>2, <2>2
  <2>5. \A m \in below : parent[m] \in D => parent[m] \in below BY <1>2, <2>3
  <2>6. Lineage(parent, parent[n]) \subseteq below BY <2>2, <2>4, <2>5, LineageIsLeast
  <2>7. n \in below BY <2>1, <2>6
  <2>8. QED BY <2>3, <2>7
<1>3. QED BY <1>1, <1>2

\* Counting the copies of each of its values, a sequence without repeated ids has
\* as many rows as ids.
LEMMA NoDuplicates ==
  ASSUME NEW S, NEW rows \in Seq(S), Duplicates(rows) = {}
  PROVE  /\ IsFiniteSet(Ids(rows))
         /\ Len(rows) = Cardinality(Ids(rows))
<1> DEFINE D == DOMAIN rows
          f == [i \in D |-> rows[i].id]
<1>1. IsFiniteSet(D) /\ Cardinality(D) = Len(rows)
  <2>1. Len(rows) \in Nat /\ D = 1 .. Len(rows)
    OBVIOUS
  <2>2. QED BY <2>1, FS_Interval, SMTT(60)
<1>2. ASSUME NEW i \in D, NEW j \in D, rows[i].id = rows[j].id
      PROVE  i = j
  <2> DEFINE same == {k \in D : rows[k].id = rows[i].id}
  <2>1. IsFiniteSet(same) /\ Cardinality(same) \in Nat
    BY <1>1, FS_Subset, FS_CardinalityType
  <2>2. Cardinality(same) <= 1
    <3>1. rows[i].id \in Ids(rows)
      BY DEF Ids
    <3>2. ~ Cardinality(same) > 1
      BY <3>1 DEF Duplicates
    <3>3. QED BY <3>2, <2>1
  <2>3. Cardinality(same) # 0
    BY <2>1, FS_EmptySet
  <2>4. Cardinality(same) = 1
    BY <2>1, <2>2, <2>3
  <2>5. PICK x : same = {x}
    BY <2>1, <2>4, FS_Singleton
  <2>6. i \in same /\ j \in same
    BY <1>2
  <2>7. QED BY <2>5, <2>6
<1>3. f \in Bijection(D, Ids(rows))
  BY <1>2 DEF Bijection, Injection, Surjection, IsInjective, Ids
<1>4. QED BY <1>1, <1>3, FS_Bijection DEF ExistsBijection
\* What the walks find: an anchored node is in every set that the root, the target
\* and its own nodes reach, and the anchored nodes are such a set.  (visit.)
LEMMA AnchoredIsLeast ==
  ASSUME NEW parent, IsFiniteSet(DOMAIN parent), NEW T
  PROVE  /\ \A S \in SUBSET DOMAIN parent :
               (\A n \in DOMAIN parent : parent[n] \in S \cup T \cup {NoParent} => n \in S)
                  => \A n \in DOMAIN parent : Verdicts(parent, T)[n] = "anchored" => n \in S
         /\ \A n \in DOMAIN parent :
               (\/ parent[n] \in T \cup {NoParent}
                \/ parent[n] \in DOMAIN parent /\ Verdicts(parent, T)[parent[n]] = "anchored")
                  => Verdicts(parent, T)[n] = "anchored"
<1> DEFINE N == Cardinality(DOMAIN parent)
          one(prev, n) ==
                    CASE parent[n] \in T \cup {NoParent} -> "anchored"
                      [] parent[n] \notin DOMAIN parent \cup T \cup {NoParent}
                           -> "missing_parent"
                      [] OTHER ->
                           IF prev[parent[n]] = "missing_parent"
                           THEN "unanchored_subtree"
                           ELSE prev[parent[n]]
          walk(prev) == [n \in DOMAIN parent |-> one(prev, n)]
          start == [n \in DOMAIN parent |-> "cycle"]
          IsSeen(f, m) == f = [k \in 0 .. m |-> IF k = 0 THEN start ELSE walk(f[k - 1])]
          seen[k \in 0 .. N] == IF k = 0 THEN start ELSE walk(seen[k - 1])
<1>1. N \in Nat
  BY FS_CardinalityType
<1>2. Verdicts(parent, T) = seen[N]
  BY DEF Verdicts
<1>3. \A prev : \A n \in DOMAIN parent : walk(prev)[n] = one(prev, n)
  OBVIOUS
<1>4. \A prev : \A n \in DOMAIN parent :
        one(prev, n) = "anchored" <=>
          \/ parent[n] \in T \cup {NoParent}
          \/ parent[n] \in DOMAIN parent /\ prev[parent[n]] = "anchored"
  OBVIOUS
<1>5. \A n \in DOMAIN parent : start[n] # "anchored"
  OBVIOUS
<1>6. \E f : IsSeen(f, N)
  <2> HIDE DEF walk, start
  <2> DEFINE P == {m \in Nat : \E f : IsSeen(f, m)}
  <2>1. 0 \in P
    <3> DEFINE f == [k \in 0 .. 0 |-> start]
    <3>1. IsSeen(f, 0)
      OBVIOUS
    <3>2. QED BY <3>1
  <2>2. ASSUME NEW m \in P PROVE m + 1 \in P
    <3>1. PICK f : IsSeen(f, m)
      OBVIOUS
    <3> DEFINE g == [k \in 0 .. m + 1 |-> IF k = m + 1 THEN walk(f[m]) ELSE f[k]]
    <3>2. m \in Nat
      OBVIOUS
    <3>3. ASSUME NEW k \in 0 .. m + 1
          PROVE  g[k] = IF k = 0 THEN start ELSE walk(g[k - 1])
      <4>1. CASE k = m + 1
        BY <3>2, <4>1
      <4>2. CASE k \in 0 .. m
        BY <3>1, <3>2, <4>2
      <4>3. QED BY <3>2, <4>1, <4>2
    <3>4. IsSeen(g, m + 1)
      BY <3>2, <3>3
    <3>5. \E h : IsSeen(h, m + 1)
      <4> HIDE DEF g, IsSeen
      <4>1. QED BY <3>4
    <3>6. QED
      <4> HIDE DEF IsSeen
      <4>1. QED BY <3>2, <3>5
  <2>3. P = Nat
    <3> HIDE DEF IsSeen
    <3>1. P \in SUBSET Nat
      OBVIOUS
    <3> HIDE DEF P
    <3>2. QED BY <2>1, <2>2, <3>1, AllNumbers
  <2>4. QED BY <1>1, <2>3
<1>7. IsSeen(seen, N)
  <2> HIDE DEF walk, start
  <2>1. QED BY <1>6
<1> HIDE DEF seen, walk, start, one, N
<1> DEFINE F(X) == {n \in DOMAIN parent : parent[n] \in X \cup T \cup {NoParent}}
           A(k) == {n \in DOMAIN parent : seen[k][n] = "anchored"}
<1>8. A(0) = {}
  <2>1. seen[0] = start
    BY <1>1, <1>7
  <2>2. QED BY <2>1, <1>5
<1>9. ASSUME NEW k \in Nat, k + 1 <= N
      PROVE  A(k + 1) = F(A(k))
  <2>1. seen[k + 1] = walk(seen[k])
    BY <1>1, <1>7, <1>9
  <2>2. \A n \in DOMAIN parent : seen[k + 1][n] = one(seen[k], n)
    BY <2>1, <1>3
  <2>3. QED BY <2>2, <1>4
<1> HIDE DEF A
<1>10. \A k \in Nat : A(k) \subseteq DOMAIN parent
  BY DEF A
<1>11. \A X, Y : X \subseteq Y => F(X) \subseteq F(Y)
  OBVIOUS
<1>12. ASSUME NEW S \in SUBSET DOMAIN parent, F(S) \subseteq S
       PROVE  A(N) \subseteq S
  <2> DEFINE P == {k \in Nat : k <= N => A(k) \subseteq S}
  <2>1. 0 \in P
    BY <1>8
  <2>2. ASSUME NEW k \in P PROVE k + 1 \in P
    <3> HIDE DEF F
    <3>1. SUFFICES ASSUME k + 1 <= N PROVE A(k + 1) \subseteq S
      OBVIOUS
    <3>2. k \in Nat /\ A(k) \subseteq S
      BY <1>1, <3>1
    <3>3. QED BY <1>9, <1>11, <1>12, <3>1, <3>2
  <2>3. P = Nat
    <3>1. P \in SUBSET Nat
      OBVIOUS
    <3> HIDE DEF P
    <3>2. QED BY <2>1, <2>2, <3>1, AllNumbers
  <2>4. QED BY <1>1, <2>3
<1>13. F(A(N)) \subseteq A(N)
  <2> HIDE DEF F
  <2>0. \A k \in Nat : IsFiniteSet(A(k)) /\ Cardinality(A(k)) \in Nat
    BY <1>10, FS_Subset, FS_CardinalityType
  <2> DEFINE Right(k) == /\ A(k) \subseteq F(A(k))
                         /\ Cardinality(A(k)) >= k \/ F(A(k)) \subseteq A(k)
             P == {k \in Nat : k <= N => Right(k)}
  <2>1. 0 \in P
    BY <1>8, FS_EmptySet
  <2>2. ASSUME NEW k \in P PROVE k + 1 \in P
    <3>1. SUFFICES ASSUME k + 1 <= N PROVE Right(k + 1)
      OBVIOUS
    <3>2. k \in Nat /\ k + 1 \in Nat /\ Right(k)
      BY <1>1, <3>1
    <3>3. A(k + 1) = F(A(k))
      BY <1>9, <3>1, <3>2
    <3>4. A(k + 1) \subseteq F(A(k + 1))
      BY <1>11, <3>2, <3>3
    <3>5. CASE F(A(k)) \subseteq A(k)
      BY <1>11, <3>3, <3>4, <3>5
    <3>6. CASE ~ (F(A(k)) \subseteq A(k))
      <4>1. A(k) \subseteq A(k + 1) /\ A(k) # A(k + 1)
        BY <3>2, <3>3, <3>6
      <4>2. Cardinality(A(k)) < Cardinality(A(k + 1))
        BY <4>1, <2>0, <3>2, FS_Subset
      <4>3. Cardinality(A(k)) >= k
        BY <3>2, <3>6
      <4>4. Cardinality(A(k + 1)) >= k + 1
        BY <2>0, <3>2, <4>2, <4>3
      <4>5. QED BY <3>4, <4>4
    <3>7. QED BY <3>5, <3>6
  <2>3. P = Nat
    <3>1. P \in SUBSET Nat
      OBVIOUS
    <3> HIDE DEF P
    <3>2. QED BY <2>1, <2>2, <3>1, AllNumbers
  <2>4. Right(N)
    BY <1>1, <2>3
  <2>5. CASE F(A(N)) \subseteq A(N)
    BY <2>5
  <2>6. CASE Cardinality(A(N)) >= N
    <3>1. Cardinality(A(N)) <= Cardinality(DOMAIN parent)
          /\ (Cardinality(DOMAIN parent) = Cardinality(A(N)) => DOMAIN parent = A(N))
      BY <1>1, <1>10, FS_Subset
    <3>2. A(N) = DOMAIN parent
      BY <1>1, <2>0, <2>6, <3>1 DEF N
    <3>3. F(A(N)) \subseteq DOMAIN parent
      BY DEF F
    <3>4. QED BY <3>2, <3>3
  <2>7. QED BY <2>4, <2>5, <2>6
<1>14. A(N) = {n \in DOMAIN parent : Verdicts(parent, T)[n] = "anchored"}
  BY <1>2 DEF A
<1>15. QED
  <2>1. ASSUME NEW S \in SUBSET DOMAIN parent,
               \A n \in DOMAIN parent : parent[n] \in S \cup T \cup {NoParent} => n \in S
        PROVE  \A n \in DOMAIN parent : Verdicts(parent, T)[n] = "anchored" => n \in S
    <3>1. F(S) \subseteq S
      BY <2>1
    <3>2. A(N) \subseteq S
      BY <1>12, <3>1
    <3>3. QED BY <1>14, <3>2
  <2>2. ASSUME NEW n \in DOMAIN parent,
               \/ parent[n] \in T \cup {NoParent}
               \/ parent[n] \in DOMAIN parent /\ Verdicts(parent, T)[parent[n]] = "anchored"
        PROVE  Verdicts(parent, T)[n] = "anchored"
    <3>1. parent[n] \in A(N) \cup T \cup {NoParent}
      BY <1>14, <2>2
    <3>2. n \in F(A(N))
      BY <3>1
    <3>3. QED BY <1>13, <1>14, <3>2
  <2>3. QED BY <2>1, <2>2

\* The two passes of the code drop exactly what is not grounded, for every finite
\* list of nodes: what one reaches neither from a root nor from a parent the target
\* has, and whatever has such a node above it.  (anchor_source_nodes.)
LEMMA DroppedExactly ==
  ASSUME NEW parent, IsFiniteSet(DOMAIN parent), NoParent \notin DOMAIN parent, NEW T
  PROVE  DOMAIN Dropped(parent, T) = DOMAIN parent \ Grounded(parent, T)
<1> DEFINE A == {n \in DOMAIN parent : Verdicts(parent, T)[n] = "anchored"}
           closed(S) == \A n \in DOMAIN parent :
                        parent[n] \in S \cup T \cup {NoParent} => n \in S
           least == {n \in DOMAIN parent :
                    \A S \in SUBSET DOMAIN parent : closed(S) => n \in S}
           kept(S) == \A n \in S : parent[n] \in DOMAIN parent => parent[n] \in S
<1>1. Grounded(parent, T) = UNION {S \in SUBSET least : kept(S)}
  BY DEF Grounded
<1>2. DOMAIN Dropped(parent, T) =
        {n \in DOMAIN parent :
            {a \in Lineage(parent, n) : Verdicts(parent, T)[a] # "anchored"} # {}}
  BY DEF Dropped
<1>3. A \in SUBSET DOMAIN parent /\ closed(A)
  BY AnchoredIsLeast
<1>4. \A S \in SUBSET DOMAIN parent : closed(S) => A \subseteq S
  BY AnchoredIsLeast
<1>5. least = A
  <2> HIDE DEF closed, A
  <2>1. QED BY <1>3, <1>4
<1>6. \A n \in DOMAIN parent : Lineage(parent, n) \subseteq DOMAIN parent
  BY DEF Lineage
<1>7. ASSUME NEW n \in DOMAIN parent
      PROVE  n \in Grounded(parent, T) <=> Lineage(parent, n) \subseteq A
  <2>1. ASSUME Lineage(parent, n) \subseteq A PROVE n \in Grounded(parent, T)
    <3>1. kept(Lineage(parent, n)) /\ n \in Lineage(parent, n)
      BY LineageIsLeast
    <3> HIDE DEF kept, A, least
    <3>2. QED BY <1>1, <1>5, <2>1, <3>1
  <2>2. ASSUME n \in Grounded(parent, T) PROVE Lineage(parent, n) \subseteq A
    <3>1. PICK S \in SUBSET least : kept(S) /\ n \in S
      BY <1>1, <2>2
    <3>2. S \in SUBSET A
      BY <1>5
    <3>3. Lineage(parent, n) \subseteq S
      BY <3>1, <3>2, LineageIsLeast
    <3>4. QED BY <3>2, <3>3
  <2>3. QED BY <2>1, <2>2
<1>8. ASSUME NEW n \in DOMAIN parent
      PROVE  n \in DOMAIN Dropped(parent, T) <=> ~ (Lineage(parent, n) \subseteq A)
  BY <1>2, <1>6
<1>9. DOMAIN Dropped(parent, T) \subseteq DOMAIN parent
  BY <1>2
<1> HIDE DEF A
<1>10. QED BY <1>7, <1>8, <1>9

\* If nothing is dropped, every node is grounded.
LEMMA NothingDropped ==
  ASSUME NEW parent, IsFiniteSet(DOMAIN parent), NoParent \notin DOMAIN parent, NEW T,
         DOMAIN Dropped(parent, T) = {}
  PROVE  Grounded(parent, T) = DOMAIN parent
<1>1. Grounded(parent, T) \subseteq DOMAIN parent
  BY DEF Grounded
<1>2. QED BY <1>1, DroppedExactly

\* Reading a file keeps its ids.  (read_nodes.)
LEMMA DistinctRows ==
  ASSUME NEW S, NEW rows \in Seq(S)
  PROVE  Distinct(rows) \in Seq(S) /\ Ids(Distinct(rows)) = Ids(rows)
<1> DEFINE N == Len(rows)
          known(k) == \E i \in 1 .. k - 1 : rows[i] = rows[k]
          next(prev, k) == IF known(k) THEN prev ELSE Append(prev, rows[k])
          IsKept(f, m) == f = [k \in 0 .. m |-> IF k = 0 THEN << >> ELSE next(f[k - 1], k)]
          kept[k \in 0 .. N] == IF k = 0 THEN << >> ELSE next(kept[k - 1], k)
<1>1. N \in Nat /\ DOMAIN rows = 1 .. N
  OBVIOUS
<1>2. Distinct(rows) = kept[N]
  BY DEF Distinct
<1>3. ASSUME NEW prev \in Seq(S), NEW k \in 1 .. N
      PROVE  /\ next(prev, k) \in Seq(S)
             /\ Ids(prev) = {rows[i].id : i \in 1 .. k - 1}
                  => Ids(next(prev, k)) = {rows[i].id : i \in 1 .. k}
  <2>1. rows[k] \in S
    BY <1>1
  <2>2. CASE known(k)
    BY <1>1, <2>2
  <2>3. CASE ~ known(k)
    <3>1. next(prev, k) = Append(prev, rows[k])
      BY <2>3
    <3>2. Ids(Append(prev, rows[k])) = Ids(prev) \cup {rows[k].id}
      <4>1. DOMAIN Append(prev, rows[k]) = DOMAIN prev \cup {Len(prev) + 1}
        BY <2>1
      <4>2. QED BY <4>1, <2>1 DEF Ids
    <3>3. {rows[i].id : i \in 1 .. k} = {rows[i].id : i \in 1 .. k - 1} \cup {rows[k].id}
      BY <1>1
    <3>4. QED BY <2>1, <3>1, <3>2, <3>3
  <2>4. QED BY <2>2, <2>3
<1>4. \E f : IsKept(f, N)
  <2> HIDE DEF next
  <2> DEFINE P == {m \in Nat : \E f : IsKept(f, m)}
  <2>1. 0 \in P
    <3> DEFINE f == [k \in 0 .. 0 |-> << >>]
    <3>1. IsKept(f, 0)
      OBVIOUS
    <3>2. QED BY <3>1
  <2>2. ASSUME NEW m \in P PROVE m + 1 \in P
    <3>1. PICK f : IsKept(f, m)
      OBVIOUS
    <3> DEFINE g == [k \in 0 .. m + 1 |-> IF k = m + 1 THEN next(f[m], k) ELSE f[k]]
    <3>2. m \in Nat
      OBVIOUS
    <3>3. ASSUME NEW k \in 0 .. m + 1
          PROVE  g[k] = IF k = 0 THEN << >> ELSE next(g[k - 1], k)
      <4>1. CASE k = m + 1
        BY <3>2, <4>1
      <4>2. CASE k \in 0 .. m
        BY <3>1, <3>2, <4>2
      <4>3. QED BY <3>2, <4>1, <4>2
    <3>4. IsKept(g, m + 1)
      BY <3>2, <3>3
    <3>5. \E h : IsKept(h, m + 1)
      <4> HIDE DEF g, IsKept
      <4>1. QED BY <3>4
    <3>6. QED
      <4> HIDE DEF IsKept
      <4>1. QED BY <3>2, <3>5
  <2>3. P = Nat
    <3> HIDE DEF IsKept
    <3>1. P \in SUBSET Nat
      OBVIOUS
    <3> HIDE DEF P
    <3>2. QED BY <2>1, <2>2, <3>1, AllNumbers
  <2>4. QED BY <1>1, <2>3
<1>5. IsKept(kept, N)
  <2> HIDE DEF next
  <2>1. QED BY <1>4
<1> HIDE DEF kept, next
<1> DEFINE Right(k) == kept[k] \in Seq(S) /\ Ids(kept[k]) = {rows[i].id : i \in 1 .. k}
<1>6. Right(N)
  <2> DEFINE P == {k \in Nat : k <= N => Right(k)}
  <2>1. 0 \in P
    <3>1. kept[0] = << >>
      BY <1>1, <1>5
    <3>2. kept[0] \in Seq(S) /\ Ids(kept[0]) = {}
      BY <3>1 DEF Ids
    <3>3. {rows[i].id : i \in 1 .. 0} = {}
      OBVIOUS
    <3>4. QED BY <3>2, <3>3
  <2>2. ASSUME NEW k \in P PROVE k + 1 \in P
    <3>1. SUFFICES ASSUME k + 1 <= N PROVE Right(k + 1)
      OBVIOUS
    <3>2. k \in Nat /\ k <= N /\ k + 1 \in 1 .. N /\ (k + 1) - 1 = k
      BY <3>1, <1>1
    <3>3. kept[k + 1] = next(kept[k], k + 1)
      BY <1>1, <1>5, <3>1, <3>2
    <3>4. Right(k)
      BY <3>2
    <3> HIDE DEF P
    <3>5. QED BY <1>3, <3>2, <3>3, <3>4
  <2>3. P = Nat
    <3>1. P \in SUBSET Nat
      OBVIOUS
    <3> HIDE DEF P
    <3>2. QED BY <2>1, <2>2, <3>1, AllNumbers
  <2> HIDE DEF Right
  <2>4. QED BY <1>1, <2>3
<1>7. Ids(rows) = {rows[i].id : i \in 1 .. N}
  BY <1>1 DEF Ids
<1>8. QED BY <1>2, <1>6, <1>7

-----------------------------------------------------------------------------
(* What a run has found out at each step.                                   *)

Reading == {"metadata", "hierarchy", "source", "membership"}
Wired   == {"rows", "done"}

CacheTyped ==
    /\ cache \in [Datasets -> [rows: TargetContents, revision: 0 .. MaxRefreshes]]
    /\ \A d \in Datasets : cache[d].revision <= refreshes
    /\ meta \in 0 .. MaxRefreshes

DecisionInv ==
    /\ phase = "start" => decision = None
    /\ phase # "start" => decision = Decision(config)
    /\ phase \in Reading \cup {"conclude"} => decision.kind = "active"
    /\ phase \in {"source", "membership"} => decision.source
    /\ phase \in {"wiring", "rows", "done"} => decision.kind \in {"active", "inactive"}

\* Errors are kept until the end; without errors a hard target has its snapshot, and
\* a snapshot that is used has the whole hierarchy.
ProblemsInv ==
    /\ phase \in {"start", "metadata", "hierarchy"} => problems = {}
    /\ phase \in {"source", "membership", "conclude"} =>
          TargetProblems(hierarchy, decision.hard) \subseteq problems
    /\ phase \in {"start", "conclude"} \cup Reading => artifacts = None
    /\ phase \in {"wiring", "rows", "done"} =>
          /\ problems = {}
          /\ decision.kind = "active" /\ decision.hard => artifacts # None
    /\ artifacts # None => Nodes(artifacts.snapshot) = Ids(hierarchy)

\* What the validation found is of the nodes it read, and among the errors.
ValidatedInv ==
    /\ phase \in {"start"} \cup Reading => validated = None
    /\ validated # None =>
          /\ decision.kind = "active" /\ decision.source
          /\ phase \notin {"start"} \cup Reading
          /\ validated.dropped = Dropped(ParentById(nodes), validated.members)
          /\ phase # "failed" => SourceProblems(validated.dropped) \subseteq problems
    /\ nodes \in Seq(ToSet(nodes)) /\ NoParent \notin Ids(nodes)

\* A consumer is wired because its policy is on, to the snapshot of the decision.
ServicesInv ==
    /\ phase \notin Wired => services = [match |-> None, link |-> None] /\ passed = {}
    /\ phase \in Wired =>
          /\ MatchNeeds(config) \/ LinkNeeds(config) => Available
          /\ services.match # None =>
                MatchNeeds(config) /\ services.match.dataset = decision.dataset
          /\ services.link # None =>
                LinkNeeds(config) /\ services.link.dataset = decision.dataset

\* Of the file that was validated, what was read is passed or dropped, and nothing
\* that was dropped is passed.
FilterInv ==
    /\ reading \in Seq(ToSet(reading))
    /\ phase \in Wired /\ validated # None /\ config.validation # "warn" =>
          /\ \A p \in passed : MappedId(p.row) \notin DOMAIN validated.dropped
          /\ edits = 0 => \A row \in ToSet(file) :
                             \/ row \in ToSet(reading) \/ row \in {p.row : p \in passed}
                             \/ MappedId(row) \in DOMAIN validated.dropped
    /\ phase = "done" => reading = << >>

RunInv == TypeOK /\ CacheTyped /\ DecisionInv /\ ProblemsInv /\ ValidatedInv
            /\ ServicesInv /\ FilterInv

\* What the resolver of requirements decides.
LEMMA DecisionTyped ==
  ASSUME config \in Configs
  PROVE  /\ config \in Config
         /\ Decision(config).dataset \in Datasets
         /\ Decision(config).kind \in {"inactive", "raises", "refused", "active"}
         /\ Decision(config).hard = Hard(config)
         /\ Decision(config).source = ValidationWanted(config)
         /\ Decision(config) # None
<1>1. config \in Config
  BY TopologyAssumption
<1>2. Decision(config).dataset \in Datasets
  BY <1>1 DEF Decision, Config, Datasets
<1>3. Decision(config).kind \in {"inactive", "raises", "refused", "active"}
  BY DEF Decision
<1>4. Decision(config) # None
  BY DEF Decision, None
<1>5. QED BY <1>1, <1>2, <1>3, <1>4 DEF Decision

\* What a command that is let through may have been asked for.
LEMMA DecisionMeans ==
  ASSUME config \in Configs
  PROVE  /\ Decision(config).kind = "active" => ~ Raises(config) /\ ~ Refused(config)
         /\ Decision(config).kind = "inactive" =>
               /\ ~ Hard(config) /\ ~ MatchWanted(config)
               /\ ~ LinkWanted(config) /\ ~ ValidationWanted(config)
<1>1. config \in Config
  BY TopologyAssumption
<1>2. config.command \notin MatchActivating \cup ResolveActivating =>
        ~ MatchWanted(config) /\ ~ LinkWanted(config) /\ ~ ValidationWanted(config)
  BY DEF MatchWanted, LinkWanted, ValidationWanted
<1>3. ~ MatchWanted(config) /\ ~ LinkWanted(config) /\ ~ ValidationWanted(config) =>
        ~ Hard(config) /\ ~ Raises(config) /\ ~ Refused(config)
  BY DEF Hard, Raises, Split, Refused
<1> DEFINE kind ==
        CASE config.command \notin MatchActivating \cup ResolveActivating -> "inactive"
          [] Raises(config) -> "raises"
          [] ~ Raises(config) /\ Refused(config) -> "refused"
          [] ~ Raises(config) /\ ~ Refused(config)
                /\ (MatchWanted(config) \/ LinkWanted(config) \/ ValidationWanted(config))
               -> "active"
          [] OTHER -> "inactive"
<1>0. Decision(config).kind = kind
  BY DEF Decision
<1>4. CASE Raises(config) \/ Refused(config)
  <2>1. config.command \in MatchActivating \cup ResolveActivating
    BY <1>2, <1>3, <1>4
  <2>2. CASE Raises(config)
    <3>1. Decision(config).kind = "raises"
      BY <1>0, <2>1, <2>2
    <3>2. QED BY <3>1
  <2>3. CASE ~ Raises(config) /\ Refused(config)
    <3>1. Decision(config).kind = "refused"
      BY <1>0, <2>1, <2>3
    <3>2. QED BY <3>1
  <2>4. QED BY <1>4, <2>2, <2>3
<1>5. CASE ~ Raises(config) /\ ~ Refused(config)
  <2>1. MatchWanted(config) \/ LinkWanted(config) \/ ValidationWanted(config)
          => Decision(config).kind = "active"
    <3>1. MatchWanted(config) \/ LinkWanted(config) \/ ValidationWanted(config)
            => config.command \in MatchActivating \cup ResolveActivating
      BY <1>2
    <3>2. QED BY <1>5, <3>1 DEF Decision, Raises, Refused
  <2>2. QED BY <1>3, <1>5, <2>1
<1>6. QED BY <1>4, <1>5

\* The ids of finitely many rows, which is what their parent function is about.
LEMMA IdsFinite ==
  ASSUME NEW S, NEW rows \in Seq(S)
  PROVE  /\ IsFiniteSet(Ids(rows))
         /\ DOMAIN ParentById(rows) = Ids(rows)
<1>1. Len(rows) \in Nat /\ DOMAIN rows = 1 .. Len(rows)
  OBVIOUS
<1>2. IsFiniteSet(DOMAIN rows)
  BY <1>1, FS_Interval
<1> DEFINE f == [i \in DOMAIN rows |-> rows[i].id]
<1>3. f \in Surjection(DOMAIN rows, Ids(rows))
  BY DEF Surjection, Ids
<1>4. IsFiniteSet(Ids(rows))
  BY <1>2, <1>3, FS_Surjection DEF ExistsSurjection
<1>5. QED BY <1>4 DEF ParentById

\* The path of a node is the path of its parent, if it has one, and its label.
PathGrows(snapshot, n) ==
  LET parent == snapshot.parent
  IN CanonicalPath(snapshot, n) =
       IF parent[n] \in DOMAIN parent
       THEN Append(CanonicalPath(snapshot, parent[n]), snapshot.label[n])
       ELSE <<snapshot.label[n]>>

\* Where the walk up finds no cycle, paths grow by one label with each generation.
LEMMA PathsGrow ==
  ASSUME NEW snapshot, IsFiniteSet(DOMAIN snapshot.parent),
         NoParent \notin DOMAIN snapshot.parent, ~ HasCycle(snapshot.parent),
         NEW n \in DOMAIN snapshot.parent
  PROVE  PathGrows(snapshot, n)
<1> DEFINE parent == snapshot.parent
           depth == Depth(parent, n)
           up(k) == Ancestor(parent, n, k)
           path == CanonicalPath(snapshot, n)
<1>1. /\ depth \in Nat
      /\ parent[n] \in DOMAIN parent =>
            depth = Depth(parent, parent[n]) + 1 /\ Depth(parent, parent[n]) \in Nat
      /\ parent[n] \notin DOMAIN parent => depth = 0
  BY DepthOfParent
<1>2. path = [i \in 1 .. depth + 1 |-> snapshot.label[up(depth + 1 - i)]]
  BY DEF CanonicalPath
<1>3. up(0) = n BY AncestorSteps
<1>4. \A k \in Nat : up(k + 1) = Ancestor(parent, parent[n], k) BY AncestorOfParent
<1> HIDE DEF depth, up, path
<1>5. CASE parent[n] \in DOMAIN parent
  <2> DEFINE higher == CanonicalPath(snapshot, parent[n])
  <2>1. higher = [i \in 1 .. depth |-> snapshot.label[Ancestor(parent, parent[n], depth - i)]]
    <3> DEFINE d == Depth(parent, parent[n])
               upTo(m) == [i \in 1 .. m |-> snapshot.label[Ancestor(parent, parent[n], m - i)]]
    <3>1. higher = upTo(d + 1)
      <4>1. higher = [i \in 1 .. d + 1 |->
                         snapshot.label[Ancestor(parent, parent[n], d + 1 - i)]]
        BY DEF CanonicalPath
      <4>2. \A i \in 1 .. d + 1 : d + 1 - i = (d + 1) - i
        <5>1. d \in Nat BY <1>1, <1>5
        <5> HIDE DEF d
        <5>2. QED BY <5>1
      <4> HIDE DEF d, higher
      <4>3. QED BY <4>1, <4>2
    <3>2. d + 1 = depth BY <1>1, <1>5
    <3>3. higher = upTo(depth)
      <4> HIDE DEF d, higher, upTo
      <4>1. QED BY <3>1, <3>2
    <3>4. QED BY <3>3
  <2> HIDE DEF higher
  <2>2. higher = [i \in 1 .. depth |-> snapshot.label[up(depth + 1 - i)]]
    <3>1. ASSUME NEW i \in 1 .. depth
          PROVE  Ancestor(parent, parent[n], depth - i) = up(depth + 1 - i)
      <4>1. depth - i \in Nat /\ depth - i + 1 = depth + 1 - i BY <1>1, <3>1
      <4>2. QED BY <1>4, <4>1
    <3>2. QED BY <2>1, <3>1
  <2>3. Len(higher) = depth /\ DOMAIN higher = 1 .. depth BY <1>1, <2>2
  <2>4. Append(higher, snapshot.label[n]) =
          [i \in 1 .. depth + 1 |-> IF i = depth + 1 THEN snapshot.label[n] ELSE higher[i]]
    <3> DEFINE S == {higher[i] : i \in 1 .. depth}
    <3>1. \A i \in 1 .. depth : higher[i] \in S OBVIOUS
    <3>2. higher = [i \in 1 .. depth |-> higher[i]] BY <2>2
    <3> HIDE DEF S
    <3>3. higher \in [1 .. depth -> S] BY <3>1, <3>2, Zenon
    <3>4. higher \in Seq(S) BY <1>1, <3>3
    <3>5. QED BY <2>3, <3>4
  <2>5. ASSUME NEW i \in 1 .. depth + 1
        PROVE  path[i] = IF i = depth + 1 THEN snapshot.label[n] ELSE higher[i]
    <3>1. CASE i = depth + 1
      <4>1. depth + 1 - i = 0 BY <1>1, <3>1
      <4>2. path[i] = snapshot.label[up(depth + 1 - i)] BY <1>2
      <4>3. QED BY <1>3, <3>1, <4>1, <4>2
    <3>2. CASE i # depth + 1
      <4>1. i \in 1 .. depth BY <1>1, <3>2
      <4>2. QED BY <1>2, <2>2, <3>2, <4>1
    <3>3. QED BY <3>1, <3>2
  <2>6. path = [i \in 1 .. depth + 1 |->
                   IF i = depth + 1 THEN snapshot.label[n] ELSE higher[i]]
    <3>1. path = [i \in 1 .. depth + 1 |-> path[i]] BY <1>2
    <3>2. QED BY <2>5, <3>1, Zenon
  <2>7. QED BY <1>5, <2>4, <2>6 DEF PathGrows, path, higher
<1>6. CASE parent[n] \notin DOMAIN parent
  <2>1. depth = 0 BY <1>1, <1>6
  <2>2. path = [i \in 1 .. 1 |-> snapshot.label[up(1 - i)]] BY <1>2, <2>1
  <2>3. path = <<snapshot.label[n]>>
    <3>1. \A i \in 1 .. 1 : up(1 - i) = n BY <1>3
    <3>2. QED BY <2>2, <3>1
  <2>4. QED BY <1>6, <2>3 DEF PathGrows, path
<1>7. QED BY <1>5, <1>6

\* What the builder makes of the rows of a target, whatever they are: the snapshot has
\* all of them if no id is repeated and they form a forest, and is empty otherwise.
\* So it always is a forest, whose walks end at a root, and the path of a node is that
\* of its parent and its own label (TargetHierarchyTopologyBuilder.build,
\* TopologySnapshot.canonical_path).
THEOREM SnapshotsAreForests ==
  ASSUME NEW rows, rows \in Seq(ToSet(rows)), NoParent \notin Ids(rows)
  PROVE  LET snapshot == BuildSnapshot(rows)
             parent   == snapshot.parent
         IN  /\ Duplicates(rows) = {} /\ IsForest(ParentById(rows)) =>
                   Nodes(snapshot) = Ids(rows) /\ parent = ParentById(rows)
             /\ ~ (Duplicates(rows) = {} /\ IsForest(ParentById(rows))) =>
                   snapshot = EmptySnapshot
             /\ IsForest(parent)
             /\ \A n \in Nodes(snapshot) :
                   CanonicalPath(snapshot, n) =
                      IF parent[n] = NoParent THEN <<snapshot.label[n]>>
                      ELSE Append(CanonicalPath(snapshot, parent[n]), snapshot.label[n])
<1> DEFINE snapshot == BuildSnapshot(rows)
           parent == ParentById(rows)
           D == Ids(rows)
           sound == Duplicates(rows) = {} /\ IsForest(parent)
<1>1. IsFiniteSet(D) /\ DOMAIN parent = D
  BY IdsFinite
<1>2. BuildErrors(rows) = {} <=>
        Duplicates(rows) = {} /\ MissingParents(rows) = {} /\ ~ HasCycle(parent)
  BY DEF BuildErrors
<1>3. MissingParents(rows) = {} <=> \A n \in D : parent[n] \in D \cup {NoParent}
  BY DEF MissingParents
<1>4. ~ HasCycle(parent) <=>
        \E rank \in [D -> 0 .. Cardinality(D)] :
           \A n \in D : parent[n] \in D => rank[parent[n]] < rank[n]
  BY <1>1, CyclesAreFound
<1>5. BuildErrors(rows) = {} <=> sound
  <2> HIDE DEF parent, D
  <2>1. MissingParents(rows) = {} =>
          \A n \in D : parent[n] \in D <=> parent[n] # NoParent
    BY <1>3 DEF D
  <2>2. QED BY <1>1, <1>2, <1>3, <1>4, <2>1 DEF IsForest
<1>6. CASE sound
  <2>1. snapshot = [parent |-> parent, label |-> [id \in D |-> FirstOf(rows, id).label]]
    BY <1>5, <1>6 DEF BuildSnapshot
  <2>2. snapshot.parent = parent /\ Nodes(snapshot) = D
    BY <1>1, <2>1 DEF Nodes
  <2>3. ASSUME NEW n \in D
        PROVE  CanonicalPath(snapshot, n) =
                  IF parent[n] = NoParent THEN <<snapshot.label[n]>>
                  ELSE Append(CanonicalPath(snapshot, parent[n]), snapshot.label[n])
    <3>1. /\ ~ HasCycle(parent) /\ NoParent \notin D
          /\ parent[n] \in D <=> parent[n] # NoParent
      BY <1>2, <1>3, <1>5, <1>6, <2>3
    <3> HIDE DEF parent, D, snapshot
    <3>2. PathGrows(snapshot, n)
      BY <1>1, <2>2, <2>3, <3>1, PathsGrow
    <3>3. QED BY <1>1, <2>2, <3>1, <3>2 DEF PathGrows
  <2>4. QED BY <1>6, <2>2, <2>3
<1>7. CASE ~ sound
  <2>1. snapshot = EmptySnapshot
    BY <1>5, <1>7 DEF BuildSnapshot
  <2>2. Nodes(snapshot) = {} /\ snapshot.parent = << >>
    BY <2>1 DEF EmptySnapshot, Nodes
  <2>3. IsForest(<< >>)
    <3>1. Cardinality({}) = 0 /\ DOMAIN << >> = {} BY FS_EmptySet
    <3>2. << >> \in [DOMAIN << >> -> 0 .. Cardinality(DOMAIN << >>)] BY <3>1
    <3>3. QED BY <3>1, <3>2 DEF IsForest
  <2>4. QED BY <1>7, <2>1, <2>2, <2>3
<1>8. QED BY <1>6, <1>7

\* A run that starts knows nothing.
LEMMA InitHolds == Init => RunInv
<1> SUFFICES ASSUME Init PROVE RunInv
  OBVIOUS
<1> USE DEF Init
<1>1. TypeOK
  BY TopologyAssumption DEF TypeOK, None
<1>2. CacheTyped
  <2>1. MaxRefreshes \in Nat
    BY TopologyAssumption
  <2>2. ASSUME NEW d \in Datasets
        PROVE  cache[d] \in [rows: TargetContents, revision: 0 .. MaxRefreshes]
                  /\ cache[d].revision <= refreshes
    <3>1. cache[d] \in [rows: TargetContents, revision: {0}]
      OBVIOUS
    <3>2. QED BY <2>1, <3>1
  <2>3. QED BY <2>1, <2>2 DEF CacheTyped
<1>3. DecisionInv
  BY DEF DecisionInv, Reading
<1>4. ProblemsInv
  BY DEF ProblemsInv, Reading
<1>5. ValidatedInv
  <2>1. << >> \in Seq(ToSet(<< >>)) /\ Ids(<< >>) = {}
    BY DEF Ids
  <2>2. QED BY <2>1 DEF ValidatedInv, Reading
<1>6. ServicesInv
  BY DEF ServicesInv, Wired
<1>7. FilterInv
  BY DEF FilterInv, Wired
<1>8. QED BY <1>1, <1>2, <1>3, <1>4, <1>5, <1>6, <1>7 DEF RunInv

-----------------------------------------------------------------------------
(* Each step keeps what the run has found out.                              *)

\* TopologyBootstrapStep.run, the decision.
LEMMA DecideKeeps ==
  ASSUME RunInv, Decide
  PROVE  RunInv'
<1> USE DEF RunInv, Decide, world, pipeline
<1>1. config \in Configs /\ phase = "start"
  BY DEF TypeOK
<1>2. /\ decision' = Decision(config) /\ config' = config
      /\ decision'.kind \in {"raises", "refused"} => phase' = "failed"
      /\ decision'.kind = "inactive" => phase' = "wiring"
      /\ decision'.kind = "active" => phase' \in {"metadata", "failed"}
      /\ phase' \in {"failed", "wiring", "metadata"}
      /\ decision'.kind \in {"inactive", "raises", "refused", "active"}
  <2>1. decision' = Decision(config) /\ config' = config
    OBVIOUS
  <2>2. decision'.kind \in {"inactive", "raises", "refused", "active"}
    BY <1>1, <2>1, DecisionTyped
  <2>3. QED BY <2>1, <2>2
<1>3. TypeOK'
  BY <1>1, <1>2, DecisionTyped DEF TypeOK
<1>4. CacheTyped'
  BY DEF CacheTyped
<1>5. DecisionInv'
  BY <1>2 DEF DecisionInv, Reading
<1>6. ProblemsInv'
  BY <1>1, <1>2 DEF ProblemsInv, Reading
<1>7. ValidatedInv'
  BY <1>1, <1>2 DEF ValidatedInv, Reading
<1>8. ServicesInv'
  BY <1>1, <1>2 DEF ServicesInv, Wired
<1>9. FilterInv'
  BY <1>1, <1>2 DEF FilterInv, Wired, ValidatedInv, Reading
<1>10. QED BY <1>3, <1>4, <1>5, <1>6, <1>7, <1>8, <1>9

\* read_snapshot_metadata.
LEMMA ReadMetadataKeeps ==
  ASSUME RunInv, ReadMetadata
  PROVE  RunInv'
<1> USE DEF RunInv, ReadMetadata, world, pipeline
<1>1. decision.dataset \in Datasets
  BY DecisionTyped DEF TypeOK, DecisionInv
<1>2. TypeOK'
  BY DEF TypeOK
<1>3. CacheTyped'
  <2>1. cache[decision.dataset].revision \in 0 .. MaxRefreshes
    BY <1>1 DEF CacheTyped
  <2>2. QED BY <2>1 DEF CacheTyped
<1>4. DecisionInv'
  BY DEF DecisionInv, Reading
<1>5. ProblemsInv'
  BY DEF ProblemsInv, Reading
<1>6. ValidatedInv'
  BY DEF ValidatedInv, Reading
<1>7. ServicesInv'
  BY DEF ServicesInv, Wired
<1>8. FilterInv'
  BY DEF FilterInv, Wired
<1>9. QED BY <1>2, <1>3, <1>4, <1>5, <1>6, <1>7, <1>8

\* read_hierarchy and the readiness of the target.
LEMMA ReadHierarchyKeeps ==
  ASSUME RunInv, ReadHierarchy
  PROVE  RunInv'
<1> USE DEF RunInv, ReadHierarchy, world, pipeline
<1>1. decision.dataset \in Datasets
  BY DecisionTyped DEF TypeOK, DecisionInv
<1>2. TypeOK'
  <2>1. cache[decision.dataset].rows \in TargetContents
    BY <1>1 DEF CacheTyped
  <2>2. QED BY <2>1 DEF TypeOK
<1>3. CacheTyped'
  BY DEF CacheTyped
<1>4. DecisionInv'
  BY DEF DecisionInv, Reading
<1>5. ProblemsInv'
  BY DEF ProblemsInv, Reading
<1>6. ValidatedInv'
  BY DEF ValidatedInv, Reading
<1>7. ServicesInv'
  BY DEF ServicesInv, Wired
<1>8. FilterInv'
  BY DEF FilterInv, Wired
<1>9. QED BY <1>2, <1>3, <1>4, <1>5, <1>6, <1>7, <1>8

\* read_nodes.
LEMMA ReadSourceKeeps ==
  ASSUME RunInv, ReadSource
  PROVE  RunInv'
<1> USE DEF RunInv, ReadSource, world, pipeline
<1>1. nodes' \in Seq(ToSet(nodes')) /\ NoParent \notin Ids(nodes')
  <2>1. file \in Seq(ToSet(file))
    BY TopologyAssumption DEF TypeOK
  <2>2. nodes' \in Seq(ToSet(file)) /\ Ids(nodes') = Ids(file)
    BY <2>1, DistinctRows
  <2>3. NoParent \notin Ids(file)
    BY TopologyAssumption DEF TypeOK
  <2>4. QED BY <2>2, <2>3 DEF ToSet
<1>2. TypeOK'
  BY DEF TypeOK, ValidatedInv, Reading
<1>3. CacheTyped'
  BY DEF CacheTyped
<1>4. DecisionInv'
  BY DEF DecisionInv, Reading
<1>5. ProblemsInv'
  BY DEF ProblemsInv, Reading
<1>6. ValidatedInv'
  BY <1>1 DEF ValidatedInv, Reading
<1>7. ServicesInv'
  BY DEF ServicesInv, Wired
<1>8. FilterInv'
  BY DEF FilterInv, Wired, ValidatedInv, Reading
<1>9. QED BY <1>2, <1>3, <1>4, <1>5, <1>6, <1>7, <1>8

\* read_target_ids and the validation of the source.
LEMMA ReadMembershipKeeps ==
  ASSUME RunInv, ReadMembership
  PROVE  RunInv'
<1> USE DEF RunInv, world, pipeline
<1> DEFINE members == Ids(cache[decision.dataset].rows)
           dropped == Dropped(ParentById(nodes), members)
<1>1. /\ phase = "membership" /\ phase' = "conclude"
      /\ validated' = [none |-> FALSE, members |-> members, dropped |-> dropped]
      /\ problems' = problems \cup SourceProblems(dropped)
      /\ UNCHANGED <<decision, meta, hierarchy, nodes, artifacts>>
      /\ UNCHANGED world /\ UNCHANGED pipeline
  BY DEF ReadMembership
<1>2. DOMAIN dropped \subseteq Ids(nodes)
  <2>1. DOMAIN ParentById(nodes) = Ids(nodes)
    BY DEF ParentById
  <2>2. QED BY <2>1 DEF Dropped
<1>3. /\ validated'.dropped = dropped /\ validated'.members = members
      /\ nodes' = nodes /\ config' = config
  BY <1>1 DEF world
<1> HIDE DEF dropped, members
<1>4. TypeOK'
  <2>1. (validated # None => DOMAIN validated.dropped \subseteq Ids(nodes))'
    BY <1>2, <1>3
  <2>2. QED BY <1>1, <2>1 DEF TypeOK
<1>5. CacheTyped'
  BY <1>1 DEF CacheTyped
<1>6. DecisionInv'
  BY <1>1 DEF DecisionInv, Reading
<1>7. ProblemsInv'
  BY <1>1 DEF ProblemsInv, Reading, TargetProblems
<1>8. ValidatedInv'
  <2>1. SourceProblems(validated.dropped)' \subseteq problems'
    BY <1>1, <1>3 DEF SourceProblems
  <2>2. (validated.dropped = Dropped(ParentById(nodes), validated.members))'
    BY <1>3 DEF dropped
  <2>3. decision.kind = "active" /\ decision.source
    BY DecisionTyped, <1>1 DEF DecisionInv, Reading, TypeOK
  <2>4. QED BY <1>1, <1>3, <2>1, <2>2, <2>3 DEF ValidatedInv, Reading
<1>9. ServicesInv'
  BY <1>1 DEF ServicesInv, Wired
<1>10. FilterInv'
  BY <1>1 DEF FilterInv, Wired
<1>11. QED BY <1>4, <1>5, <1>6, <1>7, <1>8, <1>9, <1>10

\* A sequence is one of its own elements.
LEMMA OwnElements ==
  ASSUME NEW S, NEW s \in Seq(S)
  PROVE  s \in Seq(ToSet(s))
<1>1. Len(s) \in Nat /\ s \in [1 .. Len(s) -> S]
  OBVIOUS
<1>2. \A i \in 1 .. Len(s) : s[i] \in ToSet(s)
  BY <1>1 DEF ToSet
<1>3. s \in [1 .. Len(s) -> ToSet(s)]
  BY <1>1, <1>2
<1>4. QED BY <1>1, <1>3

\* The rows of a file are its first row and the rest.
LEMMA TailRows ==
  ASSUME NEW rows, rows \in Seq(ToSet(rows)), rows # << >>
  PROVE  /\ Tail(rows) \in Seq(ToSet(Tail(rows)))
         /\ ToSet(rows) = ToSet(Tail(rows)) \cup {Head(rows)}
<1>1. /\ Len(rows) \in Nat \ {0} /\ DOMAIN rows = 1 .. Len(rows)
      /\ Head(rows) = rows[1]
  OBVIOUS
<1>2. /\ Tail(rows) \in Seq(ToSet(rows)) /\ DOMAIN Tail(rows) = 1 .. Len(rows) - 1
      /\ \A i \in 1 .. Len(rows) - 1 : Tail(rows)[i] = rows[i + 1]
  OBVIOUS
<1>3. Tail(rows) \in Seq(ToSet(Tail(rows)))
  BY <1>2, OwnElements
<1>4. ASSUME NEW x PROVE x \in ToSet(rows) <=> x \in ToSet(Tail(rows)) \cup {Head(rows)}
  <2>1. ASSUME NEW i \in 1 .. Len(rows), x = rows[i]
        PROVE  x \in ToSet(Tail(rows)) \cup {Head(rows)}
    <3>1. CASE i = 1
      BY <1>1, <2>1, <3>1
    <3>2. CASE i # 1
      <4>1. i - 1 \in 1 .. Len(rows) - 1 /\ Tail(rows)[i - 1] = rows[i]
        BY <1>1, <1>2, <3>2
      <4>2. QED BY <1>2, <2>1, <4>1 DEF ToSet
    <3>3. QED BY <3>1, <3>2
  <2>2. ASSUME NEW i \in 1 .. Len(rows) - 1, x = Tail(rows)[i]
        PROVE  x \in ToSet(rows)
    BY <1>1, <1>2, <2>2 DEF ToSet
  <2>3. Head(rows) \in ToSet(rows)
    BY <1>1 DEF ToSet
  <2>4. QED BY <1>1, <1>2, <2>1, <2>2, <2>3 DEF ToSet
<1>5. QED BY <1>3, <1>4

\* Without errors a target that had to be there has been built.
LEMMA NoProblems ==
  ASSUME TargetProblems(hierarchy, decision.hard) \subseteq {}, decision.hard = TRUE
  PROVE  hierarchy # << >>
<1>1. SUFFICES ASSUME hierarchy = << >> PROVE FALSE
  OBVIOUS
<1>2. BuildErrors(hierarchy) = {}
  BY DEF TargetProblems
<1>3. <<"target_empty", NoParent>> \in TargetProblems(hierarchy, decision.hard)
  BY <1>1, <1>2 DEF TargetProblems
<1>4. QED BY <1>3

\* The artifacts are built, or the errors end the command.
LEMMA ConcludeKeeps ==
  ASSUME RunInv, Conclude
  PROVE  RunInv'
<1> USE DEF RunInv, Conclude, world, pipeline
<1>1. TypeOK'
  <2>1. meta \in 0 .. MaxRefreshes
    BY DEF CacheTyped
  <2>2. DOMAIN BuildSnapshot(hierarchy).label = DOMAIN BuildSnapshot(hierarchy).parent
    BY DEF BuildSnapshot, EmptySnapshot, ParentById
  <2>3. QED BY <2>1, <2>2 DEF TypeOK
<1>2. CacheTyped'
  BY DEF CacheTyped
<1>3. DecisionInv'
  BY DEF DecisionInv, Reading
<1>4. ProblemsInv'
  <2>1. ASSUME problems = {}, decision.hard
        PROVE  artifacts' # None
    <3>1. decision.hard = TRUE
      BY <2>1, DecisionTyped DEF TypeOK, DecisionInv, Reading, Hard
    <3>2. hierarchy # << >>
      BY <2>1, <3>1, NoProblems DEF ProblemsInv, Reading
    <3>3. QED BY <2>1, <3>2 DEF None
  <2>2. ASSUME artifacts' # None
        PROVE  Nodes(artifacts'.snapshot) = Ids(hierarchy)
    <3>1. problems = {} /\ artifacts'.snapshot = BuildSnapshot(hierarchy)
      BY <2>2
    <3>2. BuildErrors(hierarchy) = {}
      BY <3>1 DEF ProblemsInv, TargetProblems
    <3>3. QED BY <3>1, <3>2 DEF BuildSnapshot, Nodes, ParentById
  <2>3. QED BY <2>1, <2>2 DEF ProblemsInv, Reading
<1>5. ValidatedInv'
  <2>1. SourceProblems(validated.dropped)' = SourceProblems(validated.dropped)
    BY DEF SourceProblems
  <2>2. QED BY <2>1 DEF ValidatedInv, Reading
<1>6. ServicesInv'
  BY DEF ServicesInv, Wired
<1>7. FilterInv'
  BY DEF FilterInv, Wired
<1>8. QED BY <1>1, <1>2, <1>3, <1>4, <1>5, <1>6, <1>7

\* Wiring fails and reads nothing, or starts to read the file.
LEMMA WireGoesOn ==
  ASSUME Wire
  PROVE  (phase' = "failed" /\ reading' = reading) \/ (phase' = "rows" /\ reading' = file)
<1>1. CASE (MatchNeeds(config) \/ LinkNeeds(config)) /\ ~ Available
  <2>1. phase' = "failed" /\ UNCHANGED <<services, reading>>
    BY <1>1, Zenon DEF Wire
  <2>2. QED BY <2>1
<1>2. CASE ~ ((MatchNeeds(config) \/ LinkNeeds(config)) /\ ~ Available)
  BY <1>2, Zenon DEF Wire
<1>3. QED BY <1>1, <1>2

\* The builders of dependencies.
LEMMA WireKeeps ==
  ASSUME RunInv, Wire
  PROVE  RunInv'
<1> USE DEF RunInv, Wire, world
<1>1. TypeOK'
  BY DEF TypeOK
<1>2. CacheTyped'
  BY DEF CacheTyped
<1>3. DecisionInv'
  BY DEF DecisionInv, Reading
<1>4. ProblemsInv'
  BY DEF ProblemsInv, Reading
<1>5. ValidatedInv'
  <2>1. SourceProblems(validated.dropped)' = SourceProblems(validated.dropped)
    BY DEF SourceProblems
  <2>2. QED BY <2>1 DEF ValidatedInv, Reading
<1>6. ServicesInv'
  <2>1. Available' = Available /\ config' = config /\ decision' = decision
    BY DEF Available
  <2>2. CASE (MatchNeeds(config) \/ LinkNeeds(config)) /\ ~ Available
    BY <2>1, <2>2 DEF ServicesInv, Wired
  <2>3. CASE ~ ((MatchNeeds(config) \/ LinkNeeds(config)) /\ ~ Available)
    <3> DEFINE service == [none |-> FALSE, dataset |-> decision.dataset]
    <3>1. /\ services' = [match |-> IF MatchNeeds(config) /\ config.validation = "none"
                                    THEN service ELSE None,
                           link |-> IF LinkNeeds(config) THEN service ELSE None]
          /\ phase' = "rows"
      BY <2>3, Zenon DEF Wire
    <3>2. service.dataset = decision.dataset
      OBVIOUS
    <3> HIDE DEF service
    <3>3. /\ services'.match # None => MatchNeeds(config) /\ services'.match = service
          /\ services'.link # None => LinkNeeds(config) /\ services'.link = service
      BY <3>1 DEF MatchNeeds, LinkNeeds
    <3>4. QED BY <2>1, <2>3, <3>1, <3>2, <3>3 DEF ServicesInv, Wired
  <2>4. QED BY <2>2, <2>3
<1>7. FilterInv'
  <2>1. CASE phase' = "failed" /\ reading' = reading
    BY <2>1 DEF FilterInv, Wired
  <2>2. CASE phase' = "rows" /\ reading' = file
    <3>1. file \in Seq(ToSet(file))
      BY TopologyAssumption DEF TypeOK
    <3>2. passed' = {}
      BY DEF ServicesInv, Wired
    <3>3. QED BY <2>2, <3>1, <3>2 DEF FilterInv, Wired
  <2>3. (phase' = "failed" /\ reading' = reading) \/ (phase' = "rows" /\ reading' = file)
    BY WireGoesOn
  <2>4. QED BY <2>1, <2>2, <2>3
<1>8. QED BY <1>1, <1>2, <1>3, <1>4, <1>5, <1>6, <1>7

\* The rows that passed grow by the one that passes.
LEMMA PassedRows ==
  ASSUME NEW P, NEW Q, NEW new, Q = P \cup {new}
  PROVE  {p.row : p \in Q} = {p.row : p \in P} \cup {new.row}
  OBVIOUS

\* SourceTopologyFilterStage.run, one row.
LEMMA FilterRowKeeps ==
  ASSUME RunInv, FilterRow
  PROVE  RunInv'
<1> USE DEF RunInv, FilterRow, world
<1>1. TypeOK'
  BY DEF TypeOK
<1>2. CacheTyped'
  BY DEF CacheTyped
<1>3. DecisionInv'
  BY DEF DecisionInv, Reading
<1>4. ProblemsInv'
  BY DEF ProblemsInv, Reading
<1>5. ValidatedInv'
  <2>1. SourceProblems(validated.dropped)' = SourceProblems(validated.dropped)
    BY DEF SourceProblems
  <2>2. QED BY <2>1 DEF ValidatedInv, Reading
<1>6. ServicesInv'
  <2>1. Available' = Available
    BY DEF Available
  <2>2. QED BY <2>1 DEF ServicesInv, Wired
<1>7. FilterInv'
  <2> DEFINE row == Head(reading)
  <2>1. /\ reading \in Seq(ToSet(reading)) /\ reading # << >>
        /\ reading' = Tail(reading)
    BY DEF FilterInv
  <2>2. reading' \in Seq(ToSet(reading')) /\ ToSet(reading) = ToSet(reading') \cup {row}
    BY <2>1, TailRows
  <2>3. ASSUME validated # None, config.validation # "warn"
        PROVE  /\ HasVerdict(row) <=> MappedId(row) \in DOMAIN validated.dropped
               /\ HasVerdict(row) => passed' = passed
               /\ ~ HasVerdict(row) =>
                    passed' = passed \cup {[row |-> row, warned |-> FALSE]}
    <3>1. decision.kind = "active" /\ decision.source
          /\ decision = Decision(config) /\ config \in Configs
      BY <2>3 DEF ValidatedInv, DecisionInv, Reading, TypeOK
    <3>2. ValidationWanted(config)
      BY <3>1, DecisionTyped
    <3>3. decision.hard
      BY <3>1, <3>2, DecisionTyped DEF Hard
    <3>4. artifacts # None
      BY <3>1, <3>3 DEF ProblemsInv
    <3>5. HasVerdict(row) <=> MappedId(row) \in DOMAIN validated.dropped
      BY <2>3, <3>4 DEF HasVerdict
    <3>6. CASE HasVerdict(row)
      BY <2>3, <3>5, <3>6
    <3>7. CASE ~ HasVerdict(row)
      <4>1. HasVerdict(row) = FALSE
        BY <3>7 DEF HasVerdict
      <4>2. QED BY <3>5, <4>1
    <3>8. QED BY <3>5, <3>6, <3>7
  <2> HIDE DEF row
  <2>4. ASSUME validated # None, config.validation # "warn"
        PROVE  /\ \A p \in passed' : MappedId(p.row) \notin DOMAIN validated.dropped
               /\ edits = 0 => \A r \in ToSet(file) :
                      \/ r \in ToSet(reading') \/ r \in {p.row : p \in passed'}
                      \/ MappedId(r) \in DOMAIN validated.dropped
    <3>1. /\ \A p \in passed : MappedId(p.row) \notin DOMAIN validated.dropped
          /\ edits = 0 => \A r \in ToSet(file) :
                 \/ r \in ToSet(reading) \/ r \in {p.row : p \in passed}
                 \/ MappedId(r) \in DOMAIN validated.dropped
      BY <2>4 DEF FilterInv, Wired
    <3>2. CASE HasVerdict(row)
      <4>1. passed' = passed /\ MappedId(row) \in DOMAIN validated.dropped
        BY <2>3, <2>4, <3>2
      <4>2. QED BY <2>2, <3>1, <4>1
    <3>3. CASE ~ HasVerdict(row)
      <4>1. /\ passed' = passed \cup {[row |-> row, warned |-> FALSE]}
            /\ MappedId(row) \notin DOMAIN validated.dropped
        BY <2>3, <2>4, <3>3
      <4>2. {p.row : p \in passed'} = {p.row : p \in passed} \cup {row}
        <5> DEFINE new == [row |-> row, warned |-> FALSE]
        <5>1. new.row = row /\ passed' = passed \cup {new}
          BY <4>1
        <5> HIDE DEF new, row
        <5>2. QED BY <5>1, PassedRows
      <4>3. \A p \in passed' : MappedId(p.row) \notin DOMAIN validated.dropped
        BY <3>1, <4>1
      <4>4. QED BY <2>2, <3>1, <4>2, <4>3
    <3>4. QED BY <3>2, <3>3
  <2>5. /\ phase = "rows" /\ phase' = phase /\ validated' = validated
        /\ config' = config /\ edits' = edits /\ file' = file /\ nodes' = nodes
    OBVIOUS
  <2>6. FilterInv
    OBVIOUS
  <2> HIDE DEF FilterRow, RunInv, world
  <2>7. QED BY <2>2, <2>4, <2>5, <2>6 DEF FilterInv, Wired, MappedId
<1>8. QED BY <1>1, <1>2, <1>3, <1>4, <1>5, <1>6, <1>7

\* The source is exhausted.
LEMMA FinishKeeps ==
  ASSUME RunInv, Finish
  PROVE  RunInv'
<1> USE DEF RunInv, Finish, world, pipeline
<1>1. TypeOK'
  BY DEF TypeOK
<1>2. CacheTyped'
  BY DEF CacheTyped
<1>3. DecisionInv'
  BY DEF DecisionInv, Reading
<1>4. ProblemsInv'
  BY DEF ProblemsInv, Reading
<1>5. ValidatedInv'
  <2>1. SourceProblems(validated.dropped)' = SourceProblems(validated.dropped)
    BY DEF SourceProblems
  <2>2. QED BY <2>1 DEF ValidatedInv, Reading
<1>6. ServicesInv'
  <2>1. Available' = Available
    BY DEF Available
  <2>2. QED BY <2>1 DEF ServicesInv, Wired
<1>7. FilterInv'
  BY DEF FilterInv, Wired, Exhausted, MappedId
<1>8. QED BY <1>1, <1>2, <1>3, <1>4, <1>5, <1>6, <1>7

\* Other processes change the cache and the file only.
LEMMA OthersKeep ==
  ASSUME RunInv, (\E dataset \in Datasets : Refresh(dataset)) \/ Edit \/ UNCHANGED vars
  PROVE  RunInv'
<1> USE DEF RunInv
<1>1. /\ UNCHANGED run
      /\ refreshes' \in 0 .. MaxRefreshes /\ edits' \in 0 .. MaxEdits
      /\ file' \in SourceFiles
  BY TopologyAssumption DEF Refresh, Edit, vars, run, TypeOK
<1>2. TypeOK'
  BY <1>1 DEF TypeOK, run
<1>3. CacheTyped'
  <2>1. CASE UNCHANGED <<cache, refreshes>>
    BY <1>1, <2>1 DEF CacheTyped, run
  <2>2. ASSUME NEW dataset \in Datasets, Refresh(dataset)
        PROVE  CacheTyped'
    <3>1. refreshes \in 0 .. MaxRefreshes /\ MaxRefreshes \in Nat
          /\ refreshes < MaxRefreshes /\ refreshes' = refreshes + 1
      BY <2>2, TopologyAssumption DEF Refresh, TypeOK
    <3>2. PICK rows \in TargetContents :
            cache' = [cache EXCEPT ![dataset] = [rows |-> rows, revision |-> @.revision + 1]]
      BY <2>2 DEF Refresh
    <3>3. /\ cache[dataset].revision \in 0 .. MaxRefreshes
          /\ cache[dataset].revision <= refreshes
      BY DEF CacheTyped
    <3>4. cache[dataset].revision + 1 \in 0 .. MaxRefreshes
      BY <3>1, <3>3
    <3>5. ASSUME NEW d \in Datasets
          PROVE  /\ cache'[d] \in [rows: TargetContents, revision: 0 .. MaxRefreshes]
                 /\ cache'[d].revision <= refreshes'
      <4>1. CASE d = dataset
        BY <3>1, <3>2, <3>3, <3>4, <4>1 DEF CacheTyped
      <4>2. CASE d # dataset
        <5>1. cache'[d] = cache[d]
          BY <3>2, <4>2 DEF CacheTyped
        <5>2. QED BY <3>1, <5>1 DEF CacheTyped
      <4>3. QED BY <4>1, <4>2
    <3>6. QED BY <1>1, <3>2, <3>5 DEF CacheTyped, run
  <2>3. QED BY <2>1, <2>2 DEF Edit, vars
<1>4. DecisionInv'
  BY <1>1 DEF DecisionInv, run
<1>5. ProblemsInv'
  BY <1>1 DEF ProblemsInv, run, TargetProblems
<1>6. ValidatedInv'
  <2>1. SourceProblems(validated.dropped)' = SourceProblems(validated.dropped)
    BY <1>1 DEF SourceProblems, run
  <2>2. QED BY <1>1, <2>1 DEF ValidatedInv, run
<1>7. ServicesInv'
  <2>1. Available' = Available
    BY <1>1 DEF Available, run
  <2>2. QED BY <1>1, <2>1 DEF ServicesInv, run
<1>8. FilterInv'
  <2>1. CASE UNCHANGED <<file, edits>>
    BY <1>1, <2>1 DEF FilterInv, run, MappedId
  <2>2. CASE Edit
    <3>1. edits' # 0
      BY <2>2 DEF Edit, TypeOK
    <3>2. QED BY <1>1, <3>1 DEF FilterInv, run, MappedId
  <2>3. QED BY <2>1, <2>2 DEF Refresh, vars
<1>9. QED BY <1>2, <1>3, <1>4, <1>5, <1>6, <1>7, <1>8

\* What a run has found out holds at every step of every run.
THEOREM RunInvCorrect == Spec => []RunInv
<1>1. Init => RunInv
  BY InitHolds
<1>2. RunInv /\ [Next]_vars => RunInv'
  BY DecideKeeps, ReadMetadataKeeps, ReadHierarchyKeeps, ReadSourceKeeps,
     ReadMembershipKeeps, ConcludeKeeps, WireKeeps, FilterRowKeeps, FinishKeeps,
     OthersKeep DEF Next, Step
<1>3. QED BY <1>1, <1>2, PTL DEF Spec

\* The records of the bootstrap keep their types, for any contents and bounds.
\* (TopologyRunArtifacts, SourceTopologyValidationState.)
THEOREM TypeCorrect == Spec => []TypeOK
<1>1. RunInv => TypeOK
  BY DEF RunInv
<1>2. QED BY <1>1, RunInvCorrect, PTL

-----------------------------------------------------------------------------
(* What follows for the rows of a run.                                      *)

\* Consumers that a command activates work on the hierarchy of their candidates,
\* for any policies and contents.  (TopologyRequirementResolver.resolve.)
THEOREM ConsumersAgreeCorrect == Spec => []ConsumersAgree
<1>1. ASSUME RunInv PROVE ConsumersAgree
  <2> USE <1>1 DEF RunInv
  <2>1. config \in Configs /\ config \in Config
    BY TopologyAssumption DEF TypeOK
  <2>2. ASSUME phase \in Wired PROVE decision = Decision(config)
    BY <2>2 DEF DecisionInv, Wired
  <2>3. ASSUME services.link # None PROVE services.link.dataset = config.linkTo
    <3>1. phase \in Wired
      BY <2>3 DEF ServicesInv
    <3>2. LinkNeeds(config) /\ services.link.dataset = decision.dataset
      BY <2>3, <3>1 DEF ServicesInv
    <3>3. LinkWanted(config)
      BY <3>2 DEF LinkNeeds, LinkWanted, HasResolveStage
    <3>4. decision.dataset = config.linkTo
      BY <2>2, <3>1, <3>3 DEF Decision
    <3>5. QED BY <3>2, <3>4
  <2>4. ASSUME decision = Decision(config), decision.kind = "active",
               MatchWanted(config) \/ ValidationWanted(config)
        PROVE  decision.dataset = Own
    <3>1. ~ Raises(config) /\ ~ Refused(config)
      BY <2>1, <2>4, DecisionMeans
    <3>2. LinkWanted(config) => config.linkTo = Own
      BY <2>1, <2>4, <3>1 DEF Raises, Refused, Split, LinkEnabled, Config,
         MatchWanted, LinkWanted, ValidationWanted
    <3>3. QED BY <2>4, <3>2 DEF Decision
  <2>5. ASSUME services.match # None, MatchWanted(config)
        PROVE  services.match.dataset = Own
    <3>1. phase \in Wired
      BY <2>5 DEF ServicesInv
    <3>2. Available /\ services.match.dataset = decision.dataset
      BY <2>5, <3>1 DEF ServicesInv
    <3>3. decision.kind = "active"
      BY <3>2 DEF Available
    <3>4. QED BY <2>2, <2>4, <2>5, <3>1, <3>2, <3>3
  <2>6. ASSUME validated # None PROVE decision.dataset = Own
    <3>1. /\ decision.kind = "active" /\ decision.source
          /\ decision = Decision(config)
      BY <2>6 DEF ValidatedInv, DecisionInv, Reading
    <3>2. decision.source = ValidationWanted(config)
      BY <2>1, <3>1, DecisionTyped
    <3>3. QED BY <2>4, <3>1, <3>2
  <2>7. QED BY <2>3, <2>5, <2>6 DEF ConsumersAgree
<1>2. QED BY <1>1, RunInvCorrect, PTL

\* Rows flow only with the snapshot that was asked for, whatever is refreshed
\* meanwhile.  (TopologyBootstrapStep.run, the builders of dependencies.)
THEOREM RowsHaveTheirSnapshotCorrect == Spec => []RowsHaveTheirSnapshot
<1>1. ASSUME RunInv PROVE RowsHaveTheirSnapshot
  <2> USE <1>1 DEF RunInv
  <2>1. SUFFICES ASSUME phase \in Wired
                 PROVE  /\ decision.hard => artifacts # None
                        /\ (services.match # None \/ services.link # None) =>
                              /\ decision.kind = "active" /\ artifacts # None
                              /\ Nodes(artifacts.snapshot) = Ids(hierarchy)
    BY DEF RowsHaveTheirSnapshot, Flowing, Wired
  <2>2. config \in Configs /\ decision = Decision(config)
    BY <2>1 DEF TypeOK, DecisionInv, Wired
  <2>3. ASSUME services.match # None \/ services.link # None
        PROVE  /\ decision.kind = "active" /\ artifacts # None
               /\ Nodes(artifacts.snapshot) = Ids(hierarchy)
    <3>1. decision.kind = "active" /\ artifacts # None
      BY <2>1, <2>3 DEF ServicesInv, Available
    <3>2. Nodes(artifacts.snapshot) = Ids(hierarchy)
      BY <3>1 DEF ProblemsInv
    <3>3. QED BY <3>1, <3>2
  <2>4. ASSUME decision.hard PROVE artifacts # None
    <3>1. decision.kind \in {"active", "inactive"}
      BY <2>1 DEF DecisionInv, Wired
    <3>2. decision.hard = Hard(config)
      BY <2>2, DecisionTyped
    <3>3. decision.kind = "active"
      BY <2>2, <2>4, <3>1, <3>2, DecisionMeans
    <3>4. QED BY <2>1, <2>4, <3>3 DEF ProblemsInv, Wired
  <2>5. QED BY <2>3, <2>4
<1>2. QED BY <1>1, RunInvCorrect, PTL

\* Under hard_error rows flow only if every node is unique and grounded, for any
\* list of nodes and any target.  (SourceTopologyValidationUseCase.validate.)
THEOREM HardValidationIsAllOrNothingCorrect == Spec => []HardValidationIsAllOrNothing
<1>1. ASSUME RunInv PROVE HardValidationIsAllOrNothing
  <2> USE <1>1 DEF RunInv
  <2>1. SUFFICES ASSUME phase \in Wired, validated # None,
                        config.validation = "hard_error"
                 PROVE  /\ Ids(nodes) = Grounded(ParentById(nodes), validated.members)
                        /\ Len(nodes) = Cardinality(Ids(nodes))
    BY DEF HardValidationIsAllOrNothing, Flowing, Wired
  <2>2. /\ validated.dropped = Dropped(ParentById(nodes), validated.members)
        /\ SourceProblems(validated.dropped) = {}
        /\ nodes \in Seq(ToSet(nodes)) /\ NoParent \notin Ids(nodes)
    BY <2>1 DEF ValidatedInv, ProblemsInv, Wired
  <2>3. Duplicates(nodes) = {}
    BY <2>2 DEF SourceProblems
  <2>4. DOMAIN validated.dropped = {}
    BY <2>1, <2>2 DEF SourceProblems
  <2>5. IsFiniteSet(DOMAIN ParentById(nodes)) /\ DOMAIN ParentById(nodes) = Ids(nodes)
    BY <2>2, IdsFinite
  <2>6. Ids(nodes) = Grounded(ParentById(nodes), validated.members)
    BY <2>2, <2>4, <2>5, NothingDropped
  <2>7. Len(nodes) = Cardinality(Ids(nodes))
    BY <2>2, <2>3, NoDuplicates
  <2>8. QED BY <2>6, <2>7
<1>2. QED BY <1>1, RunInvCorrect, PTL

\* The rows that were validated pass exactly if they are grounded, for any list of
\* nodes and any target.  (anchor_source_nodes, SourceTopologyFilterStage.run.)
THEOREM FilterIsExactCorrect == Spec => []FilterIsExact
<1>1. ASSUME RunInv PROVE FilterIsExact
  <2> USE <1>1 DEF RunInv
  <2> DEFINE grounded == Grounded(ParentById(nodes), validated.members)
             Kept(row) == MappedId(row) \in Ids(nodes) => MappedId(row) \in grounded
  <2>1. SUFFICES ASSUME validated # None, config.validation # "warn"
                 PROVE  /\ \A p \in passed : Kept(p.row)
                        /\ (phase = "done" /\ edits = 0) =>
                              \A row \in ToSet(file) :
                                 Kept(row) => row \in {p.row : p \in passed}
    BY DEF FilterIsExact
  <2>2. /\ validated.dropped = Dropped(ParentById(nodes), validated.members)
        /\ nodes \in Seq(ToSet(nodes)) /\ NoParent \notin Ids(nodes)
    BY <2>1 DEF ValidatedInv
  <2>3. IsFiniteSet(DOMAIN ParentById(nodes)) /\ DOMAIN ParentById(nodes) = Ids(nodes)
    BY <2>2, IdsFinite
  <2>4. DOMAIN validated.dropped = Ids(nodes) \ grounded
    BY <2>2, <2>3, DroppedExactly
  <2>5. ASSUME NEW row
        PROVE  Kept(row) <=> MappedId(row) \notin DOMAIN validated.dropped
    <3>1. grounded \subseteq Ids(nodes)
      BY <2>3 DEF Grounded
    <3> HIDE DEF grounded
    <3>2. QED BY <2>4, <3>1
  <2> HIDE DEF Kept
  <2>6. ASSUME NEW p \in passed PROVE Kept(p.row)
    <3>1. phase \in Wired
      BY <2>6 DEF ServicesInv
    <3>2. MappedId(p.row) \notin DOMAIN validated.dropped
      BY <2>1, <2>6, <3>1 DEF FilterInv
    <3>3. QED BY <2>5, <3>2
  <2>7. ASSUME phase = "done", edits = 0, NEW row \in ToSet(file), Kept(row)
        PROVE  row \in {p.row : p \in passed}
    <3>1. /\ reading = << >>
          /\ \/ row \in ToSet(reading) \/ row \in {p.row : p \in passed}
             \/ MappedId(row) \in DOMAIN validated.dropped
      BY <2>1, <2>7 DEF FilterInv, Wired
    <3>2. ToSet(<< >>) = {}
      BY DEF ToSet
    <3>3. QED BY <2>5, <2>7, <3>1, <3>2
  <2>8. QED BY <2>6, <2>7
<1>2. QED BY <1>1, RunInvCorrect, PTL
=============================================================================
