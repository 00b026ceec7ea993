------------------------- MODULE PendingLinks_proofs -------------------------
(***************************************************************************)
(* Proofs about PendingLinks for any rows, references, processes and       *)
(* bounds: the types, that rows are planned complete and links closed for  *)
(* a reason, and that overlapping planners race within bounds.             *)
(***************************************************************************)
EXTENDS PendingLinks, TLAPS, SequenceTheorems, FiniteSetTheorems

-----------------------------------------------------------------------------
(* Types *)

TablesTyped ==
  /\ links \in [LinkIds -> Link \union {Absent}]
  /\ due \subseteq LinkIds
  /\ nextLink \in 1..(MaxLinks + 1)
  /\ indexed \subseteq Rows /\ target \subseteq Rows /\ cleared \subseteq Rows
  /\ plan \subseteq Item
  /\ started \in 0..MaxRuns
  /\ crashes \in Nat

ProcsTyped ==
  /\ pc \in [Procs -> PlannerLabels \union SyncerLabels]
  /\ run \in [Planners -> Run \union {NoRun}]
  /\ sync \in [Syncers -> [row : Rows \union {"none"}, todo : SUBSET LinkIds]]
  /\ \A p \in Planners : PlannerTyped(pc[p], run[p])
  /\ \A s \in Syncers : SyncerTyped(pc[s], sync[s])

\* The row a planner is busy with.
LEMMA CurrentTyped ==
  ASSUME TypeOK, NEW p \in Planners, pc[p] \in InRow
  PROVE  /\ run[p] \in Run
         /\ run[p].queue \in Seq(Item) /\ run[p].queue # <<>>
         /\ 1 \in 1..Len(run[p].queue)
         /\ Current(p) = run[p].queue[1] /\ Current(p) \in Item
         /\ Current(p).row \in Rows /\ Current(p).solved \subseteq Nat
         /\ NeedsOf[Current(p).row] \in Seq(Need)
         /\ Tail(run[p].queue) \in Seq(Item)
<1>1. run[p] \in Run /\ run[p].queue # <<>>
  BY DEF TypeOK, PlannerTyped, InRow
<1>2. run[p].queue \in Seq(Item)
  BY <1>1 DEF Run
<1>3. Head(run[p].queue) \in Item /\ Tail(run[p].queue) \in Seq(Item)
  BY <1>1, <1>2, HeadTailProperties
<1>4. Len(run[p].queue) \in Nat \ {0}
  BY <1>1, <1>2, EmptySeq
<1>5. Head(run[p].queue) = run[p].queue[1]
  BY <1>1, <1>2
<1>6. QED
  BY <1>1, <1>2, <1>3, <1>4, <1>5, LinkConstants DEF Current, Item

\* A step of one planner to a typed place leaves all processes typed.
LEMMA PlannerMoves ==
  ASSUME TypeOK, NEW p \in Planners, NEW c \in Run \union {NoRun},
         NEW label \in PlannerLabels, PlannerTyped(label, c),
         run' = [run EXCEPT ![p] = c], pc' = [pc EXCEPT ![p] = label], sync' = sync
  PROVE  ProcsTyped'
  BY LinkConstants DEF TypeOK, ProcsTyped, Procs

\* So does a step of one syncer.
LEMMA SyncerMoves ==
  ASSUME TypeOK, NEW s \in Syncers,
         NEW item \in [row : Rows \union {"none"}, todo : SUBSET LinkIds],
         NEW label \in SyncerLabels, SyncerTyped(label, item),
         sync' = [sync EXCEPT ![s] = item], pc' = [pc EXCEPT ![s] = label], run' = run
  PROVE  ProcsTyped'
  BY LinkConstants DEF TypeOK, ProcsTyped, Procs

\* A sorted sequence over a finite set is a sequence.
LEMMA OrderedTyped ==
  ASSUME NEW S, IsFiniteSet(S), S \subseteq Item, NEW q \in InLineOrder(S)
  PROVE  q \in Seq(Item)
<1>1. Cardinality(S) \in Nat
  BY FS_CardinalityType
<1>2. q \in [1..Cardinality(S) -> S]
  BY DEF InLineOrder
<1>3. q \in [1..Cardinality(S) -> Item]
  BY <1>2
<1>4. QED BY <1>1, <1>3, SeqDef

\* The rows of a source that a run starts with.
LEMMA FreshTyped ==
  ASSUME NEW fresh \in SUBSET Rows
  PROVE  LET items == {[row |-> r, solved |-> {}] : r \in fresh}
         IN  IsFiniteSet(items) /\ items \subseteq Item
<1> DEFINE items == {[row |-> r, solved |-> {}] : r \in fresh}
           f == [r \in fresh |-> [row |-> r, solved |-> {}]]
<1>1. IsFiniteSet(fresh)
  BY LinkConstants, FS_Subset
<1>2. f \in Surjection(fresh, items)
  BY DEF Surjection
<1>3. IsFiniteSet(items)
  BY <1>1, <1>2, FS_Surjection
<1>4. items \subseteq Item
  BY DEF Item
<1>5. QED BY <1>3, <1>4

\* The payloads it replays.
LEMMA ReplayTyped ==
  ASSUME TypeOK, NEW d, NEW mode,
         NEW replay \in IF mode = "plan" THEN Replays(d) ELSE {{}}
  PROVE  IsFiniteSet(replay) /\ replay \subseteq Item
<1>1. CASE mode # "plan"
  BY <1>1, FS_EmptySet
<1>2. CASE mode = "plan"
  <2>1. PICK C \in SUBSET Waiting(d) : replay = {Payload(l) : l \in C}
    BY <1>2 DEF Replays
  <2> DEFINE f == [l \in C |-> Payload(l)]
  <2>2. C \subseteq LinkIds /\ \A l \in C : links[l].status = "pending"
    BY DEF Waiting, Pending
  <2>3. IsFiniteSet(LinkIds)
    BY LinkConstants, FS_Interval DEF LinkIds
  <2>4. IsFiniteSet(C)
    BY <2>2, <2>3, FS_Subset
  <2>5. f \in Surjection(C, replay)
    BY <2>1 DEF Surjection
  <2>6. IsFiniteSet(replay)
    BY <2>4, <2>5, FS_Surjection
  <2>7. ASSUME NEW l \in C PROVE Payload(l) \in Item
    <3>1. links[l] \in Link
      BY <2>2 DEF TypeOK, Absent
    <3>2. QED BY <3>1 DEF Payload, Link, Item
  <2>8. QED BY <2>1, <2>6, <2>7
<1>3. QED BY <1>1, <1>2


\* Every record a planner's step writes into its variables is one of its types.
LEMMA RunFields ==
  ASSUME NEW c \in Run
  PROVE  /\ c.queue \in Seq(Item) /\ c.at \in Nat /\ c.link \in 0..MaxLinks
         /\ c.planned \subseteq Item /\ c.ids \subseteq LinkIds
  BY DEF Run

LEMMA RunUpdates ==
  ASSUME NEW c \in Run
  PROVE  /\ \A q \in Seq(Item) : [c EXCEPT !.queue = q, !.ran = TRUE] \in Run
         /\ \A l \in LinkIds : [c EXCEPT !.link = l] \in Run
         /\ \A i \in SUBSET LinkIds : [c EXCEPT !.ids = i] \in Run
<1>1. \A q \in Seq(Item) : [c EXCEPT !.queue = q, !.ran = TRUE] \in Run
  BY DEF Run
<1>2. ASSUME NEW l \in LinkIds PROVE [c EXCEPT !.link = l] \in Run
  <2>1. l \in 0..MaxLinks
    BY LinkConstants DEF LinkIds
  <2>2. QED BY <2>1 DEF Run
<1>3. \A i \in SUBSET LinkIds : [c EXCEPT !.ids = i] \in Run
  BY DEF Run
<1>4. QED BY <1>1, <1>2, <1>3

SolvedAs(c, q, n) == [c EXCEPT !.queue = q, !.at = n]
ParkedAs(c, n) == [c EXCEPT !.pended = TRUE, !.link = 0, !.returns = FALSE, !.at = n]

LEMMA RunSolves ==
  \A c \in Run, q \in Seq(Item), n \in Nat :
    LET d == SolvedAs(c, q, n)
    IN  d \in Run /\ d.queue = q /\ d.at = n /\ d.stop = c.stop /\ d.planned = c.planned
  BY ZenonT(60) DEF Run, SolvedAs

LEMMA RunParks ==
  \A c \in Run, n \in Nat :
    LET d == ParkedAs(c, n)
    IN  d \in Run /\ d.queue = c.queue /\ d.at = n /\ d.stop = c.stop /\ d.planned = c.planned
<1>1. 0 \in 0..MaxLinks
  BY LinkConstants
<1>2. QED BY <1>1, ZenonT(60) DEF Run, ParkedAs

\* What the steps of a row make of the variables of the run.
LEMMA RowFields ==
  ASSUME TypeOK, NEW p \in Planners, pc[p] \in InRow
  PROVE  /\ Solved(p) \in Run /\ Solved(p).queue # <<>> /\ Solved(p).at > 0
         /\ \A c \in Run : c.queue = run[p].queue =>
              /\ [c EXCEPT !.queue = Tail(@), !.ran = TRUE] \in Run
              /\ Onward(c) \in Run /\ Onward(c).queue # <<>> /\ Onward(c).at > 0
         /\ \A v \in BOOLEAN : [run[p] EXCEPT !.stop = v] \in Run
         /\ [run[p] EXCEPT !.stop = TRUE, !.errors = TRUE] \in Run
         /\ [run[p] EXCEPT !.returns = TRUE] \in Run
         /\ [run[p] EXCEPT !.planned = @ \union {Current(p)}] \in Run
<1> DEFINE c == run[p]
           i == [Current(p) EXCEPT !.solved = @ \union {c.at}]
<1>1. c \in Run /\ c.queue \in Seq(Item) /\ 1 \in 1..Len(c.queue)
      /\ Current(p) = c.queue[1] /\ Current(p) \in Item /\ c.queue # <<>>
      /\ Tail(c.queue) \in Seq(Item) /\ NeedsOf[Current(p).row] \in Seq(Need)
  BY CurrentTyped
<1>2. c.at \in Nat /\ c.at + 1 \in Nat /\ c.at + 1 > 0
  BY <1>1, RunFields
<1>3. i \in Item
  BY <1>1, <1>2 DEF Item
<1>4. [c.queue EXCEPT ![1] = i] \in Seq(Item) /\ Len([c.queue EXCEPT ![1] = i]) = Len(c.queue)
  BY <1>1, <1>3, ExceptSeq
<1>5. [c.queue EXCEPT ![1] = i] # <<>>
  BY <1>1, <1>4, EmptySeq
<1>6. Solved(p) = [c EXCEPT !.queue = [c.queue EXCEPT ![1] = i], !.at = c.at + 1]
  BY <1>1 DEF Solved, Run
<1>7. Solved(p) \in Run /\ Solved(p).queue # <<>> /\ Solved(p).at > 0
  <2> HIDE DEF i, c
  <2> DEFINE q == [c.queue EXCEPT ![1] = i]
             n == c.at + 1
  <2>1. q \in Seq(Item) /\ q # <<>> /\ n \in Nat /\ n > 0
    BY <1>2, <1>4, <1>5
  <2>2. Solved(p) = SolvedAs(c, q, n)
    BY <1>6 DEF SolvedAs
  <2> HIDE DEF q, n
  <2>3. c \in Run
    BY <1>1
  <2>4. SolvedAs(c, q, n) \in Run /\ SolvedAs(c, q, n).queue = q /\ SolvedAs(c, q, n).at = n
    BY <2>1, <2>3, RunSolves, ZenonT(60)
  <2>5. QED BY <2>1, <2>2, <2>4
<1>8. ASSUME NEW d \in Run, d.queue = c.queue
      PROVE  /\ [d EXCEPT !.queue = Tail(@), !.ran = TRUE] \in Run
             /\ Onward(d) \in Run /\ Onward(d).queue # <<>> /\ Onward(d).at > 0
  <2>1. d.at \in Nat /\ d.queue # <<>> /\ d.queue[1] = Current(p)
    BY <1>1, <1>8, RunFields
  <2>2. Len(NeedsOf[d.queue[1].row]) \in Nat
    BY <1>1, <2>1, SMTT(60)
  <2> DEFINE n == IF d.returns /\ d.stop THEN Len(NeedsOf[d.queue[1].row]) + 1
                  ELSE d.at + 1
  <2>3. n \in Nat /\ n > 0
    BY <2>1, <2>2
  <2>4. Onward(d) = ParkedAs(d, n)
    BY DEF Onward, ParkedAs, Run
  <2>5. Onward(d) \in Run /\ Onward(d).queue = d.queue /\ Onward(d).at > 0
    <3> HIDE DEF n
    <3>1. QED BY <2>3, <2>4, RunParks
  <2>6. [d EXCEPT !.queue = Tail(@), !.ran = TRUE] \in Run
    BY <1>1, <1>8 DEF Run
  <2>7. QED BY <2>1, <2>5, <2>6
<1>9. /\ \A v \in BOOLEAN : [c EXCEPT !.stop = v] \in Run
      /\ [c EXCEPT !.stop = TRUE, !.errors = TRUE] \in Run
      /\ [c EXCEPT !.returns = TRUE] \in Run
      /\ [c EXCEPT !.planned = @ \union {Current(p)}] \in Run
  BY <1>1 DEF Run
<1>10. QED BY <1>7, <1>8, <1>9

LEMMA TypeStep ==
  ASSUME TypeOK, LinksInv, Next
  PROVE  TypeOK'
<1> SUFFICES TablesTyped' /\ ProcsTyped'
  BY DEF TypeOK, TablesTyped, ProcsTyped
<1> USE DEF store
<1>1. ASSUME NEW p \in Planners, StartRun(p) PROVE TablesTyped' /\ ProcsTyped'
  <2> DEFINE Begun(d, mode, batch, fresh, replay, first, then) ==
               [mode |-> mode, ds |-> d, queue |-> first \o then,
                batch |-> batch, at |-> 1, link |-> 0, returns |-> FALSE,
                pended |-> FALSE, stop |-> FALSE, errors |-> FALSE, planned |-> {},
                ran |-> FALSE, swept |-> fresh = {} /\ replay = {}, ids |-> {}]
             Asks(d, mode, batch, fresh, replay) ==
               \E first \in InLineOrder({[row |-> r, solved |-> {}] : r \in fresh}) :
               \E then \in InLineOrder(replay) :
                 run' = [run EXCEPT ![p] = Begun(d, mode, batch, fresh, replay, first, then)]
  <2>a. PICK d \in Datasets, mode \in {"plan", "resolve"} :
          \E batch \in SUBSET {r \in Rows : HomeOf[r] = d} :
          \E fresh \in SUBSET batch :
          \E replay \in IF mode = "plan" THEN Replays(d) ELSE {{}} :
            Asks(d, mode, batch, fresh, replay)
    BY <1>1, Zenon DEF StartRun
  <2>b. PICK batch \in SUBSET {r \in Rows : HomeOf[r] = d} :
          \E fresh \in SUBSET batch :
          \E replay \in IF mode = "plan" THEN Replays(d) ELSE {{}} :
            Asks(d, mode, batch, fresh, replay)
    BY <2>a, Zenon
  <2>c. PICK fresh \in SUBSET batch :
          \E replay \in IF mode = "plan" THEN Replays(d) ELSE {{}} :
            Asks(d, mode, batch, fresh, replay)
    BY <2>b, Zenon
  <2>d. PICK replay \in IF mode = "plan" THEN Replays(d) ELSE {{}} :
          Asks(d, mode, batch, fresh, replay)
    BY <2>c, Zenon
  <2>e. PICK first \in InLineOrder({[row |-> r, solved |-> {}] : r \in fresh}) :
          \E then \in InLineOrder(replay) :
            run' = [run EXCEPT ![p] = Begun(d, mode, batch, fresh, replay, first, then)]
    BY <2>d, Zenon
  <2>1. PICK then \in InLineOrder(replay) :
          run' = [run EXCEPT ![p] = Begun(d, mode, batch, fresh, replay, first, then)]
    BY <2>e, Zenon
  <2> HIDE DEF Asks
  <2>2. first \in Seq(Item)
    BY FreshTyped, OrderedTyped
  <2>3. then \in Seq(Item)
    BY ReplayTyped, OrderedTyped
  <2>4. first \o then \in Seq(Item)
    BY <2>2, <2>3
  <2> DEFINE c == Begun(d, mode, batch, fresh, replay, first, then)
  <2>5. c \in Run
    BY <2>4, LinkConstants DEF Run, LinkIds
  <2>6. PlannerTyped("next", c)
    BY <2>5 DEF PlannerTyped, PlannerLabels, InRow
  <2>7. ProcsTyped'
    BY <1>1, <2>1, <2>5, <2>6, PlannerMoves, ZenonT(60) DEF StartRun, Goto, PlannerLabels
  <2>8. TablesTyped'
    BY <1>1, LinkConstants DEF StartRun, TypeOK, TablesTyped
  <2>9. QED BY <2>7, <2>8
<1>2. ASSUME NEW p \in Planners, NextRow(p) PROVE TablesTyped' /\ ProcsTyped'
  <2> DEFINE c == [run[p] EXCEPT !.at = 1, !.pended = FALSE, !.stop = FALSE, !.errors = FALSE]
  <2>1. run[p] \in Run /\ run[p].queue # <<>>
    BY <1>2 DEF NextRow, TypeOK, PlannerTyped
  <2>a. c \in Run
    BY <2>1 DEF Run
  <2>b. c.queue = run[p].queue /\ c.at = 1
    BY <2>1 DEF Run
  <2>2. c \in Run /\ c.queue # <<>> /\ c.at > 0
    BY <2>1, <2>a, <2>b
  <2>3. PlannerTyped("row", c)
    BY <2>2 DEF PlannerTyped, PlannerLabels, InRow
  <2>4. ProcsTyped'
    BY <1>2, <2>2, <2>3, PlannerMoves DEF NextRow, Set, Goto, PlannerLabels
  <2>5. QED BY <1>2, <2>4 DEF NextRow, TypeOK, TablesTyped
<1>3. ASSUME NEW p \in Planners, SweepRead(p) PROVE TablesTyped' /\ ProcsTyped'
  <2> DEFINE c == [run[p] EXCEPT !.ran = FALSE, !.swept = TRUE, !.ids = Pending \cap due]
             label == IF Pending \cap due = {} THEN "next" ELSE "sweep"
  <2>1. run[p] \in Run
    BY <1>3 DEF SweepRead, TypeOK, PlannerTyped
  <2>2. c \in Run
    BY <2>1 DEF Run, Pending
  <2>3. PlannerTyped(label, c) /\ label \in PlannerLabels
    BY <2>2 DEF PlannerTyped, PlannerLabels, InRow
  <2>4. ProcsTyped'
    BY <1>3, <2>2, <2>3, PlannerMoves DEF SweepRead, Set, Goto
  <2>5. QED BY <1>3, <2>4 DEF SweepRead, TypeOK, TablesTyped
<1>4. ASSUME NEW p \in Planners, SweepWrite(p) PROVE TablesTyped' /\ ProcsTyped'
  <2> DEFINE c == [run[p] EXCEPT !.ids = {}]
  <2>1. run[p] \in Run
    BY <1>4 DEF SweepWrite, TypeOK, PlannerTyped
  <2>2. c \in Run
    BY <2>1, RunUpdates
  <2>3. PlannerTyped("next", c)
    BY <2>2 DEF PlannerTyped, PlannerLabels, InRow
  <2>4. ProcsTyped'
    BY <1>4, <2>2, <2>3, PlannerMoves DEF SweepWrite, Set, Goto, PlannerLabels
  <2>5. \A l \in run[p].ids : links[l] \in Link
    BY <1>4, <2>1, RunFields DEF LinksInv, TypeOK, SweepWrite
  <2>6. links' \in [LinkIds -> Link \union {Absent}]
    BY <1>4, <2>5, SMTT(60) DEF SweepWrite, TypeOK, Link, Terminal
  <2>7. QED BY <1>4, <2>4, <2>6 DEF SweepWrite, TypeOK, TablesTyped
<1>5. ASSUME NEW p \in Planners, EndRun(p) PROVE TablesTyped' /\ ProcsTyped'
  <2>1. run[p] \in Run
    BY <1>5 DEF EndRun, TypeOK, PlannerTyped
  <2>2. ProcsTyped'
    BY <1>5, PlannerMoves DEF EndRun, Goto, PlannerLabels, PlannerTyped, InRow
  <2>3. links' \in [LinkIds -> Link \union {Absent}]
    BY <1>5 DEF EndRun, TypeOK
  <2>4. plan' \subseteq Item
    BY <1>5, <2>1, RunFields DEF EndRun, TypeOK
  <2>5. QED BY <1>5, <2>2, <2>3, <2>4 DEF EndRun, TypeOK, TablesTyped<1>6. ASSUME NEW p \in Planners, SkipSolved(p) PROVE TablesTyped' /\ ProcsTyped'
  <2> DEFINE c == [run[p] EXCEPT !.at = @ + 1]
  <2>1. pc[p] = "row" /\ run[p] \in Run /\ run[p].queue # <<>> /\ run[p].at > 0
    BY <1>6 DEF SkipSolved, AtLink, TypeOK, PlannerTyped, InRow
  <2>2. c \in Run /\ c.queue # <<>> /\ c.at > 0
    BY <2>1, SMTT(60) DEF Run
  <2>3. PlannerTyped("row", c)
    BY <2>2 DEF PlannerTyped, PlannerLabels, InRow
  <2>4. ProcsTyped'
    BY <1>6, <2>1, <2>2, <2>3, PlannerMoves, ZenonT(60) DEF SkipSolved, Set, Goto, PlannerLabels, TypeOK
  <2>5. QED BY <1>6, <2>4 DEF SkipSolved, TypeOK, TablesTyped
<1>7. ASSUME NEW p \in Planners, Resolve(p) \/ ConfirmByTopology(p)
      PROVE  TablesTyped' /\ ProcsTyped'
  <2>1. pc[p] = "row" /\ run' = [run EXCEPT ![p] = Solved(p)] /\ pc' = pc
    BY <1>7, SMTT(60) DEF Resolve, ConfirmByTopology, AtLink, Set
  <2>2. PlannerTyped("row", Solved(p)) /\ Solved(p) \in Run
    BY <2>1, RowFields DEF PlannerTyped, PlannerLabels, InRow
  <2>3. ProcsTyped'
    BY <1>7, <2>1, <2>2, PlannerMoves, ZenonT(60)
    DEF Resolve, ConfirmByTopology, PlannerLabels, TypeOK
  <2>4. QED BY <1>7, <2>3 DEF Resolve, ConfirmByTopology, TypeOK, TablesTyped
<1>8. ASSUME NEW p \in Planners, Unresolved(p) \/ ApplyTopologyPolicy(p)
      PROVE  TablesTyped' /\ ProcsTyped'
  <2>1. pc[p] = "row" /\ run[p].at <= Len(NeedsOf[Current(p).row])
    BY <1>8 DEF Unresolved, ApplyTopologyPolicy, AtLink
  <2>2. run[p].at \in DOMAIN NeedsOf[run[p].queue[1].row]
    <3>1. /\ run[p] \in Run /\ Current(p) = run[p].queue[1]
          /\ NeedsOf[Current(p).row] \in Seq(Need)
      BY <2>1, CurrentTyped DEF InRow
    <3>2. run[p].at \in Nat /\ run[p].at > 0
      BY <2>1, <3>1, RunFields, SMTT(60) DEF TypeOK, PlannerTyped, InRow
    <3>3. QED BY <2>1, <3>1, <3>2
  <2> DEFINE stops == [run[p] EXCEPT !.queue = Tail(@), !.ran = TRUE]
             waits == [run[p] EXCEPT !.returns = TRUE]
  <2>3. /\ run[p] \in Run /\ run[p].queue # <<>> /\ run[p].at > 0 /\ stops \in Run /\ waits \in Run
        /\ waits.queue = run[p].queue /\ waits.at = run[p].at
    <3>1. run[p] \in Run /\ run[p].queue # <<>> /\ run[p].at > 0
      BY <2>1, CurrentTyped DEF InRow, TypeOK, PlannerTyped
    <3>2. waits.queue = run[p].queue /\ waits.at = run[p].at
      BY <3>1 DEF Run
    <3>3. QED BY <2>1, <3>1, <3>2, RowFields DEF InRow
  <2>4. PlannerTyped("next", stops) /\ PlannerTyped("add", waits) /\ PlannerTyped("add", run[p])
    BY <2>2, <2>3 DEF PlannerTyped, PlannerLabels, InRow
  <2>5. \/ run' = [run EXCEPT ![p] = stops] /\ Goto(p, "next")
        \/ run' = [run EXCEPT ![p] = waits] /\ Goto(p, "add")
        \/ run' = [run EXCEPT ![p] = run[p]] /\ Goto(p, "add")
    BY <1>8 DEF Unresolved, ApplyTopologyPolicy, DropRow, Set, TypeOK
  <2>6. sync' = sync
    BY <1>8 DEF Unresolved, ApplyTopologyPolicy
  <2>7. ProcsTyped'
    BY <2>3, <2>4, <2>5, <2>6, PlannerMoves DEF Goto, PlannerLabels
  <2>8. QED BY <1>8, <2>7 DEF Unresolved, ApplyTopologyPolicy, TypeOK, TablesTyped
<1>9. ASSUME NEW p \in Planners, AddRead(p) PROVE TablesTyped' /\ ProcsTyped'
  <2>1. run[p] \in Run /\ PlannerTyped("add", run[p])
    BY <1>9 DEF AddRead, TypeOK, PlannerTyped
  <2>2. ASSUME Goto(p, "insert"), run' = run
        PROVE  ProcsTyped'
    <3>1. PlannerTyped("insert", run[p]) /\ run' = [run EXCEPT ![p] = run[p]]
      BY <2>1, <2>2 DEF PlannerTyped, PlannerLabels, InRow, TypeOK
    <3>2. sync' = sync
      BY <1>9 DEF AddRead
    <3>3. QED BY <2>1, <2>2, <3>1, <3>2, PlannerMoves DEF Goto, PlannerLabels
  <2>3. ASSUME NEW l \in LinkIds, Set(p, [run[p] EXCEPT !.link = l]), Goto(p, "renew")
        PROVE  ProcsTyped'
    <3> DEFINE c == [run[p] EXCEPT !.link = l]
    <3>1. c \in Run
      BY <2>1, RunUpdates
    <3>2. c.queue = run[p].queue /\ c.at = run[p].at /\ c.link = l
      BY <2>1 DEF Run
    <3>3. PlannerTyped("renew", c)
      BY <2>1, <3>1, <3>2 DEF PlannerTyped, PlannerLabels, InRow
    <3>4. QED BY <1>9, <2>3, <3>1, <3>3, PlannerMoves DEF AddRead, Set, Goto, PlannerLabels
  <2>4. ProcsTyped'
    BY <1>9, <2>2, <2>3 DEF AddRead, Pending
  <2>5. QED BY <1>9, <2>4 DEF AddRead, TypeOK, TablesTyped
<1>10. ASSUME NEW p \in Planners, Renew(p) PROVE TablesTyped' /\ ProcsTyped'
  <2> DEFINE l == run[p].link
  <2>1. run[p] \in Run /\ PlannerTyped("renew", run[p]) /\ l \in LinkIds
    BY <1>10 DEF Renew, TypeOK, PlannerTyped
  <2>2. links[l] \in Link
    BY <1>10, <2>1 DEF Renew, TypeOK, LinksInv
  <2>3. Current(p).row \in Rows /\ Current(p).solved \in SUBSET Nat
    BY <1>10, CurrentTyped DEF Renew, InRow
  <2>4. links' \in [LinkIds -> Link \union {Absent}]
    BY <1>10, <2>1, <2>2, <2>3 DEF Renew, TypeOK, Link
  <2>5. PlannerTyped("touch", run[p]) /\ run' = [run EXCEPT ![p] = run[p]]
    BY <1>10, <2>1 DEF Renew, PlannerTyped, PlannerLabels, InRow, TypeOK
  <2>6. ProcsTyped'
    BY <1>10, <2>1, <2>5, PlannerMoves DEF Renew, Goto, PlannerLabels
  <2>7. QED BY <1>10, <2>4, <2>6 DEF Renew, TypeOK, TablesTyped
<1>11. ASSUME NEW p \in Planners, Insert(p) PROVE TablesTyped' /\ ProcsTyped'
  <2> DEFINE c == [run[p] EXCEPT !.link = nextLink]
  <2>1. run[p] \in Run /\ PlannerTyped("insert", run[p]) /\ nextLink \in LinkIds
    <3>1. run[p] \in Run /\ PlannerTyped("insert", run[p])
      BY <1>11 DEF Insert, TypeOK, PlannerTyped
    <3>2. nextLink \in 1..(MaxLinks + 1) /\ nextLink <= MaxLinks
      BY <1>11 DEF Insert, TypeOK
    <3>3. QED BY <3>1, <3>2, LinkConstants DEF LinkIds
  <2>2. Current(p) = run[p].queue[1] /\ Current(p).row \in Rows
        /\ Current(p).solved \in SUBSET Nat /\ NeedsOf[Current(p).row] \in Seq(Need)
    BY <1>11, CurrentTyped DEF Insert, InRow
  <2>3. Needed(p) \in Need
    BY <2>1, <2>2 DEF PlannerTyped, InRow, Needed
  <2>4. links' \in [LinkIds -> Link \union {Absent}]
    BY <1>11, <2>2, <2>3 DEF Insert, TypeOK, Link
  <2>5. c \in Run
    BY <2>1, RunUpdates
  <2>6. c.queue = run[p].queue /\ c.at = run[p].at /\ c.link = nextLink
    BY <2>1 DEF Run
  <2>7. PlannerTyped("touch", c)
    BY <2>1, <2>5, <2>6 DEF PlannerTyped, PlannerLabels, InRow
  <2>8. ProcsTyped'
    BY <1>11, <2>5, <2>7, PlannerMoves DEF Insert, Set, Goto, PlannerLabels
  <2>9. nextLink' \in 1..(MaxLinks + 1)
    BY <1>11, LinkConstants DEF Insert, TypeOK
  <2>10. QED BY <1>11, <2>4, <2>8, <2>9 DEF Insert, TypeOK, TablesTyped
<1>12. ASSUME NEW p \in Planners, Touch(p) PROVE TablesTyped' /\ ProcsTyped'
  <2> DEFINE l == run[p].link
  <2>1. run[p] \in Run /\ PlannerTyped("touch", run[p]) /\ l \in LinkIds
    BY <1>12 DEF Touch, TypeOK, PlannerTyped
  <2>2. links[l] \in Link
    BY <1>12, <2>1 DEF Touch, TypeOK, LinksInv
  <2>3. links' \in [LinkIds -> Link \union {Absent}]
    BY <1>12, <2>1, <2>2 DEF Touch, TypeOK, Link
  <2>4. PlannerTyped("judge", run[p]) /\ run' = [run EXCEPT ![p] = run[p]]
    BY <1>12, <2>1 DEF Touch, PlannerTyped, PlannerLabels, InRow, TypeOK
  <2>5. ProcsTyped'
    BY <1>12, <2>1, <2>4, PlannerMoves DEF Touch, Goto, PlannerLabels
  <2>6. QED BY <1>12, <2>3, <2>5 DEF Touch, TypeOK, TablesTyped
<1>13. ASSUME NEW p \in Planners, Judge(p) PROVE TablesTyped' /\ ProcsTyped'
  <2>1. pc[p] \in InRow /\ run[p] \in Run /\ PlannerTyped("judge", run[p])
    BY <1>13 DEF Judge, TypeOK, PlannerTyped, InRow
  <2>2. PlannerTyped("conflict", run[p]) /\ run = [run EXCEPT ![p] = run[p]]
    BY <2>1 DEF PlannerTyped, PlannerLabels, InRow, TypeOK
  <2> DEFINE d == [run[p] EXCEPT !.stop = ~AllowPartial]
  <2>3. d \in Run
    BY <2>1, RowFields, LinkConstants
  <2>4. d.queue = run[p].queue
    BY <2>1, SMTT(60) DEF Run
  <2>5. Onward(d) \in Run /\ Onward(d).queue # <<>> /\ Onward(d).at > 0
    BY <2>1, <2>3, <2>4, RowFields
  <2>6. PlannerTyped("row", Onward(d))
    BY <2>5 DEF PlannerTyped, PlannerLabels, InRow
  <2>7. \/ run' = [run EXCEPT ![p] = run[p]] /\ Goto(p, "conflict")
        \/ run' = [run EXCEPT ![p] = Onward(d)] /\ Goto(p, "row")
    BY <1>13, <2>2 DEF Judge, Set
  <2>8. sync' = sync
    BY <1>13 DEF Judge
  <2>9. ProcsTyped'
    BY <2>1, <2>2, <2>5, <2>6, <2>7, <2>8, PlannerMoves DEF Goto, PlannerLabels
  <2>10. QED BY <1>13, <2>9 DEF Judge, TypeOK, TablesTyped
<1>14. ASSUME NEW p \in Planners, MarkConflict(p) PROVE TablesTyped' /\ ProcsTyped'
  <2> DEFINE l == run[p].link
             d == [run[p] EXCEPT !.stop = TRUE, !.errors = TRUE]
  <2>1. /\ pc[p] \in InRow /\ run[p] \in Run /\ l \in LinkIds
    BY <1>14 DEF MarkConflict, TypeOK, PlannerTyped, InRow
  <2>2. links[l] \in Link
    BY <1>14, <2>1 DEF MarkConflict, TypeOK, LinksInv
  <2>3. links' \in [LinkIds -> Link \union {Absent}]
    BY <1>14, <2>1, <2>2, SMTT(60) DEF MarkConflict, TypeOK, Link, Terminal
  <2>4. d \in Run
    BY <2>1, RowFields
  <2>5. d.queue = run[p].queue
    BY <2>1, SMTT(60) DEF Run
  <2>6. Onward(d) \in Run /\ Onward(d).queue # <<>> /\ Onward(d).at > 0
    BY <2>1, <2>4, <2>5, RowFields
  <2>7. PlannerTyped("row", Onward(d))
    BY <2>6 DEF PlannerTyped, PlannerLabels, InRow
  <2>8. run' = [run EXCEPT ![p] = Onward(d)] /\ Goto(p, "row") /\ sync' = sync
    BY <1>14 DEF MarkConflict, Set
  <2>9. ProcsTyped'
    BY <2>6, <2>7, <2>8, PlannerMoves DEF Goto, PlannerLabels
  <2>10. QED BY <1>14, <2>3, <2>9 DEF MarkConflict, TypeOK, TablesTyped
<1>15. ASSUME NEW p \in Planners, RejectRow(p) PROVE TablesTyped' /\ ProcsTyped'
  <2> DEFINE c == [run[p] EXCEPT !.queue = Tail(@), !.ran = TRUE]
  <2>1. pc[p] \in InRow /\ run[p] \in Run
    BY <1>15 DEF RejectRow, AtEnd, TypeOK, PlannerTyped, InRow
  <2>2. c \in Run
    BY <2>1, RowFields
  <2>3. PlannerTyped("next", c)
    BY <2>2 DEF PlannerTyped, PlannerLabels, InRow
  <2>4. run' = [run EXCEPT ![p] = c] /\ Goto(p, "next") /\ sync' = sync
    BY <1>15 DEF RejectRow, DropRow, Set
  <2>5. ProcsTyped'
    BY <2>2, <2>3, <2>4, PlannerMoves DEF Goto, PlannerLabels
  <2>6. QED BY <1>15, <2>5 DEF RejectRow, TypeOK, TablesTyped
<1>16. ASSUME NEW p \in Planners, PlanRow(p) PROVE TablesTyped' /\ ProcsTyped'
  <2> DEFINE d == [run[p] EXCEPT !.planned = IF run[p].errors THEN @
                                             ELSE @ \union {Current(p)}]
             c == [d EXCEPT !.queue = Tail(@), !.ran = TRUE]
  <2>1. pc[p] \in InRow /\ run[p] \in Run
    BY <1>16 DEF PlanRow, AtEnd, TypeOK, PlannerTyped, InRow
  <2>2. Current(p) \in Item
    BY <2>1, CurrentTyped
  <2>3. d \in Run /\ d.queue = run[p].queue
    BY <2>1, <2>2, SMTT(60) DEF Run
  <2>4. c \in Run
    <3> HIDE DEF d
    <3>1. QED BY <2>1, <2>3, RowFields
  <2>5. PlannerTyped("next", c)
    BY <2>4 DEF PlannerTyped, PlannerLabels, InRow
  <2>6. run' = [run EXCEPT ![p] = c] /\ Goto(p, "next") /\ sync' = sync
    BY <1>16 DEF PlanRow, DropRow, Set
  <2>7. ProcsTyped'
    BY <2>4, <2>5, <2>6, PlannerMoves DEF Goto, PlannerLabels
  <2>8. links' \in [LinkIds -> Link \union {Absent}] /\ cleared' \subseteq Rows
    <3>1. Current(p).row \in Rows
      BY <2>1, CurrentTyped
    <3>2. \A l \in Pending : links[l] \in Link
      BY DEF Pending, TypeOK, Absent
    <3>3. QED BY <1>16, <3>1, <3>2, SMTT(60)
          DEF PlanRow, ClearSource, TypeOK, Link, Terminal, Pending
  <2>9. QED BY <1>16, <2>7, <2>8 DEF PlanRow, TypeOK, TablesTyped
<1>17. ASSUME NEW p \in Planners, CrashPlanner(p) PROVE TablesTyped' /\ ProcsTyped'
  <2>1. PlannerTyped("idle", NoRun)
    BY DEF PlannerTyped, PlannerLabels, InRow
  <2>2. ProcsTyped'
    BY <1>17, <2>1, PlannerMoves DEF CrashPlanner, Goto, PlannerLabels
  <2>3. QED BY <1>17, <2>2 DEF CrashPlanner, TypeOK, TablesTyped
<1>18. ASSUME NEW s \in Syncers, ApplyItem(s) \/ RefreshItem(s)
       PROVE  TablesTyped' /\ ProcsTyped'
  <2>1. PICK r \in Rows : Hold(s, [row |-> r, todo |-> {}])
    BY <1>18 DEF ApplyItem, RefreshItem, TypeOK, Item
  <2>2. \E label \in {"upsert", "list"} : Goto(s, label)
    BY <1>18 DEF ApplyItem, RefreshItem
  <2>3. \A label \in {"upsert", "list"} : /\ SyncerTyped(label, [row |-> r, todo |-> {}])
                                          /\ label \in SyncerLabels
    BY DEF SyncerTyped, SyncerLabels
  <2>4. run' = run
    BY <1>18 DEF ApplyItem, RefreshItem
  <2>5. [row |-> r, todo |-> {}] \in [row : Rows \union {"none"}, todo : SUBSET LinkIds]
    OBVIOUS
  <2>6. ProcsTyped'
    BY <2>1, <2>2, <2>3, <2>4, <2>5, SyncerMoves DEF Hold, Goto
  <2>7. target' \subseteq Rows
    <3>1. \A i \in plan : i.row \in Rows
      BY DEF TypeOK, Item
    <3>2. target' = target \/ \E i \in plan : target' = target \union {i.row}
      BY <1>18 DEF ApplyItem, RefreshItem
    <3>3. QED BY <3>1, <3>2 DEF TypeOK
  <2>8. QED BY <1>18, <2>6, <2>7 DEF ApplyItem, RefreshItem, TypeOK, TablesTyped
<1>19. ASSUME NEW s \in Syncers, UpsertIdentity(s) PROVE TablesTyped' /\ ProcsTyped'
  <2>1. sync[s].row \in Rows /\ SyncerTyped("list", sync[s])
        /\ sync[s] \in [row : Rows \union {"none"}, todo : SUBSET LinkIds]
    BY <1>19 DEF UpsertIdentity, TypeOK, SyncerTyped, SyncerLabels
  <2>2. sync' = [sync EXCEPT ![s] = sync[s]] /\ "list" \in SyncerLabels /\ run' = run
    BY <1>19 DEF UpsertIdentity, TypeOK, SyncerLabels
  <2>3. ProcsTyped'
    BY <1>19, <2>1, <2>2, SyncerMoves DEF UpsertIdentity, Goto
  <2>4. QED BY <1>19, <2>1, <2>3 DEF UpsertIdentity, TypeOK, TablesTyped
<1>20. ASSUME NEW s \in Syncers, ListPendingForKey(s) PROVE TablesTyped' /\ ProcsTyped'
  <2>1. sync[s].row \in Rows
    BY <1>20 DEF ListPendingForKey, TypeOK, SyncerTyped
  <2>2. PICK waiting \in SUBSET LinkIds :
          /\ Hold(s, [row |-> sync[s].row, todo |-> waiting])
          /\ Goto(s, "idle") \/ Goto(s, "mark")
    BY <1>20 DEF ListPendingForKey, Pending
  <2> DEFINE item == [row |-> sync[s].row, todo |-> waiting]
  <2>3. item \in [row : Rows \union {"none"}, todo : SUBSET LinkIds] /\ run' = run
    BY <1>20, <2>1 DEF ListPendingForKey
  <2>4. \A label \in {"idle", "mark"} : SyncerTyped(label, item) /\ label \in SyncerLabels
    BY <2>1 DEF SyncerTyped, SyncerLabels
  <2>5. ProcsTyped'
    BY <2>2, <2>3, <2>4, SyncerMoves DEF Hold, Goto
  <2>6. QED BY <1>20, <2>5 DEF ListPendingForKey, TypeOK, TablesTyped
<1>21. ASSUME NEW s \in Syncers, MarkResolved(s) PROVE TablesTyped' /\ ProcsTyped'
  <2>1. PICK l \in sync[s].todo :
          /\ links' = [links EXCEPT ![l].status = "resolved"]
          /\ Hold(s, [sync[s] EXCEPT !.todo = @ \ {l}])
          /\ Goto(s, IF sync[s].todo = {l} THEN "idle" ELSE "mark")
    BY <1>21 DEF MarkResolved
  <2>2. sync[s].row \in Rows /\ sync[s].todo \subseteq LinkIds
        /\ sync[s] \in [row : Rows \union {"none"}, todo : SUBSET LinkIds]
    BY <1>21 DEF MarkResolved, TypeOK, SyncerTyped
  <2>3. links[l] \in Link
    BY <2>2 DEF LinksInv, TypeOK
  <2>4. links' \in [LinkIds -> Link \union {Absent}]
    BY <2>1, <2>2, <2>3 DEF TypeOK, Link, Terminal
  <2> DEFINE item == [sync[s] EXCEPT !.todo = @ \ {l}]
             label == IF sync[s].todo = {l} THEN "idle" ELSE "mark"
  <2>5. item \in [row : Rows \union {"none"}, todo : SUBSET LinkIds] /\ item.row \in Rows
    BY <2>2
  <2>6. SyncerTyped(label, item) /\ label \in SyncerLabels
    BY <2>5 DEF SyncerTyped, SyncerLabels
  <2>7. sync' = [sync EXCEPT ![s] = item] /\ pc' = [pc EXCEPT ![s] = label] /\ run' = run
    BY <1>21, <2>1 DEF MarkResolved, Hold, Goto
  <2> HIDE DEF item, label
  <2>8. ProcsTyped'
    BY <2>5, <2>6, <2>7, SyncerMoves
  <2>9. QED BY <1>21, <2>4, <2>8 DEF MarkResolved, TypeOK, TablesTyped
<1>22. ASSUME NEW s \in Syncers, CrashSyncer(s) PROVE TablesTyped' /\ ProcsTyped'
  <2> DEFINE item == [sync[s] EXCEPT !.todo = {}]
  <2>1. item \in [row : Rows \union {"none"}, todo : SUBSET LinkIds]
    BY DEF TypeOK
  <2>2. SyncerTyped("idle", item) /\ "idle" \in SyncerLabels
    BY DEF SyncerTyped, SyncerLabels
  <2>3. ProcsTyped'
    BY <1>22, <2>1, <2>2, SyncerMoves DEF CrashSyncer, Goto
  <2>4. QED BY <1>22, <2>3 DEF CrashSyncer, TypeOK, TablesTyped
<1>23. ASSUME FallDue PROVE TablesTyped' /\ ProcsTyped'
  <2>1. ProcsTyped'
    BY <1>23 DEF FallDue, TypeOK, ProcsTyped
  <2>2. due' \subseteq LinkIds
    BY <1>23 DEF FallDue, TypeOK, Pending
  <2>3. QED BY <1>23, <2>1, <2>2 DEF FallDue, TypeOK, TablesTyped
<1>24. QED
  BY <1>1, <1>2, <1>3, <1>4, <1>5, <1>6, <1>7, <1>8, <1>9, <1>10, <1>11, <1>12, <1>13,
     <1>14, <1>15, <1>16, <1>17, <1>18, <1>19, <1>20, <1>21, <1>22, <1>23, Zenon
  DEF Next, PlannerStep, SyncerStep

-----------------------------------------------------------------------------
(* Links that a process refers to. *)

Stays(l) == /\ links'[l] # Absent
            /\ LineOf[links'[l].row] = LineOf[links[l].row]
            /\ links'[l].need = links[l].need

Closed(k, x) == [k EXCEPT !.status = x]
Renewed(k, r, solved) == [k EXCEPT !.row = r, !.solved = solved]
Touched(k) == [k EXCEPT !.attempts = @ + 1]

LEMMA LinkUpdates ==
  \A k \in Link :
    /\ k # Absent
    /\ \A x \in Terminal : LET d == Closed(k, x)
                           IN  /\ d # Absent /\ d.row = k.row /\ d.need = k.need
                               /\ d.status = x
    /\ LET d == Touched(k)
       IN  d # Absent /\ d.row = k.row /\ d.need = k.need /\ d.status = k.status
    /\ \A r \in Rows, solved \in SUBSET Nat :
         LET d == Renewed(k, r, solved)
         IN  d # Absent /\ d.row = r /\ d.need = k.need /\ d.status = k.status
<1> SUFFICES ASSUME NEW k \in Link
             PROVE  /\ k # Absent
                    /\ \A x \in Terminal :
                         LET d == Closed(k, x)
                         IN  /\ d # Absent /\ d.row = k.row /\ d.need = k.need
                             /\ d.status = x
                    /\ LET d == Touched(k)
                       IN  d # Absent /\ d.row = k.row /\ d.need = k.need /\ d.status = k.status
                    /\ \A r \in Rows, solved \in SUBSET Nat :
                         LET d == Renewed(k, r, solved)
                         IN  d # Absent /\ d.row = r /\ d.need = k.need /\ d.status = k.status
  OBVIOUS
<1>1. Absent.status = "absent" /\ k.status # "absent"
  BY DEF Link, Absent, Terminal
<1>2. \A x \in Terminal : x # "absent"
  BY SMTT(60) DEF Terminal
<1>3. QED BY <1>1, <1>2 DEF Link, Closed, Touched, Renewed

\* Whatever a process still refers to is neither purged nor given a new meaning.
LEMMA HeldStay ==
  ASSUME TypeOK, LinksInv, Next, NEW l \in LinkIds \cap Held, links[l] # Absent
  PROVE  Stays(l)
<1>1. links[l] \in Link
  BY DEF TypeOK
<1>2. CASE links'[l] = links[l]
  BY <1>2 DEF Stays
<1>3. CASE \E x \in Terminal : links'[l] = [links[l] EXCEPT !.status = x]
  <2>1. PICK x \in Terminal : links'[l] = Closed(links[l], x)
    BY <1>3 DEF Closed
  <2>2. QED BY <1>1, <2>1, LinkUpdates DEF Stays
<1>4. ASSUME NEW p \in Planners, SweepWrite(p) PROVE Stays(l)
  BY <1>2, <1>3, <1>4 DEF SweepWrite, Terminal
<1>5. ASSUME NEW p \in Planners, EndRun(p) PROVE Stays(l)
  <2>1. links'[l] = links[l]
    BY <1>5 DEF EndRun
  <2>2. QED BY <1>2, <2>1
<1>6. ASSUME NEW p \in Planners, Renew(p) PROVE Stays(l)
  <2>1. CASE l = run[p].link
    <3>1. links'[l] = Renewed(links[l], Current(p).row, Current(p).solved)
      BY <1>6, <2>1 DEF Renew, TypeOK, Renewed
    <3>2. Current(p).row \in Rows /\ Current(p).solved \in SUBSET Nat
      BY <1>6, CurrentTyped DEF Renew, InRow
    <3>3. LineOf[links[l].row] = LineOf[Current(p).row]
      BY <1>6, <2>1 DEF Renew, LinksInv
    <3>4. QED BY <1>1, <3>1, <3>2, <3>3, LinkUpdates DEF Stays
  <2>2. CASE l # run[p].link
    BY <1>2, <1>6, <2>2 DEF Renew, TypeOK
  <2>3. QED BY <2>1, <2>2
<1>7. ASSUME NEW p \in Planners, Insert(p) PROVE Stays(l)
  <2>1. l # nextLink
    BY LinkConstants DEF LinksInv, TypeOK, LinkIds
  <2>2. links'[l] = links[l]
    BY <1>7, <2>1 DEF Insert, TypeOK
  <2>3. QED BY <1>2, <2>2
<1>8. ASSUME NEW p \in Planners, Touch(p) PROVE Stays(l)
  <2>1. CASE l = run[p].link
    <3>1. links'[l] = Touched(links[l])
      BY <1>8, <2>1 DEF Touch, TypeOK, Touched
    <3>2. QED BY <1>1, <3>1, LinkUpdates DEF Stays
  <2>2. CASE l # run[p].link
    BY <1>2, <1>8, <2>2 DEF Touch, TypeOK
  <2>3. QED BY <2>1, <2>2
<1>9. ASSUME NEW p \in Planners, MarkConflict(p) PROVE Stays(l)
  <2>1. links'[l] = links[l] \/ links'[l] = [links[l] EXCEPT !.status = "conflict"]
    BY <1>9 DEF MarkConflict, TypeOK
  <2>2. QED BY <1>2, <1>3, <2>1 DEF Terminal
<1>10. ASSUME NEW p \in Planners, PlanRow(p) PROVE Stays(l)
  <2>1. links'[l] = links[l] \/ links'[l] = [links[l] EXCEPT !.status = "resolved"]
    BY <1>10 DEF PlanRow, ClearSource, TypeOK
  <2>2. QED BY <1>2, <1>3, <2>1 DEF Terminal
<1>11. ASSUME NEW s \in Syncers, MarkResolved(s) PROVE Stays(l)
  <2>1. links'[l] = links[l] \/ links'[l] = [links[l] EXCEPT !.status = "resolved"]
    BY <1>11 DEF MarkResolved, TypeOK
  <2>2. QED BY <1>2, <1>3, <2>1 DEF Terminal
<1>12. ASSUME links' = links PROVE Stays(l)
  BY <1>12, SMTT(60) DEF Stays
<1>13. QED
  BY <1>4, <1>5, <1>6, <1>7, <1>8, <1>9, <1>10, <1>11, <1>12, ZenonT(60)
  DEF Next, PlannerStep, SyncerStep, StartRun, NextRow, SweepRead, SkipSolved, Resolve,
      Unresolved, ConfirmByTopology, ApplyTopologyPolicy, AddRead, Judge, RejectRow,
      CrashPlanner, ApplyItem, RefreshItem, UpsertIdentity, ListPendingForKey,
      CrashSyncer, FallDue, store

\* A link in the table was given its id already.
LEMMA BelowStep ==
  ASSUME TypeOK, LinksInv, Next, NEW l \in LinkIds, links'[l] # Absent
  PROVE  l < nextLink'
<1>1. nextLink \in Nat /\ l \in Nat
  BY LinkConstants DEF TypeOK, LinkIds
<1>2. CASE nextLink' = nextLink /\ links[l] # Absent
  BY <1>2 DEF LinksInv
<1>3. ASSUME NEW p \in Planners, Insert(p) PROVE l < nextLink'
  <2>1. l = nextLink \/ links'[l] = links[l]
    BY <1>3 DEF Insert, TypeOK
  <2>2. l <= nextLink
    BY <1>1, <2>1 DEF LinksInv
  <2>3. QED BY <1>1, <1>3, <2>2 DEF Insert
<1>4. ASSUME NEW p \in Planners, SweepWrite(p) PROVE l < nextLink'
  <2>1. run[p].ids \subseteq LinkIds
    BY <1>4, RunFields DEF SweepWrite, TypeOK, PlannerTyped
  <2>2. links[l] # Absent
    BY <1>4, <2>1 DEF SweepWrite, TypeOK, LinksInv
  <2>3. QED BY <1>2, <1>4, <2>2 DEF SweepWrite
<1>5. ASSUME NEW p \in Planners, EndRun(p) PROVE l < nextLink'
  <2>1. links[l] # Absent
    BY <1>5 DEF EndRun
  <2>2. QED BY <1>2, <1>5, <2>1 DEF EndRun
<1>6. ASSUME NEW p \in Planners, Renew(p) \/ Touch(p) \/ MarkConflict(p) PROVE l < nextLink'
  <2>1. links[run[p].link] # Absent
    BY <1>6 DEF Renew, Touch, MarkConflict, LinksInv
  <2>2. links[l] # Absent
    BY <1>6, <2>1 DEF Renew, Touch, MarkConflict, TypeOK
  <2>3. QED BY <1>2, <1>6, <2>2 DEF Renew, Touch, MarkConflict
<1>7. ASSUME NEW p \in Planners, PlanRow(p) PROVE l < nextLink'
  <2>1. links[l] # Absent
    BY <1>7 DEF PlanRow, ClearSource, Pending, Absent
  <2>2. QED BY <1>2, <1>7, <2>1 DEF PlanRow
<1>8. ASSUME NEW s \in Syncers, MarkResolved(s) PROVE l < nextLink'
  <2>1. links[l] # Absent
    BY <1>8 DEF MarkResolved, LinksInv, TypeOK
  <2>2. QED BY <1>2, <1>8, <2>1 DEF MarkResolved
<1>9. QED
  BY <1>2, <1>3, <1>4, <1>5, <1>6, <1>7, <1>8, ZenonT(60)
  DEF Next, PlannerStep, SyncerStep, StartRun, NextRow, SweepRead, SkipSolved, Resolve,
      Unresolved, ConfirmByTopology, ApplyTopologyPolicy, AddRead, Judge, RejectRow,
      CrashPlanner, ApplyItem, RefreshItem, UpsertIdentity, ListPendingForKey,
      CrashSyncer, FallDue, store

\* A step of one process leaves the variables of the others alone.
PlannerActs(p) == StartRun(p) \/ PlannerStep(p) \/ CrashPlanner(p)
SyncerActs(s)  == ApplyItem(s) \/ RefreshItem(s) \/ SyncerStep(s) \/ CrashSyncer(s)

LEMMA PlannerAlone ==
  ASSUME TypeOK, NEW p \in Planners, PlannerActs(p)
  PROVE  /\ sync' = sync
         /\ \A q \in Procs : q # p => pc'[q] = pc[q]
         /\ \A q \in Planners : q # p => run'[q] = run[q]
<1>1. sync' = sync
  BY SMTT(60) DEF PlannerActs, PlannerStep, StartRun, NextRow, SweepRead, SweepWrite, EndRun, SkipSolved,
         Resolve, Unresolved, ConfirmByTopology, ApplyTopologyPolicy, AddRead, Renew,
         Insert, Touch, Judge, MarkConflict, RejectRow, PlanRow, CrashPlanner
<1>2. pc' = pc \/ \E label : pc' = [pc EXCEPT ![p] = label]
  BY DEF PlannerActs, PlannerStep, StartRun, NextRow, SweepRead, SweepWrite, EndRun, SkipSolved,
         Resolve, Unresolved, ConfirmByTopology, ApplyTopologyPolicy, AddRead, Renew,
         Insert, Touch, Judge, MarkConflict, RejectRow, PlanRow, CrashPlanner, Goto, AtLink
<1>3. run' = run \/ \E c : run' = [run EXCEPT ![p] = c]
  BY ZenonT(60) DEF PlannerActs, PlannerStep, StartRun, NextRow, SweepRead, SweepWrite, EndRun, SkipSolved,
         Resolve, Unresolved, ConfirmByTopology, ApplyTopologyPolicy, AddRead, Renew,
         Insert, Touch, Judge, MarkConflict, RejectRow, PlanRow, CrashPlanner, Set, DropRow
<1>4. QED BY <1>1, <1>2, <1>3, SMTT(60) DEF TypeOK

LEMMA SyncerAlone ==
  ASSUME TypeOK, NEW s \in Syncers, SyncerActs(s)
  PROVE  /\ run' = run
         /\ \A q \in Procs : q # s => pc'[q] = pc[q]
         /\ \A q \in Syncers : q # s => sync'[q] = sync[q]
<1>1. run' = run
  BY DEF SyncerActs, SyncerStep, ApplyItem, RefreshItem, UpsertIdentity, ListPendingForKey,
         MarkResolved, CrashSyncer
<1>2. \E label : pc' = [pc EXCEPT ![s] = label]
  BY DEF SyncerActs, SyncerStep, ApplyItem, RefreshItem, UpsertIdentity, ListPendingForKey,
         MarkResolved, CrashSyncer, Goto
<1>3. sync' = sync \/ \E i : sync' = [sync EXCEPT ![s] = i]
  BY DEF SyncerActs, SyncerStep, ApplyItem, RefreshItem, UpsertIdentity, ListPendingForKey,
         MarkResolved, CrashSyncer, Hold
<1>4. QED BY <1>1, <1>2, <1>3 DEF TypeOK

PlannerHolds(p) ==
  /\ pc[p] \in {"renew", "touch", "judge", "conflict"} => links[run[p].link] # Absent
  /\ pc[p] = "renew" => LineOf[links[run[p].link].row] = LineOf[Current(p).row]
  /\ pc[p] # "idle" => \A l \in run[p].ids : links[l] # Absent

LEMMA PlannerKeeps ==
  ASSUME TypeOK, LinksInv, Next, NEW p \in Planners, pc[p] # "idle"
  PROVE  /\ run'[p].ids = run[p].ids => \A l \in run'[p].ids : links'[l] # Absent
         /\ pc[p] \in {"renew", "touch", "judge", "conflict"} =>
              links'[run[p].link] # Absent
              /\ LineOf[links'[run[p].link].row] = LineOf[links[run[p].link].row]
<1>1. run[p].ids \subseteq LinkIds
  BY RunFields DEF TypeOK, PlannerTyped
<1>2. run[p].ids \subseteq Held /\ run[p].link \in Held
  <2> DEFINE S == {run[q].ids \union {run[q].link} : q \in {r \in Planners : pc[r] # "idle"}}
  <2>1. run[p].ids \union {run[p].link} \in S
    OBVIOUS
  <2>2. UNION S \subseteq Held
    BY DEF Held
  <2> HIDE DEF S
  <2>3. QED BY <2>1, <2>2
<1>3. \A l \in run[p].ids : links'[l] # Absent
  BY <1>1, <1>2, HeldStay DEF Stays, LinksInv
<1>4. ASSUME pc[p] \in {"renew", "touch", "judge", "conflict"}
      PROVE  /\ links'[run[p].link] # Absent
             /\ LineOf[links'[run[p].link].row] = LineOf[links[run[p].link].row]
  <2>1. run[p].link \in LinkIds /\ links[run[p].link] # Absent
    BY <1>4 DEF TypeOK, PlannerTyped, LinksInv
  <2>2. QED BY <1>2, <2>1, HeldStay DEF Stays
<1>5. QED BY <1>3, <1>4

LEMMA PlannerHoldsStep ==
  ASSUME TypeOK, LinksInv, Next, NEW p \in Planners, PlannerActs(p)
  PROVE  PlannerHolds(p)'
<1>1. ASSUME pc'[p] = "idle" PROVE PlannerHolds(p)'
  BY <1>1 DEF PlannerHolds
<1>2. ASSUME pc'[p] \in {"next", "row", "add", "insert", "sweep"},
             \A l \in run'[p].ids : links'[l] # Absent
      PROVE  PlannerHolds(p)'
  BY <1>2 DEF PlannerHolds
<1>3. ASSUME pc'[p] \in {"next", "row", "add", "insert", "sweep"}, pc[p] # "idle",
             run'[p].ids = run[p].ids
      PROVE  PlannerHolds(p)'
  BY <1>2, <1>3, PlannerKeeps
<1>4. CASE StartRun(p)
  <2>1. PICK c : c.ids = {} /\ run' = [run EXCEPT ![p] = c]
    BY <1>4, ZenonT(60) DEF StartRun
  <2>2. QED BY <1>2, <1>4, <2>1 DEF StartRun, Goto, TypeOK, Procs
<1>5. CASE NextRow(p)
  <2>1. run[p] \in Run
    BY <1>5 DEF NextRow, TypeOK, PlannerTyped
  <2>2. run'[p].ids = run[p].ids
    BY <1>5, <2>1 DEF NextRow, Set, Run, TypeOK
  <2>3. QED BY <1>3, <1>5, <2>2 DEF NextRow, Goto, TypeOK, Procs
<1>6. CASE SweepRead(p)
  <2>1. run[p] \in Run
    BY <1>6 DEF SweepRead, TypeOK, PlannerTyped
  <2>2. run'[p].ids = Pending \cap due
    BY <1>6, <2>1 DEF SweepRead, Set, Run, TypeOK
  <2>3. \A l \in run'[p].ids : links'[l] # Absent
    BY <1>6, <2>2 DEF SweepRead, store, Pending, Absent
  <2>4. pc'[p] \in {"next", "sweep"}
    BY <1>6 DEF SweepRead, Goto, TypeOK, Procs
  <2>5. QED BY <1>2, <2>3, <2>4
<1>7. CASE SweepWrite(p)
  <2>1. run[p] \in Run
    BY <1>7 DEF SweepWrite, TypeOK, PlannerTyped
  <2>2. run'[p].ids = {}
    BY <1>7, <2>1 DEF SweepWrite, Set, Run, TypeOK
  <2>3. QED BY <1>2, <1>7, <2>2 DEF SweepWrite, Goto, TypeOK, Procs
<1>8. CASE EndRun(p) \/ CrashPlanner(p)
  BY <1>1, <1>8 DEF EndRun, CrashPlanner, Goto, TypeOK, Procs
<1>9. CASE SkipSolved(p) \/ Resolve(p) \/ ConfirmByTopology(p)
  <2>1. pc[p] = "row" /\ run[p] \in Run
    BY <1>9 DEF SkipSolved, Resolve, ConfirmByTopology, AtLink, TypeOK, PlannerTyped
  <2>2. pc'[p] = "row"
    BY <1>9, <2>1 DEF SkipSolved, Resolve, ConfirmByTopology
  <2>3. run'[p].ids = run[p].ids
    BY <1>9, <2>1, ZenonT(60) DEF SkipSolved, Resolve, ConfirmByTopology, Set, Solved, Run, TypeOK
  <2>4. QED BY <1>3, <2>1, <2>2, <2>3
<1>10. CASE Unresolved(p) \/ ApplyTopologyPolicy(p)
  <2>1. pc[p] = "row" /\ run[p] \in Run
    BY <1>10 DEF Unresolved, ApplyTopologyPolicy, AtLink, TypeOK, PlannerTyped
  <2>2. pc'[p] \in {"next", "add"}
    BY <1>10 DEF Unresolved, ApplyTopologyPolicy, Goto, TypeOK, Procs
  <2>3. run'[p].ids = run[p].ids
    BY <1>10, <2>1, ZenonT(60) DEF Unresolved, ApplyTopologyPolicy, Set, DropRow, Run, TypeOK
  <2>4. QED BY <1>3, <2>1, <2>2, <2>3
<1>11. CASE AddRead(p)
  <2>1. pc[p] = "add" /\ run[p] \in Run /\ links' = links
    BY <1>11 DEF AddRead, TypeOK, PlannerTyped, store
  <2>2. CASE Goto(p, "insert") /\ run' = run
    <3>1. pc'[p] = "insert"
      BY <2>2 DEF Goto, TypeOK, Procs
    <3>2. QED BY <1>3, <2>1, <2>2, <3>1
  <2>3. ASSUME NEW l \in Pending, SameReference(l, Current(p).row, Needed(p)),
               Set(p, [run[p] EXCEPT !.link = l]), Goto(p, "renew")
        PROVE  PlannerHolds(p)'
    <3>1. run'[p].ids = run[p].ids /\ run'[p].link = l /\ run'[p].queue = run[p].queue
      BY <2>1, <2>3 DEF Set, Run, TypeOK
    <3>2. pc'[p] = "renew"
      BY <2>3 DEF Goto, TypeOK, Procs
    <3>3. Current(p)' = Current(p)
      BY <3>1 DEF Current
    <3>4. \A k \in run'[p].ids : links'[k] # Absent
      BY <2>1, <3>1, PlannerKeeps
    <3>5. QED BY <2>1, <2>3, <3>1, <3>2, <3>3, <3>4 DEF PlannerHolds, SameReference
  <2>4. QED BY <1>11, <2>2, <2>3 DEF AddRead
<1>12. CASE Renew(p) \/ Touch(p)
  <2>1. pc[p] \in {"renew", "touch"} /\ pc'[p] \in {"touch", "judge"} /\ run' = run
    BY <1>12 DEF Renew, Touch, Goto, TypeOK, Procs
  <2>2. QED BY <2>1, PlannerKeeps DEF PlannerHolds
<1>13. CASE Insert(p)
  <2>1. run[p] \in Run /\ nextLink \in LinkIds
    <3>1. nextLink \in 1..(MaxLinks + 1) /\ nextLink <= MaxLinks
      BY <1>13 DEF Insert, TypeOK
    <3>2. QED BY <1>13, <3>1, LinkConstants DEF Insert, TypeOK, PlannerTyped, LinkIds
  <2>2. run'[p].link = nextLink /\ run'[p].ids = run[p].ids /\ pc[p] # "idle" /\ pc'[p] = "touch"
    BY <1>13, <2>1 DEF Insert, Set, Goto, TypeOK, Procs, Run
  <2>3. links'[nextLink].status = "pending"
    BY <1>13, <2>1 DEF Insert, TypeOK
  <2>4. links'[nextLink] # Absent
    BY <2>3 DEF Absent
  <2>5. QED BY <2>2, <2>4, PlannerKeeps DEF PlannerHolds
<1>14. CASE Judge(p)
  <2>1. pc[p] = "judge" /\ run[p] \in Run
    BY <1>14 DEF Judge, TypeOK, PlannerTyped
  <2>2. CASE Goto(p, "conflict") /\ run' = run
    <3>1. pc'[p] = "conflict"
      BY <2>2 DEF Goto, TypeOK, Procs
    <3>2. QED BY <2>1, <2>2, <3>1, PlannerKeeps DEF PlannerHolds
  <2>3. CASE /\ Set(p, Onward([run[p] EXCEPT !.stop = ~AllowPartial])) /\ Goto(p, "row")
    <3>1. run'[p].ids = run[p].ids
      BY <2>1, <2>3 DEF Set, Onward, Run, TypeOK
    <3>2. pc'[p] = "row"
      BY <2>3 DEF Goto, TypeOK, Procs
    <3>3. QED BY <1>3, <2>1, <3>1, <3>2
  <2>4. QED BY <1>14, <2>2, <2>3 DEF Judge
<1>15. CASE MarkConflict(p)
  <2>1. pc[p] = "conflict" /\ run[p] \in Run
    BY <1>15 DEF MarkConflict, TypeOK, PlannerTyped
  <2>2. run'[p].ids = run[p].ids
    BY <1>15, <2>1 DEF MarkConflict, Set, Onward, Run, TypeOK
  <2>3. QED BY <1>3, <1>15, <2>1, <2>2 DEF MarkConflict, Goto, TypeOK, Procs
<1>16. CASE RejectRow(p) \/ PlanRow(p)
  <2>1. pc[p] = "row" /\ run[p] \in Run /\ pc'[p] = "next"
    BY <1>16 DEF RejectRow, PlanRow, AtEnd, Goto, TypeOK, PlannerTyped, Procs
  <2>2. PICK d \in {run[p], [run[p] EXCEPT !.planned = IF run[p].errors THEN @
                                                      ELSE @ \union {Current(p)}]} :
          run' = [run EXCEPT ![p] = [d EXCEPT !.queue = Tail(@), !.ran = TRUE]]
    BY <1>16 DEF RejectRow, PlanRow, DropRow, Set
  <2>3. d.ids = run[p].ids /\ [d EXCEPT !.queue = Tail(@), !.ran = TRUE].ids = d.ids
    BY <2>1 DEF Run
  <2>4. run'[p].ids = run[p].ids
    BY <2>2, <2>3 DEF TypeOK
  <2>5. QED BY <1>3, <2>1, <2>4
<1>17. QED
  BY <1>4, <1>5, <1>6, <1>7, <1>8, <1>9, <1>10, <1>11, <1>12, <1>13, <1>14, <1>15, <1>16
  DEF PlannerActs, PlannerStep

LEMMA LinksStep ==
  ASSUME TypeOK, LinksInv, Next
  PROVE  LinksInv'
<1>1. \A l \in LinkIds : links'[l] # Absent => l < nextLink'
  BY BelowStep
<1>2. ASSUME NEW p \in Planners PROVE PlannerHolds(p)'
  <2>1. CASE pc'[p] = pc[p] /\ run'[p] = run[p]
    <3>1. CASE pc[p] = "idle"
      BY <2>1, <3>1 DEF PlannerHolds
    <3>2. CASE pc[p] # "idle"
      BY <2>1, <3>2, PlannerKeeps DEF PlannerHolds, LinksInv, Current
    <3>3. QED BY <3>1, <3>2
  <2>2. ASSUME NEW q \in Planners, PlannerActs(q) PROVE PlannerHolds(p)'
    BY <2>1, <2>2, PlannerAlone, PlannerHoldsStep DEF Procs
  <2>3. ASSUME NEW s \in Syncers, SyncerActs(s) PROVE PlannerHolds(p)'
    BY <2>1, <2>3, SyncerAlone, LinkConstants DEF Procs
  <2>4. CASE FallDue
    BY <2>1, <2>4 DEF FallDue
  <2>5. QED BY <2>2, <2>3, <2>4 DEF Next, PlannerActs, SyncerActs
<1>3. ASSUME NEW s \in Syncers PROVE \A l \in sync'[s].todo : links'[l] # Absent
  <2>1. ASSUME sync'[s].todo \subseteq sync[s].todo
        PROVE  \A l \in sync'[s].todo : links'[l] # Absent
    <3>1. sync[s].todo \subseteq LinkIds /\ \A l \in sync[s].todo : links[l] # Absent
      BY DEF TypeOK, LinksInv
    <3>2. sync[s].todo \subseteq Held
      <4> DEFINE S == {sync[q].todo : q \in Syncers}
      <4>1. sync[s].todo \in S
        OBVIOUS
      <4>2. UNION S \subseteq Held
        BY Zenon DEF Held
      <4> HIDE DEF S
      <4>3. QED BY <4>1, <4>2
    <3>3. QED BY <2>1, <3>1, <3>2, HeldStay DEF Stays
  <2>2. ASSUME NEW q \in Planners, PlannerActs(q)
        PROVE  \A l \in sync'[s].todo : links'[l] # Absent
    BY <2>1, <2>2, PlannerAlone
  <2>3. ASSUME NEW q \in Syncers, SyncerActs(q)
        PROVE  \A l \in sync'[s].todo : links'[l] # Absent
    <3>1. CASE q # s
      BY <2>1, <2>3, <3>1, SyncerAlone
    <3>2. CASE ApplyItem(s) \/ RefreshItem(s) \/ UpsertIdentity(s) \/ CrashSyncer(s)
      <4>1. sync'[s].todo \subseteq sync[s].todo
        BY <3>2 DEF ApplyItem, RefreshItem, UpsertIdentity, CrashSyncer, Hold, TypeOK
      <4>2. QED BY <2>1, <4>1
    <3>3. CASE ListPendingForKey(s)
      BY <3>3 DEF ListPendingForKey, Hold, store, Pending, Absent, TypeOK
    <3>4. CASE MarkResolved(s)
      <4>1. sync'[s].todo \subseteq sync[s].todo
        BY <3>4 DEF MarkResolved, Hold, TypeOK
      <4>2. QED BY <2>1, <4>1
    <3>5. QED BY <2>3, <3>1, <3>2, <3>3, <3>4 DEF SyncerActs, SyncerStep
  <2>4. CASE FallDue
    BY <2>1, <2>4 DEF FallDue
  <2>5. QED BY <2>2, <2>3, <2>4 DEF Next, PlannerActs, SyncerActs
<1>4. QED BY <1>1, <1>2, <1>3 DEF LinksInv, PlannerHolds

\* The tables of pending_links and the local variables of every command keep their
\* types, whatever other commands do in between (ensure_identity_schema,
\* ResolveCore.resolve): a link in use is never purged, so no command writes to a row
\* that is gone.
THEOREM TypeCorrect == Spec => [](TypeOK /\ LinksInv)
<1>1. Init => TypeOK /\ LinksInv
  <2> SUFFICES ASSUME Init PROVE TypeOK /\ LinksInv
    OBVIOUS
  <2>1. TablesTyped
    BY LinkConstants DEF Init, TablesTyped, LinkIds
  <2>2. ProcsTyped
    BY DEF Init, ProcsTyped, Procs, NoRun, NoSync, PlannerTyped, SyncerTyped,
           PlannerLabels, SyncerLabels, InRow
  <2>3. LinksInv
    BY DEF Init, LinksInv, Procs, NoSync
  <2>4. QED BY <2>1, <2>2, <2>3 DEF TypeOK, TablesTyped, ProcsTyped
<1>2. TypeOK /\ LinksInv /\ [Next]_vars => (TypeOK /\ LinksInv)'
  <2> SUFFICES ASSUME TypeOK, LinksInv, [Next]_vars PROVE TypeOK' /\ LinksInv'
    OBVIOUS
  <2>1. CASE Next
    BY <2>1, TypeStep, LinksStep
  <2>2. CASE UNCHANGED vars
    BY <2>2 DEF vars, store, TypeOK, LinksInv, Current
  <2>3. QED BY <2>1, <2>2
<1>3. QED BY <1>1, <1>2, PTL DEF Spec

-----------------------------------------------------------------------------
(* Safety. *)

\* Every step keeps the rows of a run complete as far as it got.
LEMMA CompleteStep ==
  ASSUME TypeOK, TypeOK', CompleteInv, PlannedRowsAreComplete, Next, ~AllowPartial,
         NEW p \in Planners
  PROVE  /\ pc'[p] # "idle" => \A i \in run'[p].planned : Complete(i)
         /\ pc'[p] \in InRow /\ ~run'[p].stop =>
              1..(run'[p].at - 1) \subseteq Current(p)'.solved
<1> DEFINE Goal == /\ pc'[p] # "idle" => \A i \in run'[p].planned : Complete(i)
                   /\ pc'[p] \in InRow /\ ~run'[p].stop =>
                        1..(run'[p].at - 1) \subseteq Current(p)'.solved
<1>1. CASE pc'[p] = pc[p] /\ run'[p] = run[p]
  BY <1>1 DEF CompleteInv, Current
<1>2. ASSUME pc[p] # "idle", pc'[p] \notin InRow, run'[p].planned = run[p].planned
      PROVE  Goal
  BY <1>2 DEF CompleteInv
<1>3. ASSUME pc[p] \in InRow, pc'[p] \in InRow, run'[p].planned = run[p].planned,
             run'[p].queue = run[p].queue, run'[p].at = run[p].at,
             run'[p].stop = run[p].stop
      PROVE  Goal
  BY <1>3 DEF CompleteInv, Current, InRow
<1>4. ASSUME pc[p] # "idle", run'[p].planned = run[p].planned, run'[p].stop
      PROVE  Goal
  BY <1>4 DEF CompleteInv
<1>5. CASE StartRun(p)
  <2>1. PICK c : c.planned = {} /\ run' = [run EXCEPT ![p] = c]
    BY <1>5, ZenonT(60) DEF StartRun
  <2>2. pc'[p] = "next"
    BY <1>5 DEF StartRun, Goto, TypeOK, Procs
  <2>3. QED BY <2>1, <2>2 DEF TypeOK, InRow
<1>6. CASE NextRow(p)
  <2>1. run[p] \in Run /\ pc[p] = "next"
    BY <1>6 DEF NextRow, TypeOK, PlannerTyped
  <2>2. run'[p].planned = run[p].planned /\ run'[p].at = 1
    BY <1>6, <2>1 DEF NextRow, Set, Run, TypeOK
  <2>3. 1..(1 - 1) = {}
    OBVIOUS
  <2>4. QED BY <2>1, <2>2, <2>3 DEF CompleteInv
<1>7. CASE SweepRead(p) \/ SweepWrite(p)
  <2>1. run[p] \in Run /\ pc[p] # "idle"
    BY <1>7 DEF SweepRead, SweepWrite, TypeOK, PlannerTyped
  <2>2. run'[p].planned = run[p].planned
    <3>1. CASE SweepRead(p)
      BY <2>1, <3>1 DEF SweepRead, Set, Run, TypeOK
    <3>2. CASE SweepWrite(p)
      BY <2>1, <3>2 DEF SweepWrite, Set, Run, TypeOK
    <3>3. QED BY <1>7, <3>1, <3>2
  <2>3. pc'[p] \notin InRow
    BY <1>7 DEF SweepRead, SweepWrite, Goto, TypeOK, Procs, InRow
  <2>4. QED BY <1>2, <2>1, <2>2, <2>3
<1>8. CASE EndRun(p) \/ CrashPlanner(p)
  BY <1>8 DEF EndRun, CrashPlanner, Goto, TypeOK, Procs, InRow
<1>9. CASE SkipSolved(p)
  <2>1. /\ run[p] \in Run /\ pc[p] = "row" /\ pc'[p] = "row"
        /\ run[p].at \in Current(p).solved
    BY <1>9 DEF SkipSolved, AtLink, TypeOK, PlannerTyped
  <2>2. /\ run'[p].planned = run[p].planned /\ run'[p].at = run[p].at + 1
        /\ run'[p].queue = run[p].queue /\ run'[p].stop = run[p].stop
    BY <1>9, <2>1 DEF SkipSolved, Set, Run, TypeOK
  <2>3. run[p].at \in Nat
    BY <2>1, RunFields
  <2>4. 1..(run'[p].at - 1) \subseteq 1..(run[p].at - 1) \union {run[p].at}
    BY <2>2, <2>3
  <2>5. QED BY <2>1, <2>2, <2>4 DEF CompleteInv, Current, InRow
<1>10. CASE Resolve(p) \/ ConfirmByTopology(p)
  <2>1. run[p] \in Run /\ pc[p] = "row" /\ pc'[p] = "row" /\ run'[p] = Solved(p)
    BY <1>10 DEF Resolve, ConfirmByTopology, AtLink, Set, TypeOK, PlannerTyped
  <2>2. /\ Current(p) = run[p].queue[1] /\ Current(p) \in Item
        /\ run[p].queue \in Seq(Item) /\ 1 \in 1..Len(run[p].queue)
    BY <2>1, CurrentTyped DEF InRow
  <2> DEFINE i == [Current(p) EXCEPT !.solved = @ \union {run[p].at}]
             q == [run[p].queue EXCEPT ![1] = i]
             n == run[p].at + 1
  <2>3. Solved(p) = SolvedAs(run[p], q, n)
    BY <2>1, <2>2 DEF Solved, SolvedAs, Run
  <2>4. run[p].at \in Nat /\ n \in Nat
    BY <2>1, RunFields
  <2>5. i \in Item /\ i.solved = Current(p).solved \union {run[p].at}
    BY <2>2, <2>4 DEF Item
  <2>6. q \in Seq(Item) /\ Len(q) = Len(run[p].queue) /\ q[1] = i
    BY <2>2, <2>5, ExceptSeq
  <2>7. Head(q) = i
    BY <2>6
  <2>8. /\ run'[p].planned = run[p].planned /\ run'[p].at = n
        /\ run'[p].queue = q /\ run'[p].stop = run[p].stop
    <3> HIDE DEF q, n
    <3>1. QED BY <2>1, <2>3, <2>4, <2>6, RunSolves
  <2>9. Current(p)' = i
    BY <2>7, <2>8 DEF Current
  <2>10. 1..(n - 1) \subseteq 1..(run[p].at - 1) \union {run[p].at}
    BY <2>4
  <2> HIDE DEF i, n
  <2>11. QED BY <2>1, <2>5, <2>8, <2>9, <2>10 DEF CompleteInv, InRow
<1>11. CASE Unresolved(p) \/ ApplyTopologyPolicy(p)
  <2>1. pc[p] = "row" /\ run[p] \in Run
    BY <1>11 DEF Unresolved, ApplyTopologyPolicy, AtLink, TypeOK, PlannerTyped
  <2>2. \/ Goto(p, "next") /\ DropRow(p, run[p])
        \/ Goto(p, "add") /\ run' = run
        \/ Goto(p, "add") /\ Set(p, [run[p] EXCEPT !.returns = TRUE])
    BY <1>11 DEF Unresolved, ApplyTopologyPolicy
  <2>3. CASE Goto(p, "next") /\ DropRow(p, run[p])
    <3>1. run'[p].planned = run[p].planned
      BY <2>1, <2>3 DEF DropRow, Set, Run, TypeOK
    <3>2. QED BY <1>2, <2>1, <2>3, <3>1 DEF Goto, TypeOK, Procs, InRow
  <2>4. CASE Goto(p, "add") /\ run' = run
    BY <1>3, <2>1, <2>4 DEF Goto, TypeOK, Procs, InRow
  <2>5. CASE Goto(p, "add") /\ Set(p, [run[p] EXCEPT !.returns = TRUE])
    <3>1. /\ run'[p].planned = run[p].planned /\ run'[p].queue = run[p].queue
          /\ run'[p].at = run[p].at /\ run'[p].stop = run[p].stop
      BY <2>1, <2>5 DEF Set, Run, TypeOK
    <3>2. QED BY <1>3, <2>1, <2>5, <3>1 DEF Goto, TypeOK, Procs, InRow
  <2>6. QED BY <2>2, <2>3, <2>4, <2>5
<1>12. CASE AddRead(p) \/ Insert(p)
  <2>1. pc[p] \in InRow /\ run[p] \in Run
    BY <1>12 DEF AddRead, Insert, TypeOK, PlannerTyped, InRow
  <2>2. pc'[p] \in InRow
    BY <1>12 DEF AddRead, Insert, Goto, TypeOK, Procs, InRow
  <2>3. run' = run \/ \E l : run' = [run EXCEPT ![p] = [run[p] EXCEPT !.link = l]]
    BY <1>12 DEF AddRead, Insert, Set
  <2>4. /\ run'[p].planned = run[p].planned /\ run'[p].queue = run[p].queue
        /\ run'[p].at = run[p].at /\ run'[p].stop = run[p].stop
    BY <2>1, <2>3 DEF Run, TypeOK
  <2>5. QED BY <1>3, <2>1, <2>2, <2>4
<1>13. CASE Renew(p) \/ Touch(p)
  BY <1>3, <1>13 DEF Renew, Touch, Goto, TypeOK, Procs, InRow
<1>14. CASE Judge(p)
  <2>1. pc[p] = "judge" /\ run[p] \in Run
    BY <1>14 DEF Judge, TypeOK, PlannerTyped
  <2>2. CASE Goto(p, "conflict") /\ run' = run
    BY <1>3, <2>1, <2>2 DEF Goto, TypeOK, Procs, InRow
  <2>3. CASE Set(p, Onward([run[p] EXCEPT !.stop = ~AllowPartial]))
    <3>1. run'[p].planned = run[p].planned /\ run'[p].stop = ~AllowPartial
      BY <2>1, <2>3 DEF Set, Onward, Run, TypeOK
    <3>2. QED BY <1>4, <2>1, <3>1
  <2>4. QED BY <1>14, <2>2, <2>3 DEF Judge
<1>15. CASE MarkConflict(p)
  <2>1. pc[p] = "conflict" /\ run[p] \in Run
    BY <1>15, SMTT(60) DEF MarkConflict, TypeOK, PlannerTyped
  <2>2. run'[p].planned = run[p].planned /\ run'[p].stop
    BY <1>15, <2>1 DEF MarkConflict, Set, Onward, Run, TypeOK
  <2>3. QED BY <1>4, <2>1, <2>2
<1>16. CASE RejectRow(p)
  <2>1. pc[p] = "row" /\ run[p] \in Run /\ pc'[p] = "next"
    BY <1>16 DEF RejectRow, AtEnd, Goto, TypeOK, PlannerTyped, Procs
  <2>2. run'[p].planned = run[p].planned
    BY <1>16, <2>1 DEF RejectRow, DropRow, Set, Run, TypeOK
  <2>3. QED BY <1>2, <2>1, <2>2 DEF InRow
<1>17. CASE PlanRow(p)
  <2>1. /\ pc[p] = "row" /\ run[p] \in Run /\ pc'[p] = "next" /\ ~run[p].stop
        /\ run[p].at > Len(NeedsOf[Current(p).row])
    BY <1>17 DEF PlanRow, AtEnd, Goto, TypeOK, PlannerTyped, Procs
  <2>2. NeedsOf[Current(p).row] \in Seq(Need) /\ run[p].at \in Nat
    BY <2>1, CurrentTyped, RunFields DEF InRow
  <2>3. DOMAIN NeedsOf[Current(p).row] \subseteq 1..(run[p].at - 1)
    BY <2>1, <2>2
  <2>4. Complete(Current(p))
    BY <2>1, <2>3 DEF CompleteInv, Complete, InRow
  <2> DEFINE d == [run[p] EXCEPT !.planned = IF run[p].errors THEN @
                                             ELSE @ \union {Current(p)}]
             c == [d EXCEPT !.queue = Tail(@), !.ran = TRUE]
  <2>5. run'[p] = c
    BY <1>17 DEF PlanRow, DropRow, Set, TypeOK
  <2>6. c.planned = d.planned
    BY <2>1 DEF Run
  <2>7. d.planned \subseteq run[p].planned \union {Current(p)}
    BY <2>1 DEF Run
  <2>8. QED BY <2>1, <2>4, <2>5, <2>6, <2>7 DEF CompleteInv, InRow
<1>18. CASE PlannerActs(p)
  BY <1>5, <1>6, <1>7, <1>8, <1>9, <1>10, <1>11, <1>12, <1>13, <1>14, <1>15, <1>16, <1>17, <1>18
  DEF PlannerActs, PlannerStep
<1>19. ASSUME NEW q \in Planners, PlannerActs(q), q # p PROVE Goal
  BY <1>1, <1>19, PlannerAlone DEF Procs
<1>20. ASSUME NEW s \in Syncers, SyncerActs(s) PROVE Goal
  BY <1>1, <1>20, SyncerAlone, LinkConstants DEF Procs
<1>21. CASE FallDue
  BY <1>1, <1>21 DEF FallDue
<1>22. QED BY <1>18, <1>19, <1>20, <1>21 DEF Next, PlannerActs, SyncerActs

\* Without partial rows, a row reaches a plan file only with an id for every one of its
\* references, in whatever order they were found, parked, confirmed or refused by the
\* topology, expired or closed by other commands (_resolve_links, should_stop).
THEOREM PlannedRowsAreCompleteCorrect == Spec => []PlannedRowsAreComplete
<1>1. Init => CompleteInv /\ PlannedRowsAreComplete
  BY DEF Init, CompleteInv, PlannedRowsAreComplete, InRow, Procs
<1>2. TypeOK /\ LinksInv /\ CompleteInv /\ PlannedRowsAreComplete /\ [Next]_vars
        => (CompleteInv /\ PlannedRowsAreComplete)'
  <2> SUFFICES ASSUME TypeOK, LinksInv, CompleteInv, PlannedRowsAreComplete, [Next]_vars
               PROVE  CompleteInv' /\ PlannedRowsAreComplete'
    OBVIOUS
  <2>1. CASE Next
    <3>1. TypeOK'
      BY <2>1, TypeStep
    <3>2. CompleteInv'
      BY <2>1, <3>1, CompleteStep, SMTT(60) DEF CompleteInv, Complete
    <3>3. plan' = plan \/ \E p \in Planners : /\ pc[p] = "next"
                                              /\ plan' = plan \union run[p].planned
      BY <2>1, ZenonT(60) DEF Next, PlannerStep, SyncerStep, StartRun, NextRow, SweepRead, SweepWrite,
           EndRun, SkipSolved, Resolve, Unresolved, ConfirmByTopology, ApplyTopologyPolicy,
           AddRead, Renew, Insert, Touch, Judge, MarkConflict, RejectRow, PlanRow,
           CrashPlanner, ApplyItem, RefreshItem, UpsertIdentity, ListPendingForKey,
           MarkResolved, CrashSyncer, FallDue
    <3>4. PlannedRowsAreComplete'
      BY <3>3 DEF PlannedRowsAreComplete, CompleteInv, Complete
    <3>5. QED BY <3>2, <3>4
  <2>2. CASE UNCHANGED vars
    BY <2>2 DEF vars, CompleteInv, PlannedRowsAreComplete, Complete, Current
  <2>3. QED BY <2>1, <2>2
<1>3. QED BY <1>1, <1>2, TypeCorrect, PTL DEF Spec

\* A key in the identity index stays there, a line resolved to the end is remembered,
\* and a link in use keeps its reference and its line.
Justified(l) == \/ Known(links[l].need)
                \/ \E r \in cleared : LineOf[r] = LineOf[links[l].row]

LEMMA HistoryGrows ==
  ASSUME Next
  PROVE  indexed \subseteq indexed' /\ cleared \subseteq cleared'
  BY ZenonT(60) DEF Next, PlannerStep, SyncerStep, StartRun, NextRow, SweepRead, SweepWrite,
         EndRun, SkipSolved, Resolve, Unresolved, ConfirmByTopology, ApplyTopologyPolicy,
         AddRead, Renew, Insert, Touch, Judge, MarkConflict, RejectRow, PlanRow,
         CrashPlanner, ApplyItem, RefreshItem, UpsertIdentity, ListPendingForKey,
         MarkResolved, CrashSyncer, FallDue

LEMMA JustifiedStays ==
  ASSUME Next, NEW l \in LinkIds, Stays(l), Justified(l)
  PROVE  Justified(l)'
  BY HistoryGrows DEF Justified, Stays, Known

LEMMA ResolvedStep ==
  ASSUME TypeOK, LinksInv, SyncInv, ResolvedIsJustified, Next, NEW l \in LinkIds,
         links'[l].status = "resolved"
  PROVE  Justified(l)'
<1>1. ASSUME links[l].status = "resolved", Stays(l) PROVE Justified(l)'
  BY <1>1, JustifiedStays DEF ResolvedIsJustified, Justified
<1>2. ASSUME links'[l] = links[l] PROVE Justified(l)'
  <2>1. links[l] # Absent
    BY <1>2 DEF Absent
  <2>2. QED BY <1>1, <1>2, <2>1 DEF Stays
<1>3. links[l] # Absent => links[l] \in Link
  BY DEF TypeOK
<1>4. ASSUME NEW p \in Planners, SweepWrite(p) PROVE Justified(l)'
  <2>1. CASE l \in run[p].ids
    <3>1. links'[l] = Closed(links[l], "expired") /\ links[l] # Absent
      BY <1>4, <2>1 DEF SweepWrite, Closed, LinksInv
    <3>2. QED BY <1>3, <3>1, LinkUpdates DEF Terminal
  <2>2. CASE l \notin run[p].ids
    BY <1>2, <1>4, <2>2 DEF SweepWrite
  <2>3. QED BY <2>1, <2>2
<1>5. ASSUME NEW p \in Planners, EndRun(p) PROVE Justified(l)'
  BY <1>2, <1>5 DEF EndRun, Absent
<1>6. ASSUME NEW p \in Planners, Renew(p) PROVE Justified(l)'
  <2>1. CASE l = run[p].link
    <3>1. links'[l] = Renewed(links[l], Current(p).row, Current(p).solved) /\ links[l] # Absent
      BY <1>6, <2>1 DEF Renew, TypeOK, Renewed, LinksInv
    <3>2. Current(p).row \in Rows /\ Current(p).solved \in SUBSET Nat
      BY <1>6, CurrentTyped DEF Renew, InRow
    <3>3. LineOf[links[l].row] = LineOf[Current(p).row]
      BY <1>6, <2>1 DEF Renew, LinksInv
    <3>4. links[l].status = "resolved" /\ Stays(l)
      BY <1>3, <3>1, <3>2, <3>3, LinkUpdates DEF Stays
    <3>5. QED BY <1>1, <3>4
  <2>2. CASE l # run[p].link
    BY <1>2, <1>6, <2>2 DEF Renew, TypeOK
  <2>3. QED BY <2>1, <2>2
<1>7. ASSUME NEW p \in Planners, Insert(p) PROVE Justified(l)'
  <2>1. l = nextLink => links'[l].status = "pending"
    BY <1>7 DEF Insert, TypeOK
  <2>2. l # nextLink => links'[l] = links[l]
    BY <1>7 DEF Insert, TypeOK
  <2>3. QED BY <1>2, <2>1, <2>2
<1>8. ASSUME NEW p \in Planners, Touch(p) PROVE Justified(l)'
  <2>1. CASE l = run[p].link
    <3>1. links'[l] = Touched(links[l]) /\ links[l] # Absent
      BY <1>8, <2>1 DEF Touch, TypeOK, Touched, LinksInv
    <3>2. links[l].status = "resolved" /\ Stays(l)
      BY <1>3, <3>1, LinkUpdates DEF Stays
    <3>3. QED BY <1>1, <3>2
  <2>2. CASE l # run[p].link
    BY <1>2, <1>8, <2>2 DEF Touch, TypeOK
  <2>3. QED BY <2>1, <2>2
<1>9. ASSUME NEW p \in Planners, MarkConflict(p) PROVE Justified(l)'
  <2>1. CASE l = run[p].link
    <3>1. links'[l] = Closed(links[l], "conflict") /\ links[l] # Absent
      BY <1>9, <2>1 DEF MarkConflict, TypeOK, Closed, LinksInv
    <3>2. QED BY <1>3, <3>1, LinkUpdates DEF Terminal
  <2>2. CASE l # run[p].link
    BY <1>2, <1>9, <2>2 DEF MarkConflict, TypeOK
  <2>3. QED BY <2>1, <2>2
<1>10. ASSUME NEW p \in Planners, PlanRow(p) PROVE Justified(l)'
  <2> DEFINE r == Current(p).row
  <2>1. CASE links'[l] = links[l]
    BY <1>2, <2>1
  <2>2. CASE links'[l] # links[l]
    <3>1. /\ l \in Pending /\ LineOf[links[l].row] = LineOf[r]
          /\ links'[l] = Closed(links[l], "resolved")
          /\ cleared' = cleared \union {r}
      BY <1>10, <2>2 DEF PlanRow, ClearSource, Closed
    <3>2. links[l] # Absent
      BY <3>1 DEF Pending, Absent
    <3>3. links'[l].row = links[l].row
      BY <1>3, <3>1, <3>2, LinkUpdates DEF Terminal
    <3>4. QED BY <3>1, <3>3 DEF Justified
  <2>3. QED BY <2>1, <2>2
<1>11. ASSUME NEW s \in Syncers, MarkResolved(s) PROVE Justified(l)'
  <2>1. CASE links'[l] = links[l]
    BY <1>2, <2>1
  <2>2. CASE links'[l] # links[l]
    <3>1. l \in sync[s].todo /\ links'[l] = Closed(links[l], "resolved") /\ indexed' = indexed
      BY <1>11, <2>2 DEF MarkResolved, Closed, TypeOK
    <3>2. links[l] # Absent /\ Known(links[l].need)
      BY <3>1 DEF LinksInv, SyncInv
    <3>3. links'[l].need = links[l].need
      BY <1>3, <3>1, <3>2, LinkUpdates DEF Terminal
    <3>4. QED BY <3>1, <3>2, <3>3 DEF Justified, Known
  <2>3. QED BY <2>1, <2>2
<1>12. QED
  BY <1>2, <1>4, <1>5, <1>6, <1>7, <1>8, <1>9, <1>10, <1>11, ZenonT(60)
  DEF Next, PlannerStep, SyncerStep, StartRun, NextRow, SweepRead, SkipSolved, Resolve,
      Unresolved, ConfirmByTopology, ApplyTopologyPolicy, AddRead, Judge, RejectRow,
      CrashPlanner, ApplyItem, RefreshItem, UpsertIdentity, ListPendingForKey,
      CrashSyncer, FallDue, store

LEMMA SyncStep ==
  ASSUME TypeOK, LinksInv, SyncInv, Next, NEW s \in Syncers
  PROVE  /\ pc'[s] \in {"list", "mark"} => sync'[s].row \in indexed'
         /\ \A l \in sync'[s].todo : Known(links[l].need)'
<1> DEFINE Goal == /\ pc'[s] \in {"list", "mark"} => sync'[s].row \in indexed'
                   /\ \A l \in sync'[s].todo : Known(links[l].need)'
<1>1. ASSUME NEW l \in sync[s].todo PROVE Known(links[l].need)'
  <2>1. l \in LinkIds /\ links[l] # Absent /\ Known(links[l].need)
    BY DEF TypeOK, LinksInv, SyncInv
  <2>2. l \in Held
    <3> DEFINE S == {sync[q].todo : q \in Syncers}
    <3>1. sync[s].todo \in S
      OBVIOUS
    <3>2. UNION S \subseteq Held
      BY Zenon DEF Held
    <3> HIDE DEF S
    <3>3. QED BY <3>1, <3>2
  <2>3. links'[l].need = links[l].need
    BY <2>1, <2>2, HeldStay DEF Stays
  <2>4. QED BY <2>1, <2>3, HistoryGrows DEF Known
<1>2. CASE pc'[s] = pc[s] /\ sync'[s] = sync[s]
  BY <1>1, <1>2, HistoryGrows DEF SyncInv
<1>3. CASE ApplyItem(s) \/ RefreshItem(s)
  BY <1>3 DEF ApplyItem, RefreshItem, Hold, Goto, TypeOK, Procs
<1>4. CASE UpsertIdentity(s)
  BY <1>1, <1>4 DEF UpsertIdentity, Goto, TypeOK, Procs
<1>5. CASE ListPendingForKey(s)
  <2>1. sync[s].row \in indexed /\ indexed' = indexed /\ links' = links
    BY <1>5 DEF ListPendingForKey, SyncInv, store
  <2>2. /\ sync'[s].row = sync[s].row
        /\ \A l \in sync'[s].todo : /\ links[l].need.target = HomeOf[sync[s].row]
                                    /\ links[l].need.lookup = LookupOf[sync[s].row]
    BY <1>5 DEF ListPendingForKey, Hold, TypeOK
  <2>3. QED BY <2>1, <2>2 DEF Known
<1>6. CASE MarkResolved(s) \/ CrashSyncer(s)
  <2>1. sync'[s].row = sync[s].row /\ sync'[s].todo \subseteq sync[s].todo
    BY <1>6 DEF MarkResolved, CrashSyncer, Hold, TypeOK
  <2>2. pc'[s] = "idle" \/ (pc[s] = "mark" /\ indexed' = indexed)
    BY <1>6 DEF MarkResolved, CrashSyncer, Goto, TypeOK, Procs
  <2>3. QED BY <1>1, <2>1, <2>2 DEF SyncInv
<1>7. ASSUME NEW p \in Planners, PlannerActs(p) PROVE Goal
  BY <1>2, <1>7, PlannerAlone, LinkConstants DEF Procs
<1>8. ASSUME NEW q \in Syncers, SyncerActs(q), q # s PROVE Goal
  BY <1>2, <1>8, SyncerAlone DEF Procs
<1>9. CASE SyncerActs(s)
  BY <1>3, <1>4, <1>5, <1>6, <1>9 DEF SyncerActs, SyncerStep
<1>10. CASE FallDue
  BY <1>2, <1>10 DEF FallDue
<1>11. QED BY <1>7, <1>8, <1>9, <1>10 DEF Next, PlannerActs, SyncerActs

\* A link is closed as resolved only after its key entered the identity index or after a
\* row of its line was resolved to the end (IdentityIndexSyncer.sync writes the index
\* before it lists the waiting links; mark_resolved_for_source comes last).
THEOREM ResolvedIsJustifiedCorrect == Spec => []ResolvedIsJustified
<1>1. Init => SyncInv /\ ResolvedIsJustified
  BY DEF Init, SyncInv, ResolvedIsJustified, NoSync, Absent, Procs
<1>2. TypeOK /\ LinksInv /\ SyncInv /\ ResolvedIsJustified /\ [Next]_vars
        => (SyncInv /\ ResolvedIsJustified)'
  <2> SUFFICES ASSUME TypeOK, LinksInv, SyncInv, ResolvedIsJustified, [Next]_vars
               PROVE  SyncInv' /\ ResolvedIsJustified'
    OBVIOUS
  <2>1. CASE Next
    BY <2>1, SyncStep, ResolvedStep DEF SyncInv, ResolvedIsJustified, Justified
  <2>2. CASE UNCHANGED vars
    BY <2>2 DEF vars, store, SyncInv, ResolvedIsJustified, Known
  <2>3. QED BY <2>1, <2>2
<1>3. QED BY <1>1, <1>2, TypeCorrect, PTL DEF Spec

-----------------------------------------------------------------------------
(* How often a reference waits, and how late its attempts are counted. *)

\* The links that wait for reference n of the line of row r, and the planners that
\* found none of them and are about to insert one.
Parked(r, n) == {k \in Pending : SameReference(k, r, n)}
SameNeed(m, n) == m.field = n.field /\ m.target = n.target /\ m.lookup = n.lookup
Inserting(r, n) == {p \in Planners : /\ pc[p] = "insert"
                                     /\ LineOf[Current(p).row] = LineOf[r]
                                     /\ SameNeed(Needed(p), n)}

\* Whoever inserts a link gives up a place among those that insert, and nobody takes
\* one while a link waits.
CrowdInv ==
  \A r \in Rows, n \in Need :
    Cardinality(Parked(r, n)) + Cardinality(Inserting(r, n)) <= Cardinality(Planners)

\* Whoever counts an attempt stays to judge it.
AttemptsInv ==
  \A l \in Pending : links[l].attempts < MaxAttempts + Cardinality(Judging(l)) + crashes

LEMMA CardsTyped ==
  ASSUME TypeOK
  PROVE  /\ IsFiniteSet(Planners) /\ Cardinality(Planners) \in Nat
         /\ \A S \in SUBSET Planners :
              /\ IsFiniteSet(S) /\ Cardinality(S) \in Nat
              /\ Cardinality(S) <= Cardinality(Planners)
         /\ \A S \in SUBSET LinkIds : IsFiniteSet(S) /\ Cardinality(S) \in Nat
<1>1. IsFiniteSet(Planners) /\ IsFiniteSet(LinkIds)
  BY LinkConstants, FS_Interval DEF LinkIds
<1>2. QED BY <1>1, FS_CardinalityType, FS_Subset

\* A link that waits waited before, for the same reference of the same line, or was
\* inserted just now; only the planner that touches it counts an attempt.
Counted(l) == \E p \in Planners : /\ Touch(p) /\ run[p].link = l
                                  /\ links'[l].attempts = links[l].attempts + 1
Came(l) == \E p \in Planners :
             /\ Insert(p) /\ l = nextLink
             /\ links'[l].attempts = 0 /\ links'[l].need = Needed(p)
             /\ links'[l].row = Current(p).row /\ links' = [links EXCEPT ![l] = links'[l]]

LEMMA WaitingStep ==
  ASSUME TypeOK, LinksInv, Next, NEW l \in Pending'
  PROVE  \/ /\ l \in Pending /\ Stays(l)
            /\ links'[l].attempts = links[l].attempts \/ Counted(l)
         \/ Came(l)
<1>1. l \in LinkIds /\ links'[l].status = "pending"
  BY DEF Pending, LinkIds
<1> DEFINE Goal == \/ /\ l \in Pending /\ Stays(l)
                      /\ links'[l].attempts = links[l].attempts \/ Counted(l)
                   \/ Came(l)
<1>2. ASSUME links'[l] = links[l] PROVE Goal
  BY <1>1, <1>2 DEF Pending, Stays, Absent
<1>3. links[l] # Absent => links[l] \in Link
  BY <1>1 DEF TypeOK
<1>4. ASSUME NEW p \in Planners, SweepWrite(p) PROVE Goal
  <2>1. CASE l \in run[p].ids
    <3>1. links'[l] = Closed(links[l], "expired") /\ links[l] # Absent
      BY <1>1, <1>4, <2>1 DEF SweepWrite, Closed, LinksInv
    <3>2. links'[l].status = "expired"
      BY <1>3, <3>1, LinkUpdates DEF Terminal
    <3>3. QED BY <1>1, <3>2
  <2>2. CASE l \notin run[p].ids
    BY <1>1, <1>2, <1>4, <2>2 DEF SweepWrite
  <2>3. QED BY <2>1, <2>2
<1>5. ASSUME NEW p \in Planners, EndRun(p) PROVE Goal
  <2>1. links'[l] = links[l]
    BY <1>1, <1>5 DEF EndRun, Absent
  <2>2. QED BY <1>2, <2>1
<1>6. ASSUME NEW p \in Planners, Renew(p) PROVE Goal
  <2>1. CASE l = run[p].link
    <3>1. links'[l] = Renewed(links[l], Current(p).row, Current(p).solved) /\ links[l] # Absent
      BY <1>1, <1>6, <2>1 DEF Renew, TypeOK, Renewed, LinksInv
    <3>2. Current(p).row \in Rows /\ Current(p).solved \in SUBSET Nat
      BY <1>6, CurrentTyped DEF Renew, InRow
    <3>3. LineOf[links[l].row] = LineOf[Current(p).row]
      BY <1>6, <2>1 DEF Renew, LinksInv
    <3>4. links[l].status = "pending" /\ Stays(l)
      BY <1>1, <1>3, <3>1, <3>2, <3>3, LinkUpdates DEF Stays
    <3>5. links'[l].attempts = links[l].attempts
      BY <1>3, <3>1 DEF Renewed, Link
    <3>6. QED BY <1>1, <3>4, <3>5 DEF Pending
  <2>2. CASE l # run[p].link
    <3>1. links'[l] = links[l]
      BY <1>1, <1>6, <2>2 DEF Renew, TypeOK
    <3>2. QED BY <1>2, <3>1
  <2>3. QED BY <2>1, <2>2
<1>7. ASSUME NEW p \in Planners, Insert(p) PROVE Goal
  <2>1. CASE l = nextLink
    <3>1. /\ links'[l].attempts = 0 /\ links'[l].need = Needed(p)
          /\ links'[l].row = Current(p).row
      BY <1>1, <1>7, <2>1 DEF Insert, TypeOK
    <3>2. links' = [links EXCEPT ![l] = links'[l]]
      BY <1>1, <1>7, <2>1 DEF Insert, TypeOK
    <3>3. QED BY <1>7, <2>1, <3>1, <3>2 DEF Came
  <2>2. CASE l # nextLink
    <3>1. links'[l] = links[l]
      BY <1>1, <1>7, <2>2 DEF Insert, TypeOK
    <3>2. QED BY <1>2, <3>1
  <2>3. QED BY <2>1, <2>2
<1>8. ASSUME NEW p \in Planners, Touch(p) PROVE Goal
  <2>1. CASE l = run[p].link
    <3>1. links'[l] = Touched(links[l]) /\ links[l] # Absent
      BY <1>1, <1>8, <2>1 DEF Touch, TypeOK, Touched, LinksInv
    <3>2. links[l].status = "pending" /\ Stays(l)
      BY <1>1, <1>3, <3>1, LinkUpdates DEF Stays
    <3>3. links'[l].attempts = links[l].attempts + 1
      BY <1>3, <3>1 DEF Touched, Link
    <3>4. QED BY <1>1, <1>8, <2>1, <3>2, <3>3 DEF Pending, Counted
  <2>2. CASE l # run[p].link
    <3>1. links'[l] = links[l]
      BY <1>1, <1>8, <2>2 DEF Touch, TypeOK
    <3>2. QED BY <1>2, <3>1
  <2>3. QED BY <2>1, <2>2
<1>9. ASSUME NEW p \in Planners, MarkConflict(p) PROVE Goal
  <2>1. CASE l = run[p].link
    <3>1. links'[l] = Closed(links[l], "conflict") /\ links[l] # Absent
      BY <1>1, <1>9, <2>1 DEF MarkConflict, TypeOK, Closed, LinksInv
    <3>2. links'[l].status = "conflict"
      BY <1>3, <3>1, LinkUpdates DEF Terminal
    <3>3. QED BY <1>1, <3>2
  <2>2. CASE l # run[p].link
    <3>1. links'[l] = links[l]
      BY <1>1, <1>9, <2>2 DEF MarkConflict, TypeOK
    <3>2. QED BY <1>2, <3>1
  <2>3. QED BY <2>1, <2>2
<1>10. ASSUME NEW p \in Planners, PlanRow(p) PROVE Goal
  <2>1. CASE links'[l] = links[l]
    BY <1>2, <2>1
  <2>2. CASE links'[l] # links[l]
    <3>1. l \in Pending /\ links'[l] = Closed(links[l], "resolved")
      BY <1>1, <1>10, <2>2 DEF PlanRow, ClearSource, Closed
    <3>2. links[l] # Absent
      BY <3>1 DEF Pending, Absent
    <3>3. links'[l].status = "resolved"
      BY <1>3, <3>1, <3>2, LinkUpdates DEF Terminal
    <3>4. QED BY <1>1, <3>3
  <2>3. QED BY <2>1, <2>2
<1>11. ASSUME NEW s \in Syncers, MarkResolved(s) PROVE Goal
  <2>1. CASE links'[l] = links[l]
    BY <1>2, <2>1
  <2>2. CASE links'[l] # links[l]
    <3>1. l \in sync[s].todo /\ links'[l] = Closed(links[l], "resolved")
      BY <1>1, <1>11, <2>2 DEF MarkResolved, Closed, TypeOK
    <3>2. links[l] # Absent
      BY <3>1 DEF LinksInv
    <3>3. links'[l].status = "resolved"
      BY <1>3, <3>1, <3>2, LinkUpdates DEF Terminal
    <3>4. QED BY <1>1, <3>3
  <2>3. QED BY <2>1, <2>2
<1>12. ASSUME links' = links PROVE Goal
  BY <1>2, <1>12
<1> HIDE DEF Goal
<1>13. Goal
  BY <1>4, <1>5, <1>6, <1>7, <1>8, <1>9, <1>10, <1>11, <1>12, ZenonT(60)
  DEF Next, PlannerStep, SyncerStep, StartRun, NextRow, SweepRead, SkipSolved, Resolve,
      Unresolved, ConfirmByTopology, ApplyTopologyPolicy, AddRead, Judge, RejectRow,
      CrashPlanner, ApplyItem, RefreshItem, UpsertIdentity, ListPendingForKey,
      CrashSyncer, FallDue, store
<1>14. QED BY <1>13 DEF Goal

\* A planner that judges a link gives it up only if its attempts are not exhausted, or
\* it closes it, or it dies.
LEMMA JudgingStep ==
  ASSUME TypeOK, Next, NEW l \in LinkIds, links'[l].status = "pending",
         NEW p \in Judging(l), p \notin Judging(l)'
  PROVE  \/ links'[l] = links[l] /\ links[l].attempts < MaxAttempts
         \/ /\ links' = links /\ crashes' = crashes + 1
            /\ Judging(l) \ {p} \subseteq Judging(l)'
<1>1. p \in Planners /\ pc[p] \in {"judge", "conflict"} /\ run[p].link = l
  BY DEF Judging
<1>2. ~(pc'[p] = pc[p] /\ run'[p] = run[p])
  BY <1>1 DEF Judging
<1>3. PlannerActs(p)
  <2>1. ASSUME NEW q \in Planners, PlannerActs(q) PROVE q = p
    BY <1>1, <1>2, <2>1, PlannerAlone DEF Procs
  <2>2. ASSUME NEW s \in Syncers, SyncerActs(s) PROVE FALSE
    BY <1>1, <1>2, <2>2, SyncerAlone, LinkConstants DEF Procs
  <2>3. ~FallDue
    BY <1>2 DEF FallDue
  <2>4. QED BY <2>1, <2>2, <2>3 DEF Next, PlannerActs, SyncerActs
<1>4. Judge(p) \/ MarkConflict(p) \/ CrashPlanner(p)
  BY <1>1, <1>3, ZenonT(60) DEF PlannerActs, PlannerStep, StartRun, NextRow, SweepRead, SweepWrite,
     EndRun, SkipSolved, Resolve, Unresolved, ConfirmByTopology, ApplyTopologyPolicy, AddRead,
     Renew, Insert, Touch, RejectRow, PlanRow, AtLink, AtEnd
<1>5. CASE Judge(p)
  <2>1. ~(links[l].attempts >= MaxAttempts)
    BY <1>1, <1>2, <1>5 DEF Judge, Goto, TypeOK, Procs, Judging
  <2>2. links' = links
    BY <1>5 DEF Judge, store
  <2>3. links[l].attempts \in Nat /\ MaxAttempts \in Nat
    <3>1. links[l] \in Link
      BY <2>2 DEF TypeOK, Absent
    <3>2. QED BY <3>1, LinkConstants DEF Link
  <2>4. QED BY <2>1, <2>2, <2>3
<1>6. CASE MarkConflict(p)
  <2>1. links'[l] = Closed(links[l], "conflict")
    BY <1>1, <1>6 DEF MarkConflict, TypeOK, Closed
  <2>2. links[l] \in Link \/ links[l] = Absent
    BY DEF TypeOK
  <2>3. links'[l].status = "conflict"
    BY <2>1, <2>2 DEF Closed, Link, Absent
  <2>4. QED BY <2>3
<1>7. CASE CrashPlanner(p)
  <2>1. links' = links /\ crashes' = crashes + 1
    BY <1>7 DEF CrashPlanner, store
  <2>2. \A q \in Planners : q # p => pc'[q] = pc[q] /\ run'[q] = run[q]
    BY <1>1, <1>3, PlannerAlone DEF Procs
  <2>3. QED BY <2>1, <2>2 DEF Judging
<1>8. QED BY <1>4, <1>5, <1>6, <1>7

LEMMA AttemptsStep ==
  ASSUME TypeOK, LinksInv, AttemptsInv, Next, TypeOK', NEW l \in Pending'
  PROVE  links'[l].attempts < MaxAttempts + Cardinality(Judging(l)') + crashes'
<1> DEFINE before == Cardinality(Judging(l))
           after == Cardinality(Judging(l)')
<1>1. /\ Judging(l) \subseteq Planners /\ Judging(l)' \subseteq Planners
      /\ l \in LinkIds /\ links'[l].status = "pending"
  BY DEF Judging, Pending, LinkIds
<1>2. /\ before \in Nat /\ after \in Nat /\ crashes \in Nat /\ crashes' \in Nat
      /\ MaxAttempts \in Nat /\ MaxAttempts > 0
      /\ IsFiniteSet(Judging(l)) /\ IsFiniteSet(Judging(l)')
  BY <1>1, CardsTyped, LinkConstants DEF TypeOK
<1>3. crashes' >= crashes
  <2>1. crashes' = crashes \/ crashes' = crashes + 1
    BY ZenonT(60) DEF Next, PlannerStep, SyncerStep, StartRun, NextRow, SweepRead, SweepWrite,
       EndRun, SkipSolved, Resolve, Unresolved, ConfirmByTopology, ApplyTopologyPolicy,
       AddRead, Renew, Insert, Touch, Judge, MarkConflict, RejectRow, PlanRow,
       CrashPlanner, ApplyItem, RefreshItem, UpsertIdentity, ListPendingForKey,
       MarkResolved, CrashSyncer, FallDue
  <2>2. QED BY <1>2, <2>1
<1>4. CASE Came(l)
  <2>1. links'[l].attempts = 0
    BY <1>4 DEF Came
  <2>2. 0 < MaxAttempts + after + crashes'
    <3>1. \A x, y, z \in Nat : x > 0 => 0 < x + y + z
      OBVIOUS
    <3>2. QED BY <1>2, <3>1
  <2>3. QED BY <2>1, <2>2
<1>5. CASE l \in Pending /\ links'[l].attempts = links[l].attempts
  <2>1. links[l].attempts < MaxAttempts + before + crashes /\ links[l].attempts \in Nat
    <3>1. links[l] \in Link
      BY <1>5 DEF Pending, TypeOK, Absent
    <3>2. QED BY <1>5, <3>1 DEF AttemptsInv, Link
  <2>2. CASE Judging(l) \subseteq Judging(l)'
    <3>1. before <= after
      BY <1>2, <2>2, FS_Subset
    <3> HIDE DEF before, after
    <3>2. links'[l].attempts < MaxAttempts + after + crashes'
      BY <1>2, <1>3, <1>5, <2>1, <3>1
    <3>3. QED BY <3>2 DEF after
  <2>3. ASSUME NEW p \in Judging(l), p \notin Judging(l)'
        PROVE  links'[l].attempts < MaxAttempts + after + crashes'
    <3>1. CASE links[l].attempts < MaxAttempts
      <4> HIDE DEF before, after
      <4>1. QED BY <1>2, <1>5, <2>1, <3>1
    <3>2. CASE crashes' = crashes + 1 /\ Judging(l) \ {p} \subseteq Judging(l)'
      <4>1. Cardinality(Judging(l) \ {p}) = before - 1
        BY <1>2, <2>3, FS_RemoveElement
      <4>2. before - 1 <= after
        BY <1>2, <3>2, <4>1, FS_Subset
      <4> HIDE DEF before, after
      <4>3. QED BY <1>2, <1>5, <2>1, <3>2, <4>2
    <3>3. QED BY <1>1, <2>3, <3>1, <3>2, JudgingStep
  <2>4. QED BY <2>2, <2>3
<1>6. CASE l \in Pending /\ Counted(l)
  <2>1. PICK p \in Planners : /\ Touch(p) /\ run[p].link = l
                              /\ links'[l].attempts = links[l].attempts + 1
    BY <1>6 DEF Counted
  <2>2. pc[p] = "touch" /\ pc'[p] = "judge" /\ run' = run /\ crashes' = crashes
    BY <2>1 DEF Touch, Goto, TypeOK, Procs
  <2>3. \A q \in Planners : q # p => pc'[q] = pc[q]
    BY <2>1, PlannerAlone DEF PlannerActs, PlannerStep, Procs
  <2>4. Judging(l)' = Judging(l) \cup {p} /\ p \notin Judging(l)
    BY <2>1, <2>2, <2>3 DEF Judging
  <2>5. after = before + 1
    BY <1>2, <2>4, FS_AddElement
  <2>6. links[l].attempts < MaxAttempts + before + crashes /\ links[l].attempts \in Nat
    <3>1. links[l] \in Link
      BY <1>6 DEF Pending, TypeOK, Absent
    <3>2. QED BY <1>6, <3>1 DEF AttemptsInv, Link
  <2> HIDE DEF before, after
  <2>7. links'[l].attempts < MaxAttempts + after + crashes'
    BY <1>2, <2>1, <2>2, <2>5, <2>6
  <2>8. QED BY <2>7 DEF after
<1>7. QED BY <1>4, <1>5, <1>6, WaitingStep

\* Only a planner that finds no waiting link goes on to insert one.
LEMMA InsertingStep ==
  ASSUME TypeOK, Next, NEW r \in Rows, NEW n \in Need, NEW p \in Inserting(r, n)',
         p \notin Inserting(r, n)
  PROVE  AddRead(p) /\ Parked(r, n) = {} /\ links' = links
<1>1. p \in Planners /\ pc'[p] = "insert"
  BY DEF Inserting
<1>2. ~(pc'[p] = pc[p] /\ run'[p] = run[p])
  BY <1>1 DEF Inserting, Current, Needed
<1>3. PlannerActs(p)
  <2>1. ASSUME NEW q \in Planners, PlannerActs(q) PROVE q = p
    BY <1>1, <1>2, <2>1, PlannerAlone DEF Procs
  <2>2. ASSUME NEW s \in Syncers, SyncerActs(s) PROVE FALSE
    BY <1>1, <1>2, <2>2, SyncerAlone, LinkConstants DEF Procs
  <2>3. ~FallDue
    BY <1>2 DEF FallDue
  <2>4. QED BY <2>1, <2>2, <2>3 DEF Next, PlannerActs, SyncerActs
<1>4. AddRead(p)
  <2>1. pc[p] \in PlannerLabels \union SyncerLabels
    BY <1>1 DEF TypeOK, Procs
  <2>2. \A label : Goto(p, label) => label = "insert"
    BY <1>1 DEF Goto, TypeOK, Procs
  <2>3. ASSUME pc' = pc PROVE pc[p] = "insert"
    BY <1>1, <2>3
  <2>4. QED BY <1>3, <2>2, <2>3, SMTT(60) DEF PlannerActs, PlannerStep, StartRun, NextRow, SweepRead,
     SweepWrite, EndRun, SkipSolved, Resolve, Unresolved, ConfirmByTopology, ApplyTopologyPolicy,
     Renew, Insert, Touch, Judge, MarkConflict, RejectRow, PlanRow, CrashPlanner,
     AtLink, AtEnd
<1>5. links' = links
  BY <1>4 DEF AddRead, store
<1>6. /\ run' = run
      /\ {l \in Pending : SameReference(l, Current(p).row, Needed(p))} = {}
  BY <1>1, <1>4, SMTT(60) DEF AddRead, Goto, TypeOK, Procs
<1>7. /\ LineOf[Current(p).row] = LineOf[r] /\ SameNeed(Needed(p), n)
  BY <1>6 DEF Inserting, Current, Needed
<1>8. Parked(r, n) = {}
  BY <1>6, <1>7 DEF Parked, SameReference, SameNeed
<1>9. QED BY <1>4, <1>5, <1>8

LEMMA CrowdStep ==
  ASSUME TypeOK, LinksInv, CrowdInv, Next, TypeOK', NEW r \in Rows, NEW n \in Need
  PROVE  Cardinality(Parked(r, n)') + Cardinality(Inserting(r, n)') <= Cardinality(Planners)
<1> DEFINE P == Parked(r, n)
           I == Inserting(r, n)
           Q == Parked(r, n)'
           J == Inserting(r, n)'
<1>1. P \subseteq LinkIds /\ Q \subseteq LinkIds /\ I \subseteq Planners /\ J \subseteq Planners
  BY DEF Parked, Inserting, Pending, LinkIds
<1>2. /\ \A S \in {P, Q, I, J} : IsFiniteSet(S) /\ Cardinality(S) \in Nat
      /\ Cardinality(J) <= Cardinality(Planners) /\ Cardinality(Planners) \in Nat
      /\ Cardinality(P) + Cardinality(I) <= Cardinality(Planners)
  BY <1>1, CardsTyped DEF CrowdInv
<1>3. ASSUME NEW l \in Q, l \notin P
      PROVE  \E p \in I : Insert(p) /\ l = nextLink
  <2>1. l \in Pending' /\ SameReference(l, r, n)'
    BY <1>3 DEF Parked
  <2>2. ~(l \in Pending /\ Stays(l))
    BY <1>3, <2>1 DEF Parked, SameReference, Stays, LinksInv, Pending, Absent
  <2>3. PICK p \in Planners : /\ Insert(p) /\ l = nextLink /\ links'[l].need = Needed(p)
                              /\ links'[l].row = Current(p).row
    BY <2>1, <2>2, WaitingStep DEF Came
  <2>4. p \in I
    BY <2>1, <2>3 DEF Insert, Inserting, SameReference, SameNeed
  <2>5. QED BY <2>3, <2>4
<1>4. CASE \E p \in J : p \notin I
  <2>1. P = {} /\ links' = links
    BY <1>4, InsertingStep
  <2>2. Q = {}
    BY <2>1 DEF Parked, Pending, SameReference
  <2> HIDE DEF P, I, Q, J
  <2>3. Cardinality(Q) = 0
    BY <2>2, FS_EmptySet
  <2>4. Cardinality(Q) + Cardinality(J) <= Cardinality(Planners)
    BY <1>2, <2>3
  <2>5. QED BY <2>4 DEF Q, J
<1>5. CASE J \subseteq I /\ Q \subseteq P
  <2> HIDE DEF P, I, Q, J
  <2>1. Cardinality(J) <= Cardinality(I) /\ Cardinality(Q) <= Cardinality(P)
    BY <1>2, <1>5, FS_Subset
  <2>2. Cardinality(Q) + Cardinality(J) <= Cardinality(Planners)
    BY <1>2, <2>1
  <2>3. QED BY <2>2 DEF Q, J
<1>6. ASSUME J \subseteq I, NEW p \in I, Insert(p), Q \subseteq P \cup {nextLink}
      PROVE  Cardinality(Q) + Cardinality(J) <= Cardinality(Planners)
  <2>1. p \in Planners /\ pc'[p] = "touch"
    BY <1>6 DEF Insert, Goto, TypeOK, Procs, Inserting
  <2>2. J \subseteq I \ {p}
    BY <1>6, <2>1 DEF Inserting
  <2> HIDE DEF P, I, Q, J
  <2>3. /\ IsFiniteSet(I \ {p}) /\ Cardinality(I \ {p}) = Cardinality(I) - 1
        /\ IsFiniteSet(P \cup {nextLink}) /\ Cardinality(P \cup {nextLink}) <= Cardinality(P) + 1
    <3>1. /\ IsFiniteSet(P) /\ IsFiniteSet(I) /\ p \in I
          /\ Cardinality(P) \in Nat /\ Cardinality(I) \in Nat
      BY <1>2, <1>6
    <3>2. IsFiniteSet(I \ {p}) /\ Cardinality(I \ {p}) = Cardinality(I) - 1
      BY <3>1, FS_RemoveElement
    <3>3. /\ IsFiniteSet(P \cup {nextLink})
          /\ Cardinality(P \cup {nextLink}) = IF nextLink \in P THEN Cardinality(P)
                                               ELSE Cardinality(P) + 1
      BY <3>1, FS_AddElement
    <3>4. QED BY <3>1, <3>2, <3>3
  <2>4. Cardinality(J) <= Cardinality(I) - 1 /\ Cardinality(Q) <= Cardinality(P) + 1
    <3>1. Cardinality(J) <= Cardinality(I \ {p})
      BY <2>2, <2>3, FS_Subset
    <3>2. Cardinality(Q) <= Cardinality(P \cup {nextLink})
      BY <1>6, <2>3, FS_Subset
    <3>3. IsFiniteSet(P \cup {nextLink}) => Cardinality(P \cup {nextLink}) \in Nat
      BY FS_CardinalityType
    <3>4. QED BY <1>2, <2>3, <3>1, <3>2, <3>3
  <2>5. QED BY <1>2, <2>4
<1>7. ASSUME J \subseteq I, ~(Q \subseteq P)
      PROVE  Cardinality(Q) + Cardinality(J) <= Cardinality(Planners)
  <2>1. PICK p \in I : Insert(p) /\ Q \subseteq P \cup {nextLink}
    BY <1>3, <1>7
  <2>2. QED BY <1>6, <1>7, <2>1
<1>8. QED BY <1>4, <1>5, <1>7

\* Overlapping runs count an attempt late and park a reference twice, but a waiting link
\* outlives its attempts only by the runs that judge it and those that died, and no
\* reference waits more often than there are planners (add_pending, touch_attempt).
THEOREM RacesAreBoundedCorrect == Spec => []RacesAreBounded
<1>1. Init => CrowdInv /\ AttemptsInv
  <2> SUFFICES ASSUME Init PROVE CrowdInv /\ AttemptsInv
    OBVIOUS
  <2>1. Pending = {}
    BY DEF Init, Pending, Absent
  <2>2. \A r \in Rows, n \in Need : Parked(r, n) = {} /\ Inserting(r, n) = {}
    BY <2>1 DEF Init, Parked, Inserting, Procs
  <2>3. Cardinality({}) = 0 /\ Cardinality(Planners) \in Nat
    BY FS_EmptySet, LinkConstants, FS_CardinalityType
  <2>4. CrowdInv
    BY <2>2, <2>3 DEF CrowdInv
  <2>5. QED BY <2>1, <2>4 DEF AttemptsInv
<1>2. TypeOK /\ LinksInv /\ CrowdInv /\ AttemptsInv /\ [Next]_vars /\ TypeOK'
        => (CrowdInv /\ AttemptsInv)'
  <2> SUFFICES ASSUME TypeOK, LinksInv, CrowdInv, AttemptsInv, [Next]_vars, TypeOK'
               PROVE  CrowdInv' /\ AttemptsInv'
    OBVIOUS
  <2>1. CASE Next
    BY <2>1, CrowdStep, AttemptsStep DEF CrowdInv, AttemptsInv
  <2>2. CASE UNCHANGED vars
    BY <2>2 DEF vars, store, CrowdInv, AttemptsInv, Parked, Inserting, Pending, Judging,
                SameReference, Current, Needed
  <2>3. QED BY <2>1, <2>2
<1>3. TypeOK /\ CrowdInv /\ AttemptsInv => RacesAreBounded
  <2> SUFFICES ASSUME TypeOK, CrowdInv, AttemptsInv, NEW l \in Pending
               PROVE  Cardinality(Twins(l)) <= Cardinality(Planners)
    BY DEF RacesAreBounded, AttemptsInv
  <2>1. links[l].row \in Rows /\ links[l].need \in Need
    <3>1. links[l] \in Link
      BY DEF Pending, TypeOK, Absent
    <3>2. QED BY <3>1 DEF Link
  <2> DEFINE P == Parked(links[l].row, links[l].need)
             I == Inserting(links[l].row, links[l].need)
  <2>2. P \subseteq LinkIds /\ I \subseteq Planners /\ Twins(l) = P
    BY DEF Parked, Inserting, Pending, Twins
  <2>3. Cardinality(P) + Cardinality(I) <= Cardinality(Planners)
    BY <2>1 DEF CrowdInv
  <2>4. Cardinality(P) \in Nat /\ Cardinality(I) \in Nat /\ Cardinality(Planners) \in Nat
    BY <2>2, CardsTyped
  <2> HIDE DEF P, I
  <2>5. QED BY <2>2, <2>3, <2>4
<1>4. QED BY <1>1, <1>2, <1>3, TypeCorrect, PTL DEF Spec

=============================================================================
