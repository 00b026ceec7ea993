---------------------------- MODULE PendingLinks ----------------------------
(***************************************************************************)
(* Deferred references between rows.  A row whose reference to another     *)
(* row cannot be looked up yet is parked in `pending_links` and replayed   *)
(* by a later planning run; the identity index records which rows exist    *)
(* in the target.  Both tables live in one SQLite file that is used with   *)
(* autocommit: the transaction around a resolve micro-batch belongs to the *)
(* cache database, so it protects none of the calls below, and every call  *)
(* of a planning, resolve, apply or cache-refresh command is a step of its *)
(* own that other commands interleave with.                                *)
(*                                                                         *)
(* A row is also the entity it becomes in the target.  `source_row_id` is  *)
(* the line of the source file, so rows of two datasets can share it.      *)
(* Time is abstract: an unanswered link may fall due at any moment, and a  *)
(* renewal of its expiry makes it not due again.  Where a link has several *)
(* candidates and the topology policy is for its field, any verdict of the *)
(* topology is possible: TopologyRun and DependencyTree are about which.   *)
(***************************************************************************)
EXTENDS Naturals, Sequences, FiniteSets

CONSTANTS
  Datasets, Rows, Lines, Lookups, Fields,
  HomeOf,        \* the dataset a row comes from
  LineOf,        \* its source_row_id
  LookupOf,      \* the identity key under which others refer to it
  NeedsOf,       \* its references, in the order of the link rules
  MaxAttempts,   \* pending_max_attempts
  AllowPartial,  \* pending_allow_partial
  TopologyField, \* the field of the topology link policy, not a field if none
  OnAmbiguous, OnMissing,  \* what it does without a verdict
  Planners,      \* processes that run `import-plan` or `resolve`
  Syncers,       \* processes that run `import-apply` or `cache refresh`
  InTarget,      \* rows that exist in the target from the start
  MaxRuns,       \* bound on the planning runs ever started
  MaxLinks       \* bound on the rows ever inserted into pending_links

Need == [field : Fields, target : Datasets, lookup : Lookups, hard : BOOLEAN]

ASSUME LinkConstants ==
  /\ IsFiniteSet(Rows)
  /\ HomeOf \in [Rows -> Datasets]
  /\ LineOf \in [Rows -> Lines]
  /\ LookupOf \in [Rows -> Lookups]
  /\ NeedsOf \in [Rows -> Seq(Need)]
  /\ InTarget \subseteq Rows
  /\ MaxAttempts \in Nat \ {0}
  /\ AllowPartial \in BOOLEAN
  /\ {OnAmbiguous, OnMissing} \subseteq {"skip", "pending", "hard_error"}
  /\ MaxRuns \in Nat
  /\ MaxLinks \in Nat
  /\ IsFiniteSet(Planners) /\ Planners \cap Syncers = {}

LinkIds  == 1..MaxLinks
Procs    == Planners \union Syncers
Terminal == {"resolved", "conflict", "expired"}

\* A pending_links row: the row serialised in its payload, the reference of
\* that row it stands for, the references already replaced by an id there.
Link   == [status : {"pending"} \union Terminal, row : Rows, need : Need,
           solved : SUBSET Nat, attempts : Nat]
Absent == [status |-> "absent"]

\* A row in the stream of a run, and a row of a plan.
Item == [row : Rows, solved : SUBSET Nat]

VARIABLES
  links,    \* the table pending_links
  due,      \* links whose expires_at has passed
  nextLink, \* the next AUTOINCREMENT id
  indexed,  \* identity_index: the rows it has an entry for
  target,   \* rows that exist in the target
  plan,     \* items of the plan files written so far
  pc,       \* where each process stands
  run,      \* the local variables of each planner
  sync,     \* the item a syncer works on and the links it still has to mark
  started,  \* number of planning runs started
  crashes,  \* history: number of planners that died
  cleared   \* history: rows for which mark_resolved_for_source was called

store == <<links, due, nextLink>>
vars  == <<store, indexed, target, plan, pc, run, sync, started, crashes,
           cleared>>

NoRun  == [mode |-> "none"]
NoSync == [row |-> "none", todo |-> {}]

Run == [mode    : {"plan", "resolve"},
        ds      : Datasets,
        queue   : Seq(Item),    \* rows still to resolve, the current one first
        batch   : SUBSET Rows,  \* the batch index: the rows of the source
        at      : Nat,          \* the link rule the current row is at
        link    : 0..MaxLinks,  \* the pending link it works on
        returns : BOOLEAN,      \* _resolve_links returns if the row must stop
        pended  : BOOLEAN,      \* pending_created
        stop    : BOOLEAN,      \* should_stop
        errors  : BOOLEAN,      \* the row has an error diagnostic
        planned : SUBSET Item,
        ran     : BOOLEAN,      \* a row was resolved since the last sweep
        swept   : BOOLEAN,      \* the expiry sweep ran in this run
        ids     : SUBSET LinkIds]

PlannerLabels == {"idle", "row", "add", "renew", "insert", "touch", "judge",
                  "conflict", "next", "sweep"}
SyncerLabels  == {"idle", "upsert", "list", "mark"}

\* Where a planner is busy with the first row of its queue.
InRow == {"row", "add", "renew", "insert", "touch", "judge", "conflict"}

PlannerTyped(label, c) ==
  /\ label \in PlannerLabels
  /\ label # "idle" => c \in Run
  /\ label \in InRow => c.queue # <<>> /\ c.at > 0
  /\ label \in InRow \ {"row"} => c.at \in DOMAIN NeedsOf[c.queue[1].row]
  /\ label \in {"renew", "touch", "judge", "conflict"} => c.link \in LinkIds

SyncerTyped(label, item) ==
  /\ label \in SyncerLabels
  /\ label # "idle" => item.row \in Rows

\* The tables have the types of their columns and each process those of the local
\* variables of its place (ensure_identity_schema, ResolveCore.resolve).
TypeOK ==
  /\ links \in [LinkIds -> Link \union {Absent}]
  /\ due \subseteq LinkIds
  /\ nextLink \in 1..(MaxLinks + 1)
  /\ indexed \subseteq Rows /\ target \subseteq Rows /\ cleared \subseteq Rows
  /\ plan \subseteq Item
  /\ pc \in [Procs -> PlannerLabels \union SyncerLabels]
  /\ run \in [Planners -> Run \union {NoRun}]
  /\ sync \in [Syncers -> [row : Rows \union {"none"}, todo : SUBSET LinkIds]]
  /\ \A p \in Planners : PlannerTyped(pc[p], run[p])
  /\ \A s \in Syncers : SyncerTyped(pc[s], sync[s])
  /\ started \in 0..MaxRuns
  /\ crashes \in Nat

Init ==
  /\ links = [l \in LinkIds |-> Absent]
  /\ due = {}
  /\ nextLink = 1
  /\ indexed = {}
  /\ target = InTarget
  /\ plan = {}
  /\ pc = [p \in Procs |-> "idle"]
  /\ run = [p \in Planners |-> NoRun]
  /\ sync = [s \in Syncers |-> NoSync]
  /\ started = 0
  /\ crashes = 0
  /\ cleared = {}

Pending == {l \in LinkIds : links[l].status = "pending"}

\* What add_pending's SELECT compares: dataset, source_row_id, field, key.
SameReference(l, r, n) ==
  /\ links[l] # Absent
  /\ LineOf[links[l].row] = LineOf[r]
  /\ links[l].need.field = n.field
  /\ links[l].need.target = n.target
  /\ links[l].need.lookup = n.lookup

Goto(p, label) == pc' = [pc EXCEPT ![p] = label]

-----------------------------------------------------------------------------
(* Starting and ending a planning run.                                      *)

InLineOrder(S) ==
  {q \in [1..Cardinality(S) -> S] :
     \A i, j \in DOMAIN q : i < j => LineOf[q[i].row] < LineOf[q[j].row]}

\* list_pending_rows: one payload for every waiting line of the dataset.  The
\* newest wins; its timestamps have whole seconds, so any of them may.
Waiting(d) == {l \in Pending : links[l].need.target = d}
Payload(l) == [row |-> links[l].row, solved |-> links[l].solved]
Replays(d) ==
  {{Payload(l) : l \in chosen} : chosen \in
     {C \in SUBSET Waiting(d) :
        \A l \in Waiting(d) : Cardinality({k \in C :
          LineOf[links[k].row] = LineOf[links[l].row]}) = 1}}

\* The replay is read before the source; then the source is buffered whole to
\* build the batch index, which also counts the rows that the matcher refused
\* (they fail at once and do not reach the link rules).
StartRun(p) ==
  /\ pc[p] = "idle"
  /\ started < MaxRuns
  /\ \E d \in Datasets, mode \in {"plan", "resolve"} :
     \E batch \in SUBSET {r \in Rows : HomeOf[r] = d} :
     \E fresh \in SUBSET batch :
     \E replay \in IF mode = "plan" THEN Replays(d) ELSE {{}} :
     \E first \in InLineOrder({[row |-> r, solved |-> {}] : r \in fresh}) :
     \E then \in InLineOrder(replay) :
       run' = [run EXCEPT ![p] =
         [mode |-> mode, ds |-> d, queue |-> first \o then,
          batch |-> batch, at |-> 1, link |-> 0, returns |-> FALSE,
          pended |-> FALSE, stop |-> FALSE, errors |-> FALSE, planned |-> {},
          ran |-> FALSE, swept |-> fresh = {} /\ replay = {}, ids |-> {}]]
  /\ started' = started + 1
  /\ Goto(p, "next")
  /\ UNCHANGED <<store, indexed, target, plan, sync, crashes, cleared>>

Set(p, new) == run' = [run EXCEPT ![p] = new]

NextRow(p) ==
  LET c == run[p] IN
  /\ pc[p] = "next" /\ c.queue # <<>>
  /\ Set(p, [c EXCEPT !.at = 1, !.pended = FALSE, !.stop = FALSE,
                      !.errors = FALSE])
  /\ Goto(p, "row")
  /\ UNCHANGED <<store, indexed, target, plan, sync, started, crashes, cleared>>

\* The end of a micro-batch: its hook sweeps the expired links, the first time
\* always and later once the sweep interval has passed.
SweepRead(p) ==
  LET expired == Pending \cap due IN
  /\ pc[p] = "next" /\ run[p].ran
  /\ Set(p, [run[p] EXCEPT !.ran = FALSE, !.swept = TRUE, !.ids = expired])
  /\ Goto(p, IF expired = {} THEN "next" ELSE "sweep")
  /\ UNCHANGED <<store, indexed, target, plan, sync, started, crashes, cleared>>

\* The UPDATE names the ids of the SELECT and looks at no status.
SweepWrite(p) ==
  /\ pc[p] = "sweep"
  /\ links' = [l \in LinkIds |-> IF l \in run[p].ids
                                 THEN [links[l] EXCEPT !.status = "expired"]
                                 ELSE links[l]]
  /\ Set(p, [run[p] EXCEPT !.ids = {}])
  /\ Goto(p, "next")
  /\ UNCHANGED <<due, nextLink, indexed, target, plan, sync, started, crashes,
                 cleared>>

\* Links a running command still refers to.  Retention is counted in days, so
\* a purge never meets a link that young.
Held == (UNION {run[p].ids \union {run[p].link} :
                  p \in {q \in Planners : pc[q] # "idle"}})
          \union (UNION {sync[s].todo : s \in Syncers})

\* import-plan writes the plan file; resolve purges old closed links instead.
EndRun(p) ==
  LET c == run[p] IN
  /\ pc[p] = "next" /\ c.queue = <<>> /\ c.swept
  /\ IF c.mode = "plan"
     THEN plan' = plan \union c.planned /\ UNCHANGED links
     ELSE /\ \E old \in SUBSET ({l \in LinkIds : links[l].status \in Terminal}
                                   \ Held) :
               links' = [l \in LinkIds |-> IF l \in old THEN Absent ELSE links[l]]
          /\ UNCHANGED plan
  /\ run' = [run EXCEPT ![p] = NoRun]
  /\ Goto(p, "idle")
  /\ UNCHANGED <<due, nextLink, indexed, target, sync, started, crashes, cleared>>

-----------------------------------------------------------------------------
(* Resolving one row: its link rules in order, then the row itself.         *)

Current(p) == Head(run[p].queue)
Needed(p)  == NeedsOf[Current(p).row][run[p].at]
AtLink(p)  == /\ pc[p] = "row" /\ run[p].at <= Len(NeedsOf[Current(p).row])
AtEnd(p)   == /\ pc[p] = "row" /\ run[p].at > Len(NeedsOf[Current(p).row])

\* build_batch_index: the ids of the rows of the source, by key, whatever dataset
\* the reference is to.
BatchHits(p, n) == {r \in run[p].batch : LookupOf[r] = n.lookup}

\* It hides the identity index when it hits.
Candidates(p, n) ==
  IF BatchHits(p, n) # {} THEN BatchHits(p, n)
  ELSE {r \in indexed : HomeOf[r] = n.target /\ LookupOf[r] = n.lookup}

\* A value that is an integer is an id and is not looked up, unless ids are what the
\* rule looks for.  Which of the values that were replaced are integers is left open,
\* so a replayed row may skip a reference it has solved, and may look it up again.
SkipSolved(p) ==
  /\ AtLink(p) /\ run[p].at \in Current(p).solved
  /\ Set(p, [run[p] EXCEPT !.at = @ + 1])
  /\ UNCHANGED <<store, indexed, target, plan, pc, sync, started, crashes,
                 cleared>>

Solved(p) == [run[p] EXCEPT !.queue[1].solved = @ \union {run[p].at}, !.at = @ + 1]

\* (mutant) a reference that is found withdraws the stop of an earlier one.
ResolveForgetsStop(p) ==
  /\ AtLink(p)
  /\ Cardinality(Candidates(p, Needed(p))) = 1
  /\ Set(p, [Solved(p) EXCEPT !.stop = FALSE])
  /\ UNCHANGED <<store, indexed, target, plan, pc, sync, started, crashes,
                 cleared>>

Resolve(p) ==
  /\ AtLink(p)
  /\ Cardinality(Candidates(p, Needed(p))) = 1
  /\ Set(p, Solved(p))
  /\ UNCHANGED <<store, indexed, target, plan, pc, sync, started, crashes,
                 cleared>>

\* _is_topology_link_enabled, and there is a choice.
ByTopology(p) ==
  /\ Cardinality(Candidates(p, Needed(p))) > 1
  /\ Needed(p).field = TopologyField

\* The topology confirms one of the candidates.
ConfirmByTopology(p) ==
  /\ AtLink(p) /\ ByTopology(p)
  /\ Set(p, Solved(p))
  /\ UNCHANGED <<store, indexed, target, plan, pc, sync, started, crashes,
                 cleared>>

DropRow(p, c) == Set(p, [c EXCEPT !.queue = Tail(@), !.ran = TRUE])

\* It confirms several or none: the row is refused, or parked, or treated as if the
\* topology had not been asked (Unresolved).
ApplyTopologyPolicy(p) ==
  /\ AtLink(p) /\ ByTopology(p)
  /\ \/ /\ "hard_error" \in {OnAmbiguous, OnMissing}
        /\ DropRow(p, run[p]) /\ Goto(p, "next")
     \/ /\ "pending" \in {OnAmbiguous, OnMissing}
        /\ Set(p, [run[p] EXCEPT !.returns = TRUE]) /\ Goto(p, "add")
  /\ UNCHANGED <<store, indexed, target, plan, sync, started, crashes, cleared>>

Unresolved(p) ==
  /\ AtLink(p)
  /\ Cardinality(Candidates(p, Needed(p))) # 1
  /\ ByTopology(p) => "skip" \in {OnAmbiguous, OnMissing}
  /\ IF Needed(p).hard
     THEN DropRow(p, run[p]) /\ Goto(p, "next")
     ELSE UNCHANGED run /\ Goto(p, "add")
  /\ UNCHANGED <<store, indexed, target, plan, sync, started, crashes, cleared>>

\* (mutant) add_pending inserts without looking for a waiting link.
AddReadFindsNone(p) ==
  /\ pc[p] = "add"
  /\ Goto(p, "insert")
  /\ UNCHANGED <<store, indexed, target, plan, run, sync, started, crashes,
                 cleared>>

\* add_pending: a SELECT, then an UPDATE or an INSERT.
AddRead(p) ==
  LET same == {l \in Pending : SameReference(l, Current(p).row, Needed(p))} IN
  /\ pc[p] = "add"
  /\ IF same = {}
     THEN UNCHANGED run /\ Goto(p, "insert")
     ELSE /\ \E l \in same : Set(p, [run[p] EXCEPT !.link = l])
          /\ Goto(p, "renew")
  /\ UNCHANGED <<store, indexed, target, plan, sync, started, crashes, cleared>>

Renew(p) ==
  LET l == run[p].link IN
  /\ pc[p] = "renew"
  /\ links' = [links EXCEPT ![l].row = Current(p).row,
                            ![l].solved = Current(p).solved]
  /\ due' = due \ {l}
  /\ Goto(p, "touch")
  /\ UNCHANGED <<nextLink, indexed, target, plan, run, sync, started, crashes,
                 cleared>>

Insert(p) ==
  /\ pc[p] = "insert" /\ nextLink <= MaxLinks
  /\ links' = [links EXCEPT ![nextLink] =
                 [status |-> "pending", row |-> Current(p).row,
                  need |-> Needed(p), solved |-> Current(p).solved,
                  attempts |-> 0]]
  /\ nextLink' = nextLink + 1
  /\ Set(p, [run[p] EXCEPT !.link = nextLink])
  /\ Goto(p, "touch")
  /\ UNCHANGED <<due, indexed, target, plan, sync, started, crashes, cleared>>

\* touch_attempt: an UPDATE, then a SELECT whose answer decides.
Touch(p) ==
  /\ pc[p] = "touch"
  /\ links' = [links EXCEPT ![run[p].link].attempts = @ + 1]
  /\ Goto(p, "judge")
  /\ UNCHANGED <<due, nextLink, indexed, target, plan, run, sync, started,
                 crashes, cleared>>

\* What follows a parked reference: the next rule, or nothing where the row must stop
\* and the topology parked it.
Onward(c) ==
  [c EXCEPT !.pended = TRUE, !.link = 0, !.returns = FALSE,
            !.at = IF c.returns /\ c.stop THEN Len(NeedsOf[c.queue[1].row]) + 1
                   ELSE @ + 1]

Judge(p) ==
  LET c == run[p]
      exhausted == links[c.link].attempts >= MaxAttempts IN
  /\ pc[p] = "judge"
  /\ IF exhausted
     THEN Goto(p, "conflict") /\ UNCHANGED run
     ELSE /\ Set(p, Onward([c EXCEPT !.stop = ~AllowPartial]))
          /\ Goto(p, "row")
  /\ UNCHANGED <<store, indexed, target, plan, sync, started, crashes, cleared>>

\* The loop over the link rules goes on after a conflict, too, but for a reference
\* the topology parked.
MarkConflict(p) ==
  LET c == run[p] IN
  /\ pc[p] = "conflict"
  /\ links' = [links EXCEPT ![c.link].status = "conflict"]
  /\ Set(p, Onward([c EXCEPT !.stop = TRUE, !.errors = TRUE]))
  /\ Goto(p, "row")
  /\ UNCHANGED <<due, nextLink, indexed, target, plan, sync, started, crashes,
                 cleared>>

\* (mutant) a row that is given up stays at the head of the stream.
RejectRowKeepsIt(p) ==
  /\ AtEnd(p)
  /\ Goto(p, "next")
  /\ UNCHANGED <<store, indexed, target, plan, run, sync, started, crashes,
                 cleared>>

\* should_stop: the row is given up, or its mutated fields or target id are
\* not valid.
RejectRow(p) ==
  /\ AtEnd(p)
  /\ DropRow(p, run[p])
  /\ Goto(p, "next")
  /\ UNCHANGED <<store, indexed, target, plan, sync, started, crashes, cleared>>

\* mark_resolved_for_source closes every waiting link of the line.
ClearSource(r) ==
  links' = [l \in LinkIds |->
              IF l \in Pending /\ LineOf[links[l].row] = LineOf[r]
              THEN [links[l] EXCEPT !.status = "resolved"]
              ELSE links[l]]

\* The plan takes the row unless it carries an error.
PlanRow(p) ==
  LET c == run[p]
      r == Current(p).row IN
  /\ AtEnd(p) /\ ~c.stop
  /\ DropRow(p, [c EXCEPT !.planned = IF c.errors THEN @
                                      ELSE @ \union {Current(p)}])
  /\ IF c.pended
     THEN UNCHANGED <<links, cleared>>
     ELSE ClearSource(r) /\ cleared' = cleared \union {r}
  /\ Goto(p, "next")
  /\ UNCHANGED <<due, nextLink, indexed, target, plan, sync, started, crashes>>

-----------------------------------------------------------------------------
(* Syncers: an apply that wrote a row to the target, or a cache refresh that *)
(* read it there, updates the identity index and closes the waiting links.   *)

Hold(s, new) == sync' = [sync EXCEPT ![s] = new]

ApplyItem(s) ==
  /\ pc[s] = "idle"
  /\ \E item \in plan : /\ target' = target \union {item.row}
                        /\ Hold(s, [row |-> item.row, todo |-> {}])
  /\ Goto(s, "upsert")
  /\ UNCHANGED <<store, indexed, plan, run, started, crashes, cleared>>

\* (mutant) the refresh closes links without writing the identity index.
RefreshItemSkipsIndex(s) ==
  /\ pc[s] = "idle"
  /\ \E r \in target : Hold(s, [row |-> r, todo |-> {}])
  /\ Goto(s, "list")
  /\ UNCHANGED <<store, indexed, target, plan, run, started, crashes, cleared>>

RefreshItem(s) ==
  /\ pc[s] = "idle"
  /\ \E r \in target : Hold(s, [row |-> r, todo |-> {}])
  /\ Goto(s, "upsert")
  /\ UNCHANGED <<store, indexed, target, plan, run, started, crashes, cleared>>

UpsertIdentity(s) ==
  /\ pc[s] = "upsert"
  /\ indexed' = indexed \union {sync[s].row}
  /\ Goto(s, "list")
  /\ UNCHANGED <<store, target, plan, run, sync, started, crashes, cleared>>

ListPendingForKey(s) ==
  LET r == sync[s].row
      waiting == {l \in Pending : /\ links[l].need.target = HomeOf[r]
                                  /\ links[l].need.lookup = LookupOf[r]} IN
  /\ pc[s] = "list"
  /\ Hold(s, [row |-> r, todo |-> waiting])
  /\ Goto(s, IF waiting = {} THEN "idle" ELSE "mark")
  /\ UNCHANGED <<store, indexed, target, plan, run, started, crashes, cleared>>

\* mark_resolved names an id and looks at no status.
MarkResolved(s) ==
  /\ pc[s] = "mark"
  /\ \E l \in sync[s].todo :
       /\ links' = [links EXCEPT ![l].status = "resolved"]
       /\ Hold(s, [sync[s] EXCEPT !.todo = @ \ {l}])
       /\ Goto(s, IF sync[s].todo = {l} THEN "idle" ELSE "mark")
  /\ UNCHANGED <<due, nextLink, indexed, target, plan, run, started, crashes,
                 cleared>>

-----------------------------------------------------------------------------
\* Time passes for an unanswered link.
FallDue ==
  /\ \E l \in Pending \ due : due' = due \union {l}
  /\ UNCHANGED <<links, nextLink, indexed, target, plan, pc, run, sync, started,
                 crashes, cleared>>

\* A process dies; what it had not written is lost.
CrashPlanner(p) ==
  /\ pc[p] # "idle"
  /\ run' = [run EXCEPT ![p] = NoRun]
  /\ Goto(p, "idle")
  /\ crashes' = crashes + 1
  /\ UNCHANGED <<store, indexed, target, plan, sync, started, cleared>>

CrashSyncer(s) ==
  /\ pc[s] # "idle"
  /\ sync' = [sync EXCEPT ![s].todo = {}]
  /\ Goto(s, "idle")
  /\ UNCHANGED <<store, indexed, target, plan, run, started, crashes, cleared>>

PlannerStep(p) ==
  \/ NextRow(p) \/ SweepRead(p) \/ SweepWrite(p) \/ EndRun(p)
  \/ SkipSolved(p) \/ Resolve(p) \/ Unresolved(p)
  \/ ConfirmByTopology(p) \/ ApplyTopologyPolicy(p)
  \/ AddRead(p) \/ Renew(p) \/ Insert(p) \/ Touch(p) \/ Judge(p)
  \/ MarkConflict(p) \/ RejectRow(p) \/ PlanRow(p)

SyncerStep(s) == UpsertIdentity(s) \/ ListPendingForKey(s) \/ MarkResolved(s)

Next ==
  \/ \E p \in Planners : StartRun(p) \/ PlannerStep(p) \/ CrashPlanner(p)
  \/ \E s \in Syncers : \/ ApplyItem(s) \/ RefreshItem(s)
                        \/ SyncerStep(s) \/ CrashSyncer(s)
  \/ FallDue

Spec == Init /\ [][Next]_vars

\* Within a command the next statement follows the last one; no command has to
\* be started, and no process has to die.
LiveSpec == /\ Spec
            /\ \A p \in Planners : WF_vars(PlannerStep(p))
            /\ \A s \in Syncers : WF_vars(SyncerStep(s))

-----------------------------------------------------------------------------
(* Properties.                                                              *)

Known(n) == \E r \in indexed : HomeOf[r] = n.target /\ LookupOf[r] = n.lookup

Complete(item) == DOMAIN NeedsOf[item.row] \subseteq item.solved

\* Without partial rows, a row reaches a plan file only when every one of its
\* references was replaced by an id, whatever the order in which its links
\* were found, parked, expired or closed by other commands (_resolve_links
\* and its should_stop flag).
PlannedRowsAreComplete ==
  ~AllowPartial => \A i \in plan : Complete(i)

\* A link is closed as resolved only after its key entered the identity index
\* or after a row of its line was resolved to the end (sync writes the index
\* before it lists the waiting links; mark_resolved_for_source comes last).
ResolvedIsJustified ==
  \A l \in LinkIds : links[l].status = "resolved" =>
    \/ Known(links[l].need)
    \/ \E r \in cleared : LineOf[r] = LineOf[links[l].row]

\* What keeps the two inductive.  A link that a process refers to is not purged,
\* nor is its id given to another, so it stays the same reference of the same line
\* (Held, AUTOINCREMENT).
LinksInv ==
  /\ \A l \in LinkIds : links[l] # Absent => l < nextLink
  /\ \A p \in Planners :
       /\ pc[p] \in {"renew", "touch", "judge", "conflict"} => links[run[p].link] # Absent
       /\ pc[p] = "renew" => LineOf[links[run[p].link].row] = LineOf[Current(p).row]
       /\ pc[p] # "idle" => \A l \in run[p].ids : links[l] # Absent
  /\ \A s \in Syncers : \A l \in sync[s].todo : links[l] # Absent

\* As long as a row need not stop, all references before the rule it is at are solved.
CompleteInv ==
  ~AllowPartial =>
    \A p \in Planners :
      /\ pc[p] # "idle" => \A i \in run[p].planned : Complete(i)
      /\ pc[p] \in InRow /\ ~run[p].stop => 1..(run[p].at - 1) \subseteq Current(p).solved

\* A syncer lists and marks what waits for a row that the index has.
SyncInv ==
  \A s \in Syncers :
    /\ pc[s] \in {"list", "mark"} => sync[s].row \in indexed
    /\ \A l \in sync[s].todo : Known(links[l].need)

\* Nothing locks pending_links between the statements of a run, so overlapping
\* runs may count an attempt late and park a reference twice; but a waiting
\* link outlives its attempts only by the runs that are judging it and those
\* that died before they judged it, and no reference waits more often than
\* there are planners (add_pending, touch_attempt, mark_conflict).
Judging(l) == {p \in Planners : /\ pc[p] \in {"judge", "conflict"}
                                /\ run[p].link = l}
Twins(l) == {k \in Pending : SameReference(k, links[l].row, links[l].need)}
RacesAreBounded ==
  \A l \in Pending :
    /\ links[l].attempts < MaxAttempts + Cardinality(Judging(l)) + crashes
    /\ Cardinality(Twins(l)) <= Cardinality(Planners)

\* Every planning run comes to its end, whatever waits, expires or is closed
\* under it (the loops over the replayed rows, link rules and sweeps).
RunEnds == \A p \in Planners : pc[p] # "idle" ~> pc[p] = "idle"

=============================================================================
