--------------------------- MODULE ApplyDelivery ---------------------------
(***************************************************************************)
(* Applying import plans to the target: ImportApplyService walks the items *)
(* of a plan file, the apply adapter fetches the secrets an item names     *)
(* from the vault, TargetGateway sends the request and decides on retries, *)
(* and a success updates the identity index and lets the retention service *)
(* delete the secrets that were only needed for the request.               *)
(*                                                                         *)
(* The target is an HTTP service outside this repository: a request may be *)
(* refused, served with the answer lost, or served long after the client   *)
(* gave up on it.  The process may die between any two steps and the same  *)
(* plan file may be applied again; other plans for the same people may     *)
(* have been made in the meantime.                                         *)
(***************************************************************************)
EXTENDS Integers, Sequences, FiniteSets

CONSTANTS Keys,        \* match keys: the people the plans are about
          Foreigner,   \* the key of somebody no plan is about
          Ids,         \* target ids
          Plans,       \* run ids of the planning runs, one plan file each
          Items,       \* Items[p]: the items of plan p, in file order
          None,
          MaxRetries,  \* retry_config.max_attempts: retries after the first try
          MaxApplies,  \* bound: how many times import-apply is started
          MaxLate      \* bound: requests still under way that nobody awaits

\* An item: whose record it is, the target_id chosen by the planner, whether
\* it names a secret, whether its lifecycle keeps that secret, and whether its
\* desired_state carries the id field of the identity index.
Item == [key: Keys, id: Ids, secret: BOOLEAN, kept: BOOLEAN, named: BOOLEAN]

ASSUME ApplyAssumption ==
  /\ Items \in [Plans -> Seq(Item)]
  /\ Foreigner \notin Keys
  /\ None \notin Keys \cup Ids \cup Plans
  /\ MaxRetries \in Nat /\ MaxApplies \in Nat /\ MaxLate \in Nat

\* A plan has one item for a person (OnePlannedPerIdentity of RowPipeline), and
\* the id that a desired_state carries is the one the cache holds for that
\* person, so that no other person has it in any plan.
ASSUME PlansAssumption ==
  \A p, q \in Plans : \A n \in DOMAIN Items[p], m \in DOMAIN Items[q] :
    /\ p = q /\ Items[p][n].key = Items[q][m].key => n = m
    /\ Items[p][n].named /\ Items[p][n].id = Items[q][m].id
       => Items[p][n].key = Items[q][m].key

VARIABLES
  target,     \* target[id]: the record stored under id, or None
  keysUnique, \* does the target refuse a second record with the same key?
  late,       \* requests the client gave up on that may still be served
  planned,    \* the plans whose files exist, in the order they were made
  stored,     \* vault_secrets: rows [key, run]; updated_at follows that order
  identity,   \* identity_index: the ids each key was recorded under
  waiting,    \* keys some pending link waits for
  applies,    \* how many times import-apply was started
  job,        \* volatile state of the import-apply process
  delivered,  \* history: <<plan, key>> of the items the target has served
  conflicted  \* history: <<plan, key>> of the items that met a taken id

vars == <<target, keysUnique, late, planned, stored, identity, waiting,
          applies, job, delivered, conflicted>>

External == <<target, keysUnique, late>>
Durable  == <<planned, stored, identity, waiting, applies>>
History  == <<delivered, conflicted>>

Written == [key: Keys, plan: Plans, apply: 0..MaxApplies,
            secret: Plans \cup {None}]
ForeignRecord == [key |-> Foreigner, plan |-> None, apply |-> 0, secret |-> None]

\* No record at all is none of the records.
ASSUME NoneIsNoRecord == None \notin Written \cup {ForeignRecord}

Request == [id: Ids, record: Written]
PCs     == {"idle", "item", "send", "reply", "sync", "retain", "next"}
Replies == {"none", "ok", "exists", "again", "rejected"}

Row     == [key: Keys, run: Plans]
Job     == [pc: PCs, plan: Plans \cup {None}, at: Nat, limit: Nat,
            dry: BOOLEAN, stop: BOOLEAN, id: Ids \cup {None},
            secret: Plans \cup {None}, retries: 0..MaxRetries, reply: Replies,
            answered: Ids \cup {None}, failed: BOOLEAN, ok: SUBSET Nat]

NoJob == [pc |-> "idle", plan |-> None, at |-> 0, limit |-> 0, dry |-> FALSE,
          stop |-> FALSE, id |-> None, secret |-> None, retries |-> 0,
          reply |-> "none", answered |-> None, failed |-> FALSE, ok |-> {}]

\* The ids that plans made up for people the cache did not know.
NewIds ==
  {id \in Ids : /\ \E p \in Plans : \E n \in DOMAIN Items[p] : Items[p][n].id = id
                /\ \A p \in Plans : \A n \in DOMAIN Items[p] :
                     Items[p][n].named => Items[p][n].id # id}

\* One of them may already belong to somebody else.
Init ==
  /\ target \in {[id \in Ids |-> None]} \cup
                {[id \in Ids |-> IF id = new THEN ForeignRecord ELSE None] : new \in NewIds}
  /\ keysUnique \in BOOLEAN
  /\ late = {}
  /\ planned = <<>>
  /\ stored = {}
  /\ identity = [k \in Keys |-> {}]
  /\ waiting = Keys
  /\ applies = 0
  /\ job = NoJob
  /\ delivered = {}
  /\ conflicted = {}

----------------------------------------------------------------------------
(* Planning and the vault                                                  *)

PlansMade == {planned[n] : n \in DOMAIN planned}

\* A planning run: the enricher stores the secrets of the rows under the run's
\* id, then the plan file is written.
StorePlan(p) ==
  /\ p \notin PlansMade
  /\ planned' = Append(planned, p)
  /\ stored' = stored \cup {[key |-> Items[p][n].key, run |-> p] :
                             n \in {m \in DOMAIN Items[p] : Items[p][m].secret}}
  /\ UNCHANGED <<External, identity, waiting, applies, job, History>>

\* get_secret finds the newest row with the item's match key, whichever planning
\* run stored it: n is the place of that run in planned.
Finds(it, n) ==
  /\ [key |-> it.key, run |-> planned[n]] \in stored
  /\ \A m \in DOMAIN planned :
       m > n => [key |-> it.key, run |-> planned[m]] \notin stored

----------------------------------------------------------------------------
(* The target service                                                      *)

\* A PUT is refused with "resource exists" when the id belongs to somebody else,
\* or when keys are unique and the person has a record under another id.
Taken(r) ==
  \/ /\ target[r.id] # None
     /\ target[r.id].key # r.record.key
  \/ /\ keysUnique
     /\ \E id \in Ids \ {r.id} : target[id] # None /\ target[id].key = r.record.key

Serve(r) ==
  IF Taken(r)
  THEN /\ conflicted' = conflicted \cup {<<r.record.plan, r.record.key>>}
       /\ UNCHANGED <<target, delivered>>
  ELSE /\ target' = [target EXCEPT ![r.id] = r.record]
       /\ delivered' = delivered \cup {<<r.record.plan, r.record.key>>}
       /\ UNCHANGED conflicted

----------------------------------------------------------------------------
(* import-apply: one plan, item by item                                    *)

TheItem == Items[job.plan][job.at]

TheRequest ==
  [id |-> job.id,
   record |-> [key |-> TheItem.key, plan |-> job.plan,
               apply |-> applies, secret |-> job.secret]]

StartApply(p, limit, dry, stop) ==
  /\ job.pc = "idle"
  /\ applies < MaxApplies
  /\ p \in PlansMade
  /\ applies' = applies + 1
  /\ job' = [NoJob EXCEPT !.pc = "item", !.plan = p, !.at = 1, !.limit = limit,
                          !.dry = dry, !.stop = stop]
  /\ UNCHANGED <<External, planned, stored, identity, waiting, History>>

\* What a failure of the current item does to the process.
ItemFails == job' = [job EXCEPT !.pc = "next", !.failed = TRUE]

\* to_request raises MissingRequiredSecretError: the vault has no such secret, or
\* cannot read or decrypt it.  The item fails unsent.
MissingSecret ==
  /\ job.pc = "item"
  /\ TheItem.secret
  /\ ItemFails
  /\ UNCHANGED <<External, Durable, History>>

\* The secret that goes into the payload of the current item.
Secrets ==
  IF TheItem.secret
  THEN {planned[n] : n \in {m \in DOMAIN planned : Finds(TheItem, m)}}
  ELSE {None}

DryItem ==
  /\ job.pc = "item" /\ job.dry
  /\ Secrets # {}
  /\ job' = [job EXCEPT !.pc = "next", !.ok = @ \cup {job.at}]
  /\ UNCHANGED <<External, Durable, History>>

\* to_request: the retries of an item all carry the payload built here.
BuildRequest ==
  /\ job.pc = "item" /\ ~job.dry
  /\ \E secret \in Secrets :
       job' = [job EXCEPT !.pc = "send", !.id = TheItem.id, !.retries = 0,
                          !.secret = secret]
  /\ UNCHANGED <<External, Durable, History>>

Hear(reply, answered) ==
  job' = [job EXCEPT !.pc = "reply", !.reply = reply, !.answered = answered]

\* One attempt, served and answered; the body of a success may or may not name
\* the record's id.
SendServed ==
  /\ job.pc = "send"
  /\ Serve(TheRequest)
  /\ IF Taken(TheRequest)
     THEN Hear("exists", None)
     ELSE \E answered \in {job.id, None} : Hear("ok", answered)
  /\ UNCHANGED <<keysUnique, late, Durable>>

\* One attempt, served, but the client cannot tell: the answer is lost, is a
\* 5xx, or has a status the operation does not expect (which no rule retries).
SendUnanswered ==
  /\ job.pc = "send"
  /\ Serve(TheRequest)
  /\ \E reply \in {"again", "rejected"} : Hear(reply, None)
  /\ UNCHANGED <<keysUnique, late, Durable>>

\* One attempt the target never serves: throttled, unreachable, or refused for
\* good (AUTH, PERMISSION, DATA, NOT_FOUND, a request the specification of the
\* target does not describe).
SendUnserved ==
  /\ job.pc = "send"
  /\ \E reply \in {"again", "rejected"} : Hear(reply, None)
  /\ UNCHANGED <<External, Durable, History>>

\* One attempt that times out while the request is still under way.
SendTimesOut ==
  /\ job.pc = "send"
  /\ Cardinality(late) < MaxLate
  /\ late' = late \cup {TheRequest}
  /\ Hear("again", None)
  /\ UNCHANGED <<target, keysUnique, Durable, History>>

LateArrives ==
  \E r \in late :
    /\ late' = late \ {r}
    /\ Serve(r)
    /\ UNCHANGED <<keysUnique, Durable, job>>

CanRetry == job.reply \in {"again", "exists"} /\ job.retries < MaxRetries

\* uuid4: ids nobody has used.
FreshIds ==
  {id \in Ids : /\ target[id] = None
                /\ id # job.id
                /\ \A p \in Plans : \A n \in DOMAIN Items[p] : Items[p][n].id # id
                /\ \A r \in late : r.id # id}

\* regenerate_target_id; which fresh id it is makes no difference, and every
\* instance has ids to spare.
NewId == CHOOSE id \in FreshIds : TRUE

\* Only a "resource exists" answer changes the request, by a new target id; the
\* attempts that follow keep it.
\* (mutant) the id is regenerated before every retry.
RetryAlwaysMutates ==
  /\ job.pc = "reply" /\ CanRetry /\ FreshIds # {}
  /\ job' = [job EXCEPT !.pc = "send", !.retries = @ + 1, !.reply = "none", !.id = NewId]
  /\ UNCHANGED <<External, Durable, History>>

\* (mutant) retries_used is not carried over to the next attempt.
RetryForgetsCount ==
  /\ job.pc = "reply" /\ CanRetry
  /\ job.reply = "exists" => FreshIds # {}
  /\ job' = [job EXCEPT !.pc = "send", !.reply = "none",
                        !.id = IF job.reply = "exists" THEN NewId ELSE @]
  /\ UNCHANGED <<External, Durable, History>>

Retry ==
  /\ job.pc = "reply" /\ CanRetry
  /\ job.reply = "exists" => FreshIds # {}
  /\ job' = [job EXCEPT !.pc = "send", !.retries = @ + 1, !.reply = "none",
                        !.id = IF job.reply = "exists" THEN NewId ELSE @]
  /\ UNCHANGED <<External, Durable, History>>

\* (mutant) the retention hook runs for failed items too.
GiveUpRetains ==
  /\ job.pc = "reply" /\ job.reply # "ok" /\ ~CanRetry
  /\ ItemFails
  /\ stored' = stored \ {[key |-> TheItem.key, run |-> job.plan]}
  /\ UNCHANGED <<External, planned, identity, waiting, applies, History>>

GiveUp ==
  /\ job.pc = "reply"
  /\ job.reply # "ok"
  /\ ~CanRetry
  /\ ItemFails
  /\ UNCHANGED <<External, Durable, History>>

\* (mutant) every final answer is taken for a success.
SucceedAnyway ==
  /\ job.pc = "reply"
  /\ job.reply = "ok" \/ ~CanRetry
  /\ job' = [job EXCEPT !.pc = "sync"]
  /\ UNCHANGED <<External, Durable, History>>

Succeed ==
  /\ job.pc = "reply"
  /\ job.reply = "ok"
  /\ job' = [job EXCEPT !.pc = "sync"]
  /\ UNCHANGED <<External, Durable, History>>

\* (mutant) the id of the plan is indexed whatever the answer says.
ResolvedIdOfPlan == TheItem.id

\* The id that goes into the index: from the answer, else from desired_state.
ResolvedId ==
  IF job.answered # None THEN job.answered
  ELSE IF TheItem.named THEN TheItem.id ELSE None

\* IdentityIndexSyncer.sync: the index entry, then the links waiting for it.
SyncIdentity ==
  /\ job.pc = "sync"
  /\ IF ResolvedId = None
     THEN UNCHANGED <<identity, waiting>>
     ELSE /\ identity' = [identity EXCEPT ![TheItem.key] = @ \cup {ResolvedId}]
          /\ waiting' = waiting \ {TheItem.key}
  /\ job' = [job EXCEPT !.pc = "retain"]
  /\ UNCHANGED <<External, planned, stored, applies, History>>

\* The retention service deletes the row of the plan's own run; an error of the
\* vault is counted and otherwise ignored.
Retain ==
  /\ job.pc = "retain"
  /\ \/ /\ TheItem.secret /\ ~TheItem.kept
        /\ stored' = stored \ {[key |-> TheItem.key, run |-> job.plan]}
     \/ UNCHANGED stored
  /\ job' = [job EXCEPT !.pc = "next", !.ok = @ \cup {job.at}]
  /\ UNCHANGED <<External, planned, identity, waiting, applies, History>>

\* An exception in the side effects: the item is reported as failed although the
\* target has served it.
SideEffectFails ==
  /\ job.pc \in {"sync", "retain"}
  /\ ItemFails
  /\ UNCHANGED <<External, Durable, History>>

NextItem ==
  /\ job.pc = "next"
  /\ job' = IF (job.stop /\ job.failed) \/ job.at >= job.limit
            THEN NoJob
            ELSE [NoJob EXCEPT !.pc = "item", !.plan = job.plan, !.limit = job.limit,
                               !.at = job.at + 1, !.dry = job.dry, !.stop = job.stop,
                               !.ok = job.ok]
  /\ UNCHANGED <<External, Durable, History>>

Crash ==
  /\ job.pc # "idle"
  /\ job' = NoJob
  /\ UNCHANGED <<External, Durable, History>>

ApplyStep ==
  \/ MissingSecret \/ DryItem \/ BuildRequest
  \/ SendServed \/ SendUnanswered \/ SendUnserved \/ SendTimesOut
  \/ Retry \/ GiveUp \/ Succeed
  \/ SyncIdentity \/ Retain \/ SideEffectFails \/ NextItem

Next ==
  \/ \E p \in Plans : StorePlan(p)
  \/ \E p \in Plans : \E limit \in 1..Len(Items[p]), dry, stop \in BOOLEAN :
        StartApply(p, limit, dry, stop)
  \/ ApplyStep
  \/ LateArrives
  \/ Crash

Spec == Init /\ [][Next]_vars

\* The process runs: nothing in it waits for anybody, and every request ends by
\* an answer or by the timeout of the HTTP client.
LiveSpec == Spec /\ WF_vars(ApplyStep)

----------------------------------------------------------------------------
(* Properties                                                              *)

\* Every variable has its type, and a job is at an item of its plan.
TypeOK ==
  /\ target \in [Ids -> Written \cup {ForeignRecord, None}]
  /\ keysUnique \in BOOLEAN
  /\ late \subseteq Request
  /\ planned \in Seq(Plans)
  /\ stored \subseteq Row
  /\ identity \in [Keys -> SUBSET Ids]
  /\ waiting \subseteq Keys
  /\ applies \in 0..MaxApplies
  /\ job \in Job
  /\ job.pc # "idle" => /\ job.plan \in PlansMade
                        /\ job.at \in 1..job.limit
                        /\ job.limit \in 1..Len(Items[job.plan])
  /\ job.pc \in {"send", "reply", "sync", "retain"} => job.id \in Ids
  /\ delivered \subseteq Plans \X Keys
  /\ conflicted \subseteq Plans \X Keys

\* One start of import-apply leaves at most one record per person, however many
\* attempts TargetGateway.execute made, whichever answers were lost or late and
\* however often the id was regenerated.
OneIdPerRun ==
  \A i, j \in Ids :
    /\ target[i] # None /\ target[j] # None
    /\ target[i].plan # None
    /\ target[i].apply = target[j].apply
    /\ target[i].key = target[j].key
    => i = j

\* Applying one plan file again - after a crash, a lost answer, a stop on the
\* first error - writes an item under the id the plan gave it, so it creates no
\* second record, unless the target once answered that this id was taken.
ReapplyIsIdempotent ==
  \A i, j \in Ids :
    /\ target[i] # None /\ target[j] # None
    /\ target[i].plan # None
    /\ target[i].plan = target[j].plan
    /\ target[i].key = target[j].key
    /\ <<target[i].plan, target[i].key>> \notin conflicted
    => i = j

\* The identity index never sends a link to somebody else's record: an entry made
\* by _sync_identity_index is an id under which the target holds that person, even
\* when the gateway replaced the id of the plan.
IdentityNamesOwner ==
  \A k \in Keys : \A id \in identity[k] :
    target[id] # None /\ target[id].key = k

\* The retention service deletes a secret only after the target has served the
\* item it was stored for: no order of crashes, lost answers and re-applications
\* loses the secret of a record that was never written.
SecretGoneMeansDelivered ==
  \A p \in PlansMade : \A n \in DOMAIN Items[p] :
    /\ Items[p][n].secret
    /\ [key |-> Items[p][n].key, run |-> p] \notin stored
    => <<p, Items[p][n].key>> \in delivered

\* What a real run counts as created or updated, the target has served.
ReportedMeansDelivered ==
  ~job.dry => \A n \in job.ok : <<job.plan, Items[job.plan][n].key>> \in delivered

\* A dry run sends nothing, deletes no secret and leaves the index and the
\* pending links alone, whatever other runs do meanwhile.
DryRunTouchesNothing ==
  [][job.dry /\ job'.dry =>
       /\ late' \subseteq late
       /\ delivered' # delivered => late' # late
       /\ stored \subseteq stored'
       /\ UNCHANGED <<identity, waiting>>]_vars

\* Every started application ends: retries are bounded over all kinds of fault
\* together, and no failure of an item keeps the loop at it.
ApplyEnds == job.pc # "idle" ~> job.pc = "idle"

============================================================================
