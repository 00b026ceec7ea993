------------------------ MODULE ApplyDelivery_proofs ------------------------
(***************************************************************************)
(* Proofs about ApplyDelivery for any plans, items, ids and bounds.        *)
(***************************************************************************)
EXTENDS ApplyDelivery, TLAPS

ItemStates == {"send", "reply", "sync", "retain"}

\* While an item is being worked on it is an item of a plan that was made.
LEMMA TheItemType ==
  ASSUME TypeOK, job.pc # "idle"
  PROVE  /\ job.plan \in Plans
         /\ job.at \in DOMAIN Items[job.plan]
         /\ TheItem \in Item
<1> USE ApplyAssumption DEF TypeOK, Job
<1>1. job.plan \in Plans
  BY DEF PlansMade
<1>2. Items[job.plan] \in Seq(Item)
  BY <1>1
<1>3. job.at \in DOMAIN Items[job.plan]
  BY <1>2
<1>4. QED BY <1>1, <1>2, <1>3 DEF TheItem

\* A process that does nothing is typed.
LEMMA NoJobType == NoJob \in Job
BY ApplyAssumption DEF NoJob, Job, PCs, Replies

\* The items of a plan are items.
LEMMA ItemsType ==
  ASSUME NEW p \in Plans
  PROVE  Len(Items[p]) \in Nat /\ \A n \in DOMAIN Items[p] : Items[p][n] \in Item
<1>1. Items[p] \in Seq(Item)
  BY ApplyAssumption
<1>2. QED BY <1>1

\* The secret of the payload is one that some planning run stored.
LEMMA SecretsType ==
  ASSUME TypeOK PROVE Secrets \subseteq Plans \cup {None}
BY DEF TypeOK, Secrets

\* The request of the current item is well formed.
LEMMA TheRequestType ==
  ASSUME TypeOK, job.pc \in ItemStates
  PROVE  TheRequest \in Request
<1>1. job.id \in Ids /\ job.secret \in Plans \cup {None} /\ applies \in 0..MaxApplies
  BY DEF TypeOK, Job, ItemStates
<1>2. job.plan \in Plans /\ TheItem.key \in Keys
  BY TheItemType DEF ItemStates, Item
<1>3. QED BY <1>1, <1>2 DEF TheRequest, Request, Written

\* Serving a request writes a well-formed record.
LEMMA ServeType ==
  ASSUME TypeOK, NEW r \in Request, Serve(r)
  PROVE  /\ target' \in [Ids -> Written \cup {ForeignRecord, None}]
         /\ delivered' \subseteq Plans \X Keys
         /\ conflicted' \subseteq Plans \X Keys
BY DEF TypeOK, Serve, Request, Written

\* An answer leaves the process typed and at its item.
LEMMA HearType ==
  ASSUME TypeOK, job.pc = "send", NEW reply \in Replies, NEW answered \in Ids \cup {None},
         Hear(reply, answered)
  PROVE  /\ job' \in Job
         /\ job'.pc = "reply" /\ job'.id = job.id /\ job'.plan = job.plan
         /\ job'.at = job.at /\ job'.limit = job.limit /\ job'.dry = job.dry
         /\ job'.ok = job.ok /\ job'.reply = reply
BY DEF TypeOK, Hear, Job, PCs

\* Every variable keeps its type, and the process stays within its plan.
THEOREM TypeCorrect == Spec => []TypeOK
<1> USE ApplyAssumption
<1>1. Init => TypeOK
  BY DEF Init, TypeOK, Job, NoJob, PCs, Replies, PlansMade
<1>2. TypeOK /\ [Next]_vars => TypeOK'
  <2> SUFFICES ASSUME TypeOK, [Next]_vars PROVE TypeOK'
    OBVIOUS
  <2> USE DEF External, Durable, History
  <2>1. ASSUME NEW p \in Plans, StorePlan(p) PROVE TypeOK'
    <3>1. planned' \in Seq(Plans)
      BY <2>1 DEF StorePlan, TypeOK
    <3>2. PlansMade \subseteq PlansMade'
      <4>1. DOMAIN planned \subseteq DOMAIN planned' /\ \A n \in DOMAIN planned : planned'[n] = planned[n]
        BY <2>1 DEF StorePlan, TypeOK
      <4>2. QED BY <4>1 DEF PlansMade
    <3>3. stored' \subseteq Row
      <4>1. \A n \in DOMAIN Items[p] : Items[p][n].key \in Keys
        BY ItemsType DEF Item
      <4>2. QED BY <2>1, <4>1 DEF StorePlan, TypeOK, Row
    <3>4. QED BY <2>1, <3>1, <3>2, <3>3 DEF StorePlan, TypeOK
  <2>2. ASSUME NEW p \in Plans, NEW limit \in 1..Len(Items[p]),
               NEW dry \in BOOLEAN, NEW stop \in BOOLEAN,
               StartApply(p, limit, dry, stop)
        PROVE  TypeOK'
    <3>1. limit \in Nat /\ limit >= 1
      BY ItemsType
    <3>2. job' \in Job /\ job'.pc = "item" /\ job'.plan = p /\ job'.at = 1 /\ job'.limit = limit
      BY <2>2, <3>1, NoJobType, ZenonT(60) DEF StartApply, Job, PCs
    <3>3. applies' \in 0..MaxApplies
      BY <2>2 DEF StartApply, TypeOK
    <3>4. QED BY <2>2, <3>1, <3>2, <3>3, SMTT(60) DEF StartApply, TypeOK, PlansMade
  <2>3. ASSUME ItemFails, job.pc # "idle",
               UNCHANGED <<External, Durable, History>>
        PROVE  TypeOK'
    BY <2>3, ZenonT(60) DEF ItemFails, TypeOK, Job, PCs, PlansMade
  <2>4. CASE MissingSecret BY <2>3, <2>4 DEF MissingSecret
  <2>5. CASE DryItem
    BY <2>5, ZenonT(60) DEF DryItem, TypeOK, Job, PCs, PlansMade
  <2>6. CASE BuildRequest
    <3>1. PICK secret \in Secrets :
            job' = [job EXCEPT !.pc = "send", !.id = TheItem.id, !.retries = 0,
                               !.secret = secret]
      BY <2>6 DEF BuildRequest
    <3>2. secret \in Plans \cup {None} /\ TheItem.id \in Ids
      BY <2>6, SecretsType, TheItemType DEF BuildRequest, Item
    <3>3. job' \in Job /\ job'.pc = "send" /\ job'.plan = job.plan /\ job'.at = job.at
          /\ job'.limit = job.limit /\ job'.id \in Ids
      <4>1. job \in Job /\ 0 \in 0..MaxRetries
        BY DEF TypeOK
      <4>2. QED BY <3>1, <3>2, <4>1 DEF Job, PCs
    <3>4. QED BY <2>6, <3>3, ZenonT(60) DEF BuildRequest, TypeOK, PlansMade
  <2>7. ASSUME job.pc = "send", UNCHANGED <<keysUnique, Durable>>,
               late' \subseteq Request,
               \E reply \in Replies, answered \in Ids \cup {None} : Hear(reply, answered),
               Serve(TheRequest) \/ UNCHANGED <<target, History>>
        PROVE  TypeOK'
    <3>1. TheRequest \in Request
      BY <2>7, TheRequestType DEF ItemStates
    <3>2. /\ target' \in [Ids -> Written \cup {ForeignRecord, None}]
          /\ delivered' \subseteq Plans \X Keys
          /\ conflicted' \subseteq Plans \X Keys
      BY <2>7, <3>1, ServeType DEF TypeOK
    <3>3. PICK reply \in Replies, answered \in Ids \cup {None} : Hear(reply, answered)
      BY <2>7
    <3>4. /\ job' \in Job
          /\ job'.pc = "reply" /\ job'.id = job.id /\ job'.plan = job.plan
          /\ job'.at = job.at /\ job'.limit = job.limit
      BY <2>7, <3>3, HearType
    <3>5. QED BY <2>7, <3>2, <3>4 DEF TypeOK, PlansMade
  <2>8. CASE SendServed
    <3>1. job.id \in Ids
      BY <2>8 DEF SendServed, TypeOK
    <3>2. \E reply \in Replies, answered \in Ids \cup {None} : Hear(reply, answered)
      BY <2>8, <3>1 DEF SendServed, Replies
    <3>3. QED BY <2>7, <2>8, <3>2 DEF SendServed, TypeOK
  <2>9. CASE SendUnanswered
    <3>1. \E reply \in Replies, answered \in Ids \cup {None} : Hear(reply, answered)
      BY <2>9 DEF SendUnanswered, Replies
    <3>2. QED BY <2>7, <2>9, <3>1 DEF SendUnanswered, TypeOK
  <2>10. CASE SendUnserved
    <3>1. \E reply \in Replies, answered \in Ids \cup {None} : Hear(reply, answered)
      BY <2>10 DEF SendUnserved, Replies
    <3>2. QED BY <2>7, <2>10, <3>1 DEF SendUnserved, TypeOK
  <2>11. CASE SendTimesOut
    <3>1. \E reply \in Replies, answered \in Ids \cup {None} : Hear(reply, answered)
      BY <2>11 DEF SendTimesOut, Replies
    <3>2. late' \subseteq Request
      BY <2>11, TheRequestType DEF SendTimesOut, TypeOK, ItemStates
    <3>3. QED BY <2>7, <2>11, <3>1, <3>2 DEF SendTimesOut
  <2>12. CASE Retry
    <3>1. job.reply = "exists" => NewId \in Ids
      BY <2>12 DEF Retry, NewId, FreshIds
    <3>2. job.retries + 1 \in 0..MaxRetries
      BY <2>12 DEF Retry, CanRetry, TypeOK, Job
    <3>3. job' \in Job /\ job'.pc = "send" /\ job'.plan = job.plan /\ job'.at = job.at
          /\ job'.limit = job.limit /\ job'.id \in Ids
      BY <2>12, <3>1, <3>2, ZenonT(60) DEF Retry, TypeOK, Job, PCs, Replies
    <3>4. QED BY <2>12, <3>3 DEF Retry, TypeOK, PlansMade
  <2>13. CASE GiveUp BY <2>3, <2>13 DEF GiveUp
  <2>14. CASE Succeed
    BY <2>14, ZenonT(60) DEF Succeed, TypeOK, Job, PCs, PlansMade
  <2>15. CASE SyncIdentity
    <3>1. ResolvedId \in Ids \cup {None} /\ TheItem.key \in Keys
      BY <2>15, TheItemType DEF SyncIdentity, ResolvedId, TypeOK, Job, Item
    <3>2. identity' \in [Keys -> SUBSET Ids] /\ waiting' \subseteq Keys
      <4>1. CASE ResolvedId = None
        BY <2>15, <4>1 DEF SyncIdentity, TypeOK
      <4>2. CASE ResolvedId # None
        <5>1. ResolvedId \in Ids /\ identity[TheItem.key] \in SUBSET Ids
          BY <3>1, <4>2 DEF TypeOK
        <5>2. identity[TheItem.key] \cup {ResolvedId} \in SUBSET Ids
          BY <5>1
        <5>3. identity' = [identity EXCEPT ![TheItem.key] = @ \cup {ResolvedId}]
              /\ waiting' = waiting \ {TheItem.key}
          BY <2>15, <4>2 DEF SyncIdentity
        <5>4. QED BY <3>1, <5>2, <5>3 DEF TypeOK
      <4>3. QED BY <4>1, <4>2
    <3>3. QED BY <2>15, <3>2, ZenonT(60) DEF SyncIdentity, TypeOK, Job, PCs, PlansMade
  <2>16. CASE Retain
    <3>1. stored' \subseteq Row
      BY <2>16 DEF Retain, TypeOK
    <3>2. QED BY <2>16, <3>1, ZenonT(60) DEF Retain, TypeOK, Job, PCs, PlansMade
  <2>17. CASE SideEffectFails
    BY <2>3, <2>17 DEF SideEffectFails
  <2>18. CASE NextItem
    <3>1. CASE (job.stop /\ job.failed) \/ job.at >= job.limit
      BY <2>18, <3>1, SMTT(60) DEF NextItem, TypeOK, Job, NoJob, PCs, Replies
    <3>2. CASE ~((job.stop /\ job.failed) \/ job.at >= job.limit)
      <4>1. job.at + 1 \in 1..job.limit
        BY <2>18, <3>2, SMTT(60) DEF NextItem, TypeOK, Job
      <4>2. job' \in Job /\ job'.pc = "item" /\ job'.plan = job.plan
            /\ job'.at = job.at + 1 /\ job'.limit = job.limit
        <5>1. job.at + 1 \in Nat /\ job \in Job
          BY <4>1 DEF TypeOK, Job
        <5>2. QED BY <2>18, <3>2, <5>1, NoJobType, ZenonT(60) DEF NextItem, Job, PCs
      <4>3. QED BY <2>18, <4>1, <4>2 DEF NextItem, TypeOK, PlansMade
    <3>3. QED BY <3>1, <3>2
  <2>19. CASE LateArrives
    BY <2>19, ServeType DEF LateArrives, TypeOK, PlansMade
  <2>20. CASE Crash
    BY <2>20 DEF Crash, TypeOK, Job, NoJob, PCs, Replies
  <2>21. CASE UNCHANGED vars
    BY <2>21 DEF vars, TypeOK, PlansMade
  <2>22. QED
    BY <2>1, <2>2, <2>4, <2>5, <2>6, <2>8, <2>9, <2>10, <2>11, <2>12, <2>13, <2>14,
       <2>15, <2>16, <2>17, <2>18, <2>19, <2>20, <2>21 DEF Next, ApplyStep
<1>3. QED BY <1>1, <1>2, PTL DEF Spec

-----------------------------------------------------------------------------
(* What has been delivered.  The part that makes the safety properties         *)
(* inductive is Served: from the moment the gateway has heard "ok" until the   *)
(* item is done, the target has served it.  A crash cannot come between the    *)
(* service and the deletion of the secret in a way that matters, because the   *)
(* deletion is only reached through the answer.                                *)

Served ==
  /\ job.pc = "reply" /\ job.reply = "ok" => <<job.plan, TheItem.key>> \in delivered
  /\ job.pc \in {"sync", "retain"} => <<job.plan, TheItem.key>> \in delivered

DryStaysLocal == job.dry => job.pc \in {"idle", "item", "next"}

DeliveryInv ==
  /\ Served
  /\ DryStaysLocal
  /\ ReportedMeansDelivered
  /\ SecretGoneMeansDelivered

\* What has been delivered stays delivered.
LEMMA DeliveredGrows ==
  ASSUME NEW r, Serve(r)
  PROVE  /\ delivered \subseteq delivered'
         /\ ~Taken(r) => <<r.record.plan, r.record.key>> \in delivered'
BY DEF Serve

\* A step that leaves the vault, the plan files and the items counted so far
\* alone, forgets no delivery, and comes to "sync" or to an "ok" only with a
\* delivered item, keeps DeliveryInv.
LEMMA QuietStep ==
  ASSUME DeliveryInv, job' \in Job, job \in Job,
         planned' = planned, stored' = stored, delivered \subseteq delivered',
         job'.ok = job.ok, job'.plan = job.plan, job'.dry = job.dry,
         Served', DryStaysLocal'
  PROVE  DeliveryInv'
<1>1. ReportedMeansDelivered'
  BY DEF DeliveryInv, ReportedMeansDelivered
<1>2. SecretGoneMeansDelivered'
  BY DEF DeliveryInv, SecretGoneMeansDelivered, PlansMade
<1>3. QED BY <1>1, <1>2 DEF DeliveryInv

\* A step that ends or forgets the job keeps DeliveryInv as well.
LEMMA JobEnds ==
  ASSUME DeliveryInv, job' = NoJob,
         planned' = planned, stored' = stored, delivered \subseteq delivered'
  PROVE  DeliveryInv'
<1>1. Served' /\ DryStaysLocal' /\ ReportedMeansDelivered'
  BY DEF Served, DryStaysLocal, ReportedMeansDelivered, NoJob
<1>2. SecretGoneMeansDelivered'
  BY DEF DeliveryInv, SecretGoneMeansDelivered, PlansMade
<1>3. QED BY <1>1, <1>2 DEF DeliveryInv

\* No order of crashes, lost answers and re-applications makes the report or the
\* retention service run ahead of the target.
THEOREM DeliverySafe == Spec => []DeliveryInv
<1> USE ApplyAssumption
<1>1. Init => DeliveryInv
  BY DEF Init, DeliveryInv, Served, DryStaysLocal, ReportedMeansDelivered,
         SecretGoneMeansDelivered, NoJob, PlansMade
<1>2. TypeOK /\ TypeOK' /\ DeliveryInv /\ [Next]_vars => DeliveryInv'
  <2> SUFFICES ASSUME TypeOK, TypeOK', DeliveryInv, [Next]_vars PROVE DeliveryInv'
    OBVIOUS
  <2> job \in Job /\ job' \in Job
    BY DEF TypeOK
  <2> USE DEF External, Durable, History
  <2>1. ASSUME NEW p \in Plans, StorePlan(p) PROVE DeliveryInv'
    <3>1. Served' /\ DryStaysLocal' /\ ReportedMeansDelivered'
      BY <2>1 DEF StorePlan, DeliveryInv, Served, DryStaysLocal, ReportedMeansDelivered, TheItem
    <3>2. PlansMade' = PlansMade \cup {p}
      <4>1. /\ DOMAIN planned' = DOMAIN planned \cup {Len(planned) + 1}
            /\ \A n \in DOMAIN planned : planned'[n] = planned[n]
            /\ planned'[Len(planned) + 1] = p
        BY <2>1 DEF StorePlan, TypeOK
      <4>2. QED BY <4>1 DEF PlansMade
    <3>3. SecretGoneMeansDelivered'
      BY <2>1, <3>2 DEF StorePlan, DeliveryInv, SecretGoneMeansDelivered
    <3>4. QED BY <3>1, <3>3 DEF DeliveryInv
  <2>2. ASSUME NEW p \in Plans, NEW limit \in 1..Len(Items[p]),
               NEW dry \in BOOLEAN, NEW stop \in BOOLEAN,
               StartApply(p, limit, dry, stop)
        PROVE  DeliveryInv'
    <3>1. job'.pc = "item" /\ job'.ok = {}
      BY <2>2, NoJobType DEF StartApply, NoJob
    <3>2. Served' /\ DryStaysLocal' /\ ReportedMeansDelivered'
      BY <3>1 DEF Served, DryStaysLocal, ReportedMeansDelivered
    <3>3. SecretGoneMeansDelivered'
      BY <2>2 DEF StartApply, DeliveryInv, SecretGoneMeansDelivered, PlansMade
    <3>4. QED BY <3>2, <3>3 DEF DeliveryInv
  <2>3. ASSUME ItemFails, UNCHANGED <<External, Durable, History>>
        PROVE  DeliveryInv'
    <3>1. job'.pc = "next" /\ job'.ok = job.ok /\ job'.plan = job.plan /\ job'.dry = job.dry
      BY <2>3 DEF ItemFails, Job
    <3>2. Served' /\ DryStaysLocal'
      BY <3>1 DEF Served, DryStaysLocal
    <3>3. QED BY <2>3, <3>1, <3>2, QuietStep
  <2>4. CASE MissingSecret BY <2>3, <2>4 DEF MissingSecret
  <2>5. CASE DryItem
    <3>1. job'.pc = "next" /\ job'.dry = job.dry /\ job.dry
      BY <2>5 DEF DryItem, Job
    <3>2. Served' /\ DryStaysLocal' /\ ReportedMeansDelivered'
      BY <3>1 DEF Served, DryStaysLocal, ReportedMeansDelivered
    <3>3. SecretGoneMeansDelivered'
      BY <2>5 DEF DryItem, DeliveryInv, SecretGoneMeansDelivered, PlansMade
    <3>4. QED BY <3>2, <3>3 DEF DeliveryInv
  <2>6. CASE BuildRequest
    <3>1. /\ job'.pc = "send" /\ job'.ok = job.ok /\ job'.plan = job.plan
          /\ job'.dry = job.dry /\ ~job.dry
      BY <2>6 DEF BuildRequest, Job
    <3>2. Served' /\ DryStaysLocal'
      BY <3>1 DEF Served, DryStaysLocal
    <3>3. QED BY <2>6, <3>1, <3>2, QuietStep DEF BuildRequest
  <2>7. ASSUME job.pc = "send", UNCHANGED Durable, delivered \subseteq delivered',
               NEW reply \in Replies, NEW answered \in Ids \cup {None},
               Hear(reply, answered),
               reply = "ok" => <<job.plan, TheItem.key>> \in delivered'
        PROVE  DeliveryInv'
    <3>1. /\ job'.pc = "reply" /\ job'.plan = job.plan /\ job'.at = job.at
          /\ job'.dry = job.dry /\ job'.ok = job.ok /\ job'.reply = reply
      BY <2>7, HearType
    <3>2. ~job.dry
      BY <2>7 DEF DeliveryInv, DryStaysLocal
    <3>3. Served' /\ DryStaysLocal'
      BY <2>7, <3>1, <3>2 DEF Served, DryStaysLocal, TheItem
    <3>4. QED BY <2>7, <3>1, <3>3, QuietStep
  <2>8. CASE SendServed
    <3>1. /\ delivered \subseteq delivered'
          /\ ~Taken(TheRequest) => <<job.plan, TheItem.key>> \in delivered'
      BY <2>8, DeliveredGrows DEF SendServed, TheRequest
    <3>2. job.id \in Ids
      BY <2>8 DEF SendServed, TypeOK
    <3>3. CASE Taken(TheRequest)
      BY <2>7, <2>8, <3>1, <3>3 DEF SendServed, Replies
    <3>4. CASE ~Taken(TheRequest)
      BY <2>7, <2>8, <3>1, <3>2, <3>4 DEF SendServed, Replies
    <3>5. QED BY <3>3, <3>4
  <2>9. CASE SendUnanswered
    <3>1. delivered \subseteq delivered'
      BY <2>9, DeliveredGrows DEF SendUnanswered
    <3>2. PICK reply \in {"again", "rejected"} : Hear(reply, None)
      BY <2>9 DEF SendUnanswered
    <3>3. QED BY <2>7, <2>9, <3>1, <3>2 DEF SendUnanswered, Replies
  <2>10. CASE SendUnserved
    BY <2>7, <2>10 DEF SendUnserved, Replies
  <2>11. CASE SendTimesOut
    BY <2>7, <2>11 DEF SendTimesOut, Replies
  <2>12. CASE Retry
    <3>1. /\ job'.pc = "send" /\ job'.ok = job.ok /\ job'.plan = job.plan
          /\ job'.dry = job.dry
      BY <2>12 DEF Retry, Job
    <3>2. ~job.dry
      BY <2>12 DEF Retry, DeliveryInv, DryStaysLocal
    <3>3. Served' /\ DryStaysLocal'
      BY <3>1, <3>2 DEF Served, DryStaysLocal
    <3>4. QED BY <2>12, <3>1, <3>3, QuietStep DEF Retry
  <2>13. CASE GiveUp BY <2>3, <2>13 DEF GiveUp
  <2>14. CASE Succeed
    <3>1. /\ job'.pc = "sync" /\ job'.ok = job.ok /\ job'.plan = job.plan
          /\ job'.dry = job.dry /\ job'.at = job.at
      BY <2>14 DEF Succeed, Job
    <3>2. ~job.dry /\ <<job.plan, TheItem.key>> \in delivered
      BY <2>14 DEF Succeed, DeliveryInv, DryStaysLocal, Served
    <3>3. Served' /\ DryStaysLocal'
      BY <2>14, <3>1, <3>2 DEF Succeed, Served, DryStaysLocal, TheItem
    <3>4. QED BY <2>14, <3>1, <3>3, QuietStep DEF Succeed
  <2>15. CASE SyncIdentity
    <3>1. /\ job'.pc = "retain" /\ job'.ok = job.ok /\ job'.plan = job.plan
          /\ job'.dry = job.dry /\ job'.at = job.at
      BY <2>15 DEF SyncIdentity, Job
    <3>2. ~job.dry /\ <<job.plan, TheItem.key>> \in delivered
      BY <2>15 DEF SyncIdentity, DeliveryInv, DryStaysLocal, Served
    <3>3. Served' /\ DryStaysLocal'
      BY <2>15, <3>1, <3>2 DEF SyncIdentity, Served, DryStaysLocal, TheItem
    <3>4. QED BY <2>15, <3>1, <3>3, QuietStep DEF SyncIdentity
  <2>16. CASE Retain
    <3>1. /\ job'.pc = "next" /\ job'.ok = job.ok \cup {job.at}
          /\ job'.plan = job.plan /\ job'.dry = job.dry
      BY <2>16 DEF Retain, Job
    <3>2. <<job.plan, TheItem.key>> \in delivered
      BY <2>16 DEF Retain, DeliveryInv, Served
    <3>3. Served' /\ DryStaysLocal'
      BY <3>1 DEF Served, DryStaysLocal
    <3>4. ReportedMeansDelivered'
      <4>1. delivered' = delivered
        BY <2>16 DEF Retain
      <4>2. ReportedMeansDelivered
        BY DEF DeliveryInv
      <4>3. <<job.plan, Items[job.plan][job.at].key>> \in delivered
        BY <3>2 DEF TheItem
      <4>4. QED BY <3>1, <4>1, <4>2, <4>3 DEF ReportedMeansDelivered
    <3>5. SecretGoneMeansDelivered'
      <4>1. stored \ {[key |-> TheItem.key, run |-> job.plan]} \subseteq stored'
            /\ planned' = planned /\ delivered' = delivered
        BY <2>16 DEF Retain
      <4>2. QED BY <3>2, <4>1 DEF DeliveryInv, SecretGoneMeansDelivered, PlansMade
    <3>6. QED BY <3>3, <3>4, <3>5 DEF DeliveryInv
  <2>17. CASE SideEffectFails
    BY <2>3, <2>17 DEF SideEffectFails
  <2>18. CASE NextItem
    <3>1. CASE (job.stop /\ job.failed) \/ job.at >= job.limit
      BY <2>18, <3>1, JobEnds DEF NextItem
    <3>2. CASE ~((job.stop /\ job.failed) \/ job.at >= job.limit)
      <4>1. job'.pc = "item" /\ job'.ok = job.ok /\ job'.plan = job.plan /\ job'.dry = job.dry
        BY <2>18, <3>2, NoJobType DEF NextItem, Job
      <4>2. Served' /\ DryStaysLocal'
        BY <4>1 DEF Served, DryStaysLocal
      <4>3. QED BY <2>18, <4>1, <4>2, QuietStep DEF NextItem
    <3>3. QED BY <3>1, <3>2
  <2>19. CASE LateArrives
    <3>1. delivered \subseteq delivered'
      BY <2>19, DeliveredGrows DEF LateArrives
    <3>2. Served' /\ DryStaysLocal'
      BY <2>19, <3>1 DEF LateArrives, DeliveryInv, Served, DryStaysLocal, TheItem
    <3>3. QED BY <2>19, <3>1, <3>2, QuietStep DEF LateArrives
  <2>20. CASE Crash
    BY <2>20, JobEnds DEF Crash
  <2>21. CASE UNCHANGED vars
    <3>1. Served' /\ DryStaysLocal'
      BY <2>21 DEF vars, DeliveryInv, Served, DryStaysLocal, TheItem
    <3>2. job' = job /\ planned' = planned /\ stored' = stored /\ delivered' = delivered
      BY <2>21 DEF vars
    <3>3. QED BY <3>1, <3>2, QuietStep
  <2>22. QED
    BY <2>1, <2>2, <2>4, <2>5, <2>6, <2>8, <2>9, <2>10, <2>11, <2>12, <2>13, <2>14,
       <2>15, <2>16, <2>17, <2>18, <2>19, <2>20, <2>21 DEF Next, ApplyStep
<1>3. QED BY <1>1, <1>2, TypeCorrect, PTL DEF Spec

\* The retention service never deletes the secret of an item the target has not
\* served (vault_retention_service.py, on_apply_success).
THEOREM SecretsSurvive == Spec => []SecretGoneMeansDelivered
<1>1. DeliveryInv => SecretGoneMeansDelivered
  BY DEF DeliveryInv
<1>2. QED BY <1>1, DeliverySafe, PTL

\* The counters of a real run never claim more than the target has served.
THEOREM ReportsAreTrue == Spec => []ReportedMeansDelivered
<1>1. DeliveryInv => ReportedMeansDelivered
  BY DEF DeliveryInv
<1>2. QED BY <1>1, DeliverySafe, PTL

\* A dry run of import-apply sends, deletes and indexes nothing
\* (import_apply.py, DryRunExecutor and allow_post_success_side_effects).
THEOREM DryRunIsPure == Spec => DryRunTouchesNothing
<1> DEFINE Quiet == job.dry /\ job'.dry =>
                      /\ late' \subseteq late
                      /\ delivered' # delivered => late' # late
                      /\ stored \subseteq stored'
                      /\ UNCHANGED <<identity, waiting>>
<1>1. TypeOK /\ DeliveryInv /\ [Next]_vars => [Quiet]_vars
  <2> SUFFICES ASSUME TypeOK, DeliveryInv, Next, job.dry PROVE Quiet
    BY DEF vars
  <2> USE DEF External, Durable, History
  <2>1. job.pc \in {"idle", "item", "next"}
    BY DEF DeliveryInv, DryStaysLocal
  <2>2. CASE \E p \in Plans : StorePlan(p)
    BY <2>2 DEF StorePlan
  <2>3. CASE \E p \in Plans : \E limit \in 1..Len(Items[p]), dry, stop \in BOOLEAN :
               StartApply(p, limit, dry, stop)
    BY <2>3 DEF StartApply
  <2>4. CASE ApplyStep
    BY <2>1, <2>4 DEF ApplyStep, MissingSecret, DryItem, BuildRequest, SendServed,
       SendUnanswered, SendUnserved, SendTimesOut, Retry, GiveUp, Succeed,
       SyncIdentity, Retain, SideEffectFails, NextItem
  <2>5. CASE LateArrives
    BY <2>5 DEF LateArrives
  <2>6. CASE Crash
    BY <2>6 DEF Crash
  <2>7. QED BY <2>2, <2>3, <2>4, <2>5, <2>6 DEF Next
<1>2. QED BY <1>1, TypeCorrect, DeliverySafe, PTL DEF Spec, DryRunTouchesNothing

-----------------------------------------------------------------------------
(* Who is written where.  Every request that was ever sent is the attempt in   *)
(* progress, a late request or a record, and the parts of WriteInv say what    *)
(* each of them may be: requests of one start of import-apply for one person   *)
(* have the same id, except those the target refuses for good (Fits, Sole);    *)
(* the id differs from that of the plan only after a conflict (AsPlanned); an  *)
(* id named in a desired state is never somebody else's (MayUse).  Reached     *)
(* keeps the starts apart: what this start has written are items up to the     *)
(* one at hand, hence not the items to come.                                   *)

Same(w, v) == w.key = v.key /\ w.apply = v.apply

AsPlanned(id, w) ==
  \/ <<w.plan, w.key>> \in conflicted
  \/ \E n \in DOMAIN Items[w.plan] : Items[w.plan][n].key = w.key /\ Items[w.plan][n].id = id

MayUse(id, key) ==
  \A p \in Plans : \A n \in DOMAIN Items[p] :
    Items[p][n].named /\ Items[p][n].id = id => Items[p][n].key = key

Holds(id, key) == target[id] # None /\ target[id].key = key

Fits(r) ==
  /\ \A i \in Ids : target[i] # None /\ Same(target[i], r.record) => i = r.id \/ Taken(r)
  /\ \A s \in late : Same(s.record, r.record) => s.id = r.id \/ Taken(s) \/ Taken(r)
  /\ AsPlanned(r.id, r.record)
  /\ MayUse(r.id, r.record.key)

Sole(r) ==
  /\ \A i \in Ids : target[i] # None /\ Same(target[i], r.record) => i = r.id
  /\ \A s \in late : Same(s.record, r.record) => s.id = r.id \/ Taken(s)

KeysAreUnique ==
  keysUnique => \A i, j \in Ids :
    target[i] # None /\ target[j] # None /\ target[i].key = target[j].key => i = j

TargetInv ==
  /\ KeysAreUnique
  /\ OneIdPerRun
  /\ \A i \in Ids : target[i] # None /\ target[i] # ForeignRecord => AsPlanned(i, target[i])
  /\ \A i \in Ids : target[i] # None => MayUse(i, target[i].key)
  /\ \A r \in late : Fits(r)

Attempting == job.pc \in {"send", "reply"}

\* An id other than the one a desired state names is only ever tried when the
\* person has a record elsewhere that makes the target refuse it too.
NamedElsewhere ==
  TheItem.named /\ job.id # TheItem.id =>
    keysUnique /\ \E i \in Ids \ {job.id} : Holds(i, TheItem.key)

AttemptInv ==
  /\ Attempting => /\ Sole(TheRequest)
                   /\ AsPlanned(job.id, TheRequest.record)
                   /\ MayUse(job.id, TheItem.key)
                   /\ NamedElsewhere
  /\ job.pc = "reply" /\ job.reply = "exists" =>
       Taken(TheRequest) /\ <<job.plan, TheItem.key>> \in conflicted

Reached(w) ==
  /\ w.apply <= applies
  /\ w.apply = applies /\ job.pc # "idle" =>
       \E n \in 1..job.at : /\ Items[job.plan][n].key = w.key
                            /\ job.pc = "item" => n # job.at

NoneAhead ==
  /\ \A i \in Ids : target[i] # None /\ target[i] # ForeignRecord => Reached(target[i])
  /\ \A r \in late : Reached(r.record)

AnswersNameOwner ==
  (job.pc = "reply" /\ job.reply = "ok") \/ job.pc = "sync" =>
    ResolvedId = None \/ Holds(ResolvedId, TheItem.key)

WriteInv == TargetInv /\ AttemptInv /\ NoneAhead /\ AnswersNameOwner /\ IdentityNamesOwner

\* Nobody the plans are about is the foreigner.
LEMMA RecordTypes ==
  ASSUME TypeOK, NEW i \in Ids, target[i] # None
  PROVE  /\ target[i] # ForeignRecord => target[i] \in Written
         /\ target[i] = ForeignRecord => target[i].key \notin Keys
         /\ target[i].plan # None => target[i] # ForeignRecord
BY ApplyAssumption DEF TypeOK, ForeignRecord, Written

\* A served request leaves every record with the person it had, and what the
\* target refused before it refuses after.
LEMMA ServeKeeps ==
  ASSUME TypeOK, keysUnique' = keysUnique, NEW r \in Request, Serve(r)
  PROVE  /\ \A i \in Ids : target[i] # None =>
               target'[i] # None /\ target'[i].key = target[i].key
         /\ \A s \in Request : Taken(s) => Taken(s)'
         /\ conflicted \subseteq conflicted'
         /\ Taken(r) => /\ target' = target
                        /\ <<r.record.plan, r.record.key>> \in conflicted'
         /\ ~Taken(r) => /\ target' = [target EXCEPT ![r.id] = r.record]
                         /\ r.id \in Ids /\ r.record \in Written
<1>1. r.id \in Ids /\ r.record \in Written /\ r.record # None
  BY NoneIsNoRecord DEF Request
<1>2. CASE Taken(r)
  <2>1. /\ target' = target
        /\ conflicted' = conflicted \cup {<<r.record.plan, r.record.key>>}
    BY <1>2 DEF Serve
  <2>2. \A s \in Request : Taken(s) => Taken(s)'
    BY <2>1 DEF Taken
  <2>3. QED BY <1>2, <2>1, <2>2
<1>3. CASE ~Taken(r)
  <2>1. /\ target' = [target EXCEPT ![r.id] = r.record]
        /\ conflicted' = conflicted
    BY <1>3 DEF Serve
  <2>2. \A i \in Ids : target[i] # None => target'[i] # None /\ target'[i].key = target[i].key
    BY <1>1, <1>3, <2>1 DEF Taken, TypeOK
  <2>3. \A s \in Request : Taken(s) => Taken(s)'
    BY <2>2 DEF Taken, Request
  <2>4. QED BY <1>1, <1>3, <2>1, <2>2, <2>3
<1>4. QED BY <1>2, <1>3

\* A request agrees with what it agreed with before another one was served.
LEMMA FitsStays ==
  ASSUME TypeOK, keysUnique' = keysUnique, late' \subseteq late,
         NEW r \in Request, Serve(r), NEW s \in Request, Fits(s),
         Same(r.record, s.record) => r.id = s.id \/ Taken(r) \/ Taken(s)
  PROVE  Fits(s)'
<1>1. late \subseteq Request
  BY DEF TypeOK
<1>2. ASSUME NEW i \in Ids, target'[i] # None, Same(target'[i], s.record)
      PROVE  i = s.id \/ Taken(s)'
  <2>1. CASE Taken(r) \/ i # r.id
    <3>1. target'[i] = target[i]
      BY <2>1, ServeKeeps DEF TypeOK
    <3>2. i = s.id \/ Taken(s)
      BY <1>2, <3>1 DEF Fits
    <3>3. QED BY <3>2, ServeKeeps
  <2>2. CASE ~Taken(r) /\ i = r.id
    <3>1. target'[i] = r.record
      BY <2>2, ServeKeeps DEF TypeOK
    <3>2. QED BY <1>2, <2>2, <3>1, ServeKeeps
  <2>3. QED BY <2>1, <2>2
<1>3. ASSUME NEW q \in late', Same(q.record, s.record)
      PROVE  q.id = s.id \/ Taken(q)' \/ Taken(s)'
  BY <1>1, <1>3, ServeKeeps DEF Fits
<1>4. AsPlanned(s.id, s.record)'
  BY ServeKeeps DEF Fits, AsPlanned
<1>5. MayUse(s.id, s.record.key)
  BY DEF Fits
<1>6. QED BY <1>2, <1>3, <1>4, <1>5 DEF Fits, MayUse

\* Serving a request that fits keeps TargetInv.
LEMMA Serving ==
  ASSUME TypeOK, TargetInv, keysUnique' = keysUnique, late' \subseteq late,
         NEW r \in Request, Fits(r), Serve(r)
  PROVE  TargetInv'
<1>1. late \subseteq Request
  BY DEF TypeOK
<1>2. ASSUME NEW s \in late' PROVE Fits(s)'
  <2>1. s \in Request /\ Fits(s)
    BY <1>1 DEF TargetInv
  <2>2. Same(r.record, s.record) => r.id = s.id \/ Taken(r) \/ Taken(s)
    <3>1. Same(s.record, r.record) => s.id = r.id \/ Taken(s) \/ Taken(r)
      BY DEF Fits
    <3>2. QED BY <3>1 DEF Same
  <2>3. QED BY <2>1, <2>2, FitsStays
<1>3. CASE Taken(r)
  <2>1. target' = target /\ conflicted \subseteq conflicted'
    BY <1>3, ServeKeeps
  <2>2. KeysAreUnique' /\ OneIdPerRun'
    BY <2>1 DEF TargetInv, KeysAreUnique, OneIdPerRun
  <2>3. /\ \A i \in Ids : target'[i] # None /\ target'[i] # ForeignRecord =>
             AsPlanned(i, target[i])'
        /\ \A i \in Ids : target'[i] # None => MayUse(i, target[i].key)'
    BY <2>1 DEF TargetInv, AsPlanned, MayUse
  <2>4. QED BY <1>2, <2>2, <2>3 DEF TargetInv
<1>4. CASE ~Taken(r)
  <2>1. /\ target' = [target EXCEPT ![r.id] = r.record] /\ target \in [Ids -> Written \cup {ForeignRecord, None}]
        /\ r.id \in Ids /\ r.record \in Written
        /\ conflicted \subseteq conflicted'
    BY <1>4, ServeKeeps DEF TypeOK
  <2>2. KeysAreUnique'
    BY <1>4, <2>1 DEF TargetInv, KeysAreUnique, Taken
  <2>3. ASSUME NEW i \in Ids, i # r.id, target[i] # None, Same(target[i], r.record)
        PROVE  FALSE
    BY <1>4, <2>3 DEF Fits
  <2>4. OneIdPerRun'
    <3> SUFFICES ASSUME NEW i \in Ids, NEW j \in Ids,
                        target'[i] # None, target'[j] # None, target'[i].plan # None,
                        target'[i].apply = target'[j].apply,
                        target'[i].key = target'[j].key, i # j
                 PROVE  FALSE
      BY DEF OneIdPerRun
    <3>1. CASE i # r.id /\ j # r.id
      BY <2>1, <3>1 DEF TargetInv, OneIdPerRun
    <3>2. CASE i = r.id
      BY <2>1, <2>3, <3>2 DEF Same
    <3>3. CASE j = r.id
      BY <2>1, <2>3, <3>3 DEF Same
    <3>4. QED BY <3>1, <3>2, <3>3
  <2>5. ASSUME NEW i \in Ids, target'[i] # None
        PROVE  /\ target'[i] # ForeignRecord => AsPlanned(i, target[i])'
               /\ MayUse(i, target[i].key)'
    <3>1. CASE i # r.id
      BY <2>1, <2>5, <3>1 DEF TargetInv, AsPlanned, MayUse
    <3>2. CASE i = r.id
      BY <2>1, <3>2 DEF Fits, AsPlanned, MayUse
    <3>3. QED BY <3>1, <3>2
  <2>6. QED BY <1>2, <2>2, <2>4, <2>5 DEF TargetInv
<1>5. QED BY <1>3, <1>4

\* So does giving up on a request that fits.
LEMMA Abandoning ==
  ASSUME TypeOK, TargetInv, NEW r \in Request, Fits(r), late' = late \cup {r},
         UNCHANGED <<target, keysUnique, conflicted>>
  PROVE  TargetInv'
<1>1. \A s : Taken(s)' = Taken(s)
  BY DEF Taken
<1>2. \A id, w : AsPlanned(id, w)' = AsPlanned(id, w)
  BY DEF AsPlanned
<1>3. ASSUME NEW s \in late' PROVE Fits(s)'
  <2>1. Fits(s)
    BY DEF TargetInv
  <2>2. Same(r.record, s.record) => r.id = s.id \/ Taken(r) \/ Taken(s)
    BY DEF TargetInv, Fits, Same
  <2>3. QED BY <1>1, <1>2, <2>1, <2>2 DEF Fits, MayUse
<1>4. KeysAreUnique' /\ OneIdPerRun'
  BY DEF TargetInv, KeysAreUnique, OneIdPerRun
<1>5. QED BY <1>2, <1>3, <1>4 DEF TargetInv, MayUse

\* And a step that leaves the target alone.
LEMMA TargetAlone ==
  ASSUME TargetInv, UNCHANGED <<target, keysUnique, late, conflicted>>
  PROVE  TargetInv'
<1>1. \A s : Taken(s)' = Taken(s)
  BY DEF Taken
<1>2. \A id, w : AsPlanned(id, w)' = AsPlanned(id, w)
  BY DEF AsPlanned
<1>3. KeysAreUnique' /\ OneIdPerRun'
  BY DEF TargetInv, KeysAreUnique, OneIdPerRun
<1>4. \A s \in late' : Fits(s)'
  BY <1>1, <1>2 DEF TargetInv, Fits, MayUse
<1>5. QED BY <1>2, <1>3, <1>4 DEF TargetInv, MayUse

\* The attempt in progress stays the only one of its kind when it, or a late
\* request, is served.
LEMMA SoleStays ==
  ASSUME TypeOK, keysUnique' = keysUnique, late' \subseteq late,
         NEW r \in Request, Serve(r), NEW s \in Request, Sole(s), r \in late \/ r = s
  PROVE  Sole(s)'
<1>1. late \subseteq Request
  BY DEF TypeOK
<1>2. ASSUME NEW i \in Ids, target'[i] # None, Same(target'[i], s.record)
      PROVE  i = s.id
  <2>1. CASE Taken(r) \/ i # r.id
    <3>1. target'[i] = target[i]
      BY <2>1, ServeKeeps DEF TypeOK
    <3>2. QED BY <1>2, <3>1 DEF Sole
  <2>2. CASE ~Taken(r) /\ i = r.id
    <3>1. target'[i] = r.record
      BY <2>2, ServeKeeps DEF TypeOK
    <3>2. QED BY <1>2, <2>2, <3>1 DEF Sole
  <2>3. QED BY <2>1, <2>2
<1>3. ASSUME NEW q \in late', Same(q.record, s.record)
      PROVE  q.id = s.id \/ Taken(q)'
  BY <1>1, <1>3, ServeKeeps DEF Sole
<1>4. QED BY <1>2, <1>3 DEF Sole

\* The attempt in progress is a request that fits.
LEMMA AttemptFits ==
  ASSUME TypeOK, AttemptInv, Attempting
  PROVE  /\ TheRequest \in Request
         /\ Fits(TheRequest)
         /\ TheRequest.id = job.id /\ TheRequest.record.key = TheItem.key
         /\ TheRequest.record.plan = job.plan /\ TheRequest.record.apply = applies
<1>1. TheRequest \in Request
  BY TheRequestType DEF Attempting, ItemStates
<1>2. /\ TheRequest.id = job.id /\ TheRequest.record.key = TheItem.key
      /\ TheRequest.record.plan = job.plan /\ TheRequest.record.apply = applies
  BY DEF TheRequest
<1>3. QED BY <1>1, <1>2 DEF AttemptInv, Fits, Sole

\* A record reached by this start stays reached while the job goes on.
LEMMA ReachedStays ==
  ASSUME TypeOK, NEW w, Reached(w), applies' = applies,
         \/ job'.pc = "idle"
         \/ /\ job.pc # "idle" /\ job'.plan = job.plan
            /\ \/ job'.at = job.at /\ job'.pc # "item"
               \/ job'.at = job.at + 1
  PROVE  Reached(w)'
<1>1. job.at \in Nat
  BY DEF TypeOK, Job
<1>2. CASE job'.pc = "idle" \/ w.apply # applies
  BY <1>2 DEF Reached
<1>3. CASE job'.pc # "idle" /\ w.apply = applies
  <2>1. PICK n \in 1..job.at : Items[job.plan][n].key = w.key
    BY <1>3 DEF Reached
  <2>2. n \in 1..job'.at /\ (job'.pc = "item" => n # job'.at)
    BY <1>1, <1>3, <2>1
  <2>3. QED BY <1>3, <2>1, <2>2 DEF Reached
<1>4. QED BY <1>2, <1>3

\* A step that leaves the target and the index alone.
LEMMA WriteQuiet ==
  ASSUME TypeOK, WriteInv, UNCHANGED <<target, keysUnique, late, conflicted, identity, applies>>,
         \/ job'.pc = "idle"
         \/ /\ job.pc # "idle" /\ job'.plan = job.plan
            /\ \/ job'.at = job.at /\ job'.pc # "item"
               \/ job'.at = job.at + 1,
         AttemptInv', AnswersNameOwner'
  PROVE  WriteInv'
<1>1. TargetInv'
  BY TargetAlone DEF WriteInv
<1>2. NoneAhead'
  BY ReachedStays DEF WriteInv, NoneAhead
<1>3. IdentityNamesOwner'
  BY DEF WriteInv, IdentityNamesOwner
<1>4. QED BY <1>1, <1>2, <1>3 DEF WriteInv

\* What the index names, and what an answer named, is still there after a
\* request is served.
LEMMA OwnersStay ==
  ASSUME TypeOK, keysUnique' = keysUnique, NEW r \in Request, Serve(r)
  PROVE  /\ \A id \in Ids, k \in Keys : Holds(id, k) => Holds(id, k)'
         /\ IdentityNamesOwner /\ identity' = identity => IdentityNamesOwner'
<1>1. \A id \in Ids, k \in Keys : Holds(id, k) => Holds(id, k)'
  BY ServeKeeps DEF Holds
<1>2. ASSUME IdentityNamesOwner, identity' = identity PROVE IdentityNamesOwner'
  <2>1. \A k \in Keys : identity[k] \subseteq Ids
    BY DEF TypeOK
  <2>2. QED BY <1>2, <2>1, ServeKeeps DEF IdentityNamesOwner
<1>3. QED BY <1>1, <1>2

\* An attempt that is served, whatever the process hears of it.
LEMMA AttemptServed ==
  ASSUME TypeOK, TypeOK', WriteInv, job.pc = "send", Serve(TheRequest),
         UNCHANGED <<keysUnique, late, Durable>>,
         NEW reply \in Replies, NEW answered \in Ids \cup {None}, Hear(reply, answered),
         reply = "exists" => Taken(TheRequest),
         reply = "ok" => ~Taken(TheRequest) /\ answered \in {job.id, None}
  PROVE  WriteInv'
<1> USE DEF Durable
<1>1. PICK r \in Request : r = TheRequest
  BY TheRequestType DEF ItemStates
<1>2. /\ Fits(r) /\ r.id = job.id /\ r.record.key = TheItem.key
      /\ r.record.plan = job.plan /\ r.record.apply = applies
      /\ Serve(r)
  BY <1>1, AttemptFits DEF WriteInv, Attempting
<1>3. /\ job' \in Job /\ job'.pc = "reply" /\ job'.id = job.id /\ job'.plan = job.plan
      /\ job'.at = job.at /\ job'.reply = reply /\ job'.answered = answered
      /\ job'.secret = job.secret
  <2>1. job \in Job
    BY DEF TypeOK
  <2>2. QED BY <2>1 DEF Hear, Job, PCs
<1>4. TheItem' = TheItem /\ TheRequest' = r
  BY <1>1, <1>3 DEF TheItem, TheRequest
<1>5. TargetInv'
  BY <1>2, Serving DEF WriteInv
<1>6. AttemptInv /\ Attempting
  BY DEF WriteInv, Attempting
<1>7. AttemptInv'
  <2>1. Sole(r)'
    BY <1>1, <1>2, <1>6, SoleStays DEF AttemptInv
  <2>2. AsPlanned(job.id, r.record)'
    BY <1>1, <1>2, <1>3, <1>6, ServeKeeps DEF AttemptInv, AsPlanned
  <2>3. MayUse(job.id, TheItem.key)'
    BY <1>3, <1>4, <1>6 DEF AttemptInv, MayUse
  <2>4. NamedElsewhere'
    <3>1. NamedElsewhere
      BY <1>6 DEF AttemptInv
    <3>2. \A i \in Ids : Holds(i, TheItem.key) => Holds(i, TheItem.key)'
      BY <1>2, <1>4, ServeKeeps DEF Holds
    <3>3. QED BY <1>3, <1>4, <3>1, <3>2 DEF NamedElsewhere
  <2>5. job'.reply = "exists" =>
          Taken(r)' /\ <<job'.plan, TheItem'.key>> \in conflicted'
    BY <1>1, <1>2, <1>3, <1>4, ServeKeeps
  <2>6. QED BY <1>3, <1>4, <2>1, <2>2, <2>3, <2>4, <2>5 DEF AttemptInv
<1>8. NoneAhead'
  <2>1. job.plan \in Plans /\ job.at \in Nat /\ job.at >= 1 /\ applies \in Nat
    BY DEF TypeOK, Job, PlansMade
  <2>2. ASSUME NEW w, Reached(w) PROVE Reached(w)'
    BY <1>3, <2>2, ReachedStays
  <2>3. Reached(r.record)'
    <3>1. Items[job'.plan][job'.at].key = r.record.key /\ job'.at \in 1..job'.at
      BY <1>2, <1>3, <2>1 DEF TheItem
    <3>2. QED BY <1>2, <1>3, <2>1, <3>1 DEF Reached
  <2>4. ASSUME NEW i \in Ids, target'[i] # None, target'[i] # ForeignRecord
        PROVE  Reached(target[i])'
    <3>1. CASE Taken(r) \/ i # r.id
      <4>1. target'[i] = target[i]
        BY <1>2, <3>1, ServeKeeps DEF TypeOK
      <4>2. Reached(target[i])
        BY <2>4, <4>1 DEF WriteInv, NoneAhead
      <4>3. PICK w : w = target[i]
        OBVIOUS
      <4>4. QED BY <2>2, <4>1, <4>2, <4>3 DEF Reached
    <3>2. CASE ~Taken(r) /\ i = r.id
      <4>1. target'[i] = r.record
        BY <1>2, <3>2, ServeKeeps DEF TypeOK
      <4>2. QED BY <2>3, <4>1 DEF Reached
    <3>3. QED BY <3>1, <3>2
  <2>5. \A s \in late' : Reached(s.record)'
    BY <2>2 DEF WriteInv, NoneAhead
  <2>6. QED BY <2>4, <2>5 DEF NoneAhead
<1>9. AnswersNameOwner'
  <2> SUFFICES ASSUME reply = "ok", ResolvedId' # None PROVE Holds(ResolvedId, TheItem.key)'
    BY <1>3 DEF AnswersNameOwner
  <2>1. ~Taken(r) /\ answered \in {job.id, None}
    BY <1>1
  <2>2. target'[r.id] = r.record /\ r.record # None
    BY <1>2, <2>1, ServeKeeps, NoneIsNoRecord DEF TypeOK
  <2>3. ResolvedId' = job.id
    <3>1. CASE answered # None
      BY <1>3, <2>1, <3>1 DEF ResolvedId
    <3>2. CASE answered = None
      <4>1. TheItem.named /\ ResolvedId' = TheItem.id
        BY <1>3, <1>4, <3>2 DEF ResolvedId
      <4>2. CASE job.id # TheItem.id
        <5>1. keysUnique /\ \E i \in Ids \ {job.id} : Holds(i, TheItem.key)
          BY <1>6, <4>1, <4>2 DEF AttemptInv, NamedElsewhere
        <5>2. Taken(r)
          BY <1>2, <5>1 DEF Taken, Holds
        <5>3. QED BY <2>1, <5>2
      <4>3. QED BY <4>1, <4>2
    <3>3. QED BY <3>1, <3>2
  <2>4. QED BY <1>2, <1>4, <2>2, <2>3 DEF Holds
<1>10. IdentityNamesOwner'
  BY <1>2, OwnersStay DEF WriteInv
<1>11. QED BY <1>5, <1>7, <1>8, <1>9, <1>10 DEF WriteInv

\* A late request is served while the process is anywhere.
LEMMA LateServed ==
  ASSUME TypeOK, TypeOK', WriteInv, LateArrives
  PROVE  WriteInv'
<1> USE DEF Durable
<1>1. PICK r \in late : late' = late \ {r} /\ Serve(r) /\ UNCHANGED <<keysUnique, Durable, job>>
  BY DEF LateArrives
<1>2. r \in Request /\ Fits(r)
  BY DEF TypeOK, WriteInv, TargetInv
<1>3. TheItem' = TheItem /\ TheRequest' = TheRequest /\ ResolvedId' = ResolvedId
  BY <1>1 DEF TheItem, TheRequest, ResolvedId
<1>4. TargetInv'
  BY <1>1, <1>2, Serving DEF WriteInv
<1>5. AttemptInv'
  <2>1. ASSUME Attempting
        PROVE  /\ Sole(TheRequest)' /\ AsPlanned(job.id, TheRequest.record)'
               /\ MayUse(job.id, TheItem.key)' /\ NamedElsewhere'
               /\ Taken(TheRequest) => Taken(TheRequest)'
    <3>1. PICK q \in Request : q = TheRequest
      BY <2>1, TheRequestType DEF Attempting, ItemStates
    <3>2. /\ Sole(q) /\ AsPlanned(job.id, q.record) /\ MayUse(job.id, TheItem.key)
          /\ NamedElsewhere
      BY <2>1, <3>1 DEF WriteInv, AttemptInv
    <3>3. Sole(q)'
      BY <1>1, <1>2, <3>2, SoleStays
    <3>4. AsPlanned(job.id, q.record)'
      BY <1>1, <1>2, <3>2, ServeKeeps DEF AsPlanned
    <3>5. MayUse(job.id, TheItem.key)'
      BY <1>1, <1>3, <3>2 DEF MayUse
    <3>6. NamedElsewhere'
      <4>1. \A i \in Ids : Holds(i, TheItem.key) => Holds(i, TheItem.key)'
        BY <1>1, <1>2, <1>3, ServeKeeps DEF Holds
      <4>2. QED BY <1>1, <1>3, <3>2, <4>1 DEF NamedElsewhere
    <3>7. Taken(q) => Taken(q)'
      BY <1>1, <1>2, ServeKeeps
    <3>8. QED BY <1>3, <3>1, <3>3, <3>4, <3>5, <3>6, <3>7
  <2>2. conflicted \subseteq conflicted'
    BY <1>1, <1>2, ServeKeeps
  <2>3. QED BY <1>1, <1>3, <2>1, <2>2 DEF WriteInv, AttemptInv, Attempting
<1>6. NoneAhead'
  <2>1. ASSUME NEW w, Reached(w) PROVE Reached(w)'
    BY <1>1, <2>1 DEF Reached
  <2>2. Reached(r.record)'
    BY <2>1 DEF WriteInv, NoneAhead
  <2>3. ASSUME NEW i \in Ids, target'[i] # None, target'[i] # ForeignRecord
        PROVE  Reached(target[i])'
    <3>1. CASE Taken(r) \/ i # r.id
      <4>1. target'[i] = target[i]
        BY <1>1, <1>2, <3>1, ServeKeeps DEF TypeOK
      <4>2. Reached(target[i])
        BY <2>3, <4>1 DEF WriteInv, NoneAhead
      <4>3. PICK w : w = target[i]
        OBVIOUS
      <4>4. QED BY <2>1, <4>1, <4>2, <4>3 DEF Reached
    <3>2. CASE ~Taken(r) /\ i = r.id
      <4>1. target'[i] = r.record
        BY <1>1, <1>2, <3>2, ServeKeeps DEF TypeOK
      <4>2. QED BY <2>2, <4>1 DEF Reached
    <3>3. QED BY <3>1, <3>2
  <2>4. \A s \in late' : Reached(s.record)'
    BY <1>1, <2>1 DEF WriteInv, NoneAhead
  <2>5. QED BY <2>3, <2>4 DEF NoneAhead
<1>7. AnswersNameOwner'
  <2> SUFFICES ASSUME (job.pc = "reply" /\ job.reply = "ok") \/ job.pc = "sync", ResolvedId # None
               PROVE  Holds(ResolvedId, TheItem.key)'
    BY <1>1, <1>3 DEF AnswersNameOwner
  <2>1. Holds(ResolvedId, TheItem.key)
    BY DEF WriteInv, AnswersNameOwner
  <2>2. ResolvedId \in Ids
    BY TheItemType DEF ResolvedId, TypeOK, Job, Item
  <2>3. QED BY <1>1, <1>2, <1>3, <2>1, <2>2, ServeKeeps DEF Holds
<1>8. IdentityNamesOwner'
  BY <1>1, <1>2, OwnersStay DEF WriteInv
<1>9. QED BY <1>4, <1>5, <1>6, <1>7, <1>8 DEF WriteInv

\* The first request of an item: nothing this start has written or sent so far
\* is about the person, because a plan has one item for a person.
LEMMA RequestBuilt ==
  ASSUME TypeOK, TypeOK', WriteInv, BuildRequest
  PROVE  WriteInv'
<1> USE DEF External, Durable, History
<1>1. /\ job.pc = "item" /\ job'.pc = "send" /\ job'.plan = job.plan /\ job'.at = job.at
      /\ job'.id = TheItem.id /\ job.at \in Nat /\ job \in Job
  BY DEF BuildRequest, TypeOK, Job
<1>2. job.plan \in Plans /\ job.at \in DOMAIN Items[job.plan] /\ TheItem \in Item
  BY <1>1, TheItemType
<1>3. /\ TheItem' = TheItem
      /\ TheRequest'.id = TheItem.id
      /\ TheRequest'.record.key = TheItem.key /\ TheRequest'.record.apply = applies
      /\ TheRequest'.record.plan = job.plan
  BY <1>1 DEF TheItem, TheRequest, BuildRequest
<1>4. /\ UNCHANGED <<target, keysUnique, late, conflicted, identity, applies>>
  BY DEF BuildRequest
<1>5. job.limit \in 1..Len(Items[job.plan]) /\ job.at <= job.limit /\ Items[job.plan] \in Seq(Item)
  BY <1>1, <1>2, ApplyAssumption DEF TypeOK
<1>6. ASSUME NEW w, Reached(w), w.key = TheItem.key, w.apply = applies
      PROVE  FALSE
  <2>1. PICK n \in 1..job.at : Items[job.plan][n].key = w.key /\ n # job.at
    BY <1>1, <1>6 DEF Reached
  <2>2. n \in DOMAIN Items[job.plan]
    BY <1>1, <1>5, <2>1
  <2>3. QED BY <1>2, <1>6, <2>1, <2>2, PlansAssumption DEF TheItem
<1>7. AttemptInv'
  <2>1. Sole(TheRequest)'
    <3>1. ASSUME NEW i \in Ids, target[i] # None, Same(target[i], TheRequest'.record)
          PROVE  FALSE
      <4>1. target[i] # ForeignRecord
        BY <1>2, <1>3, <3>1, RecordTypes DEF Same, Item
      <4>2. Reached(target[i])
        BY <3>1, <4>1 DEF WriteInv, NoneAhead
      <4>3. QED BY <1>3, <1>6, <3>1, <4>2 DEF Same
    <3>2. ASSUME NEW s \in late, Same(s.record, TheRequest'.record)
          PROVE  FALSE
      BY <1>3, <1>6, <3>2 DEF Same, WriteInv, NoneAhead
    <3>3. QED BY <1>4, <3>1, <3>2 DEF Sole
  <2>2. AsPlanned(job.id, TheRequest.record)'
    BY <1>1, <1>2, <1>3 DEF AsPlanned, TheItem
  <2>3. MayUse(job.id, TheItem.key)'
    BY <1>1, <1>2, <1>3, PlansAssumption DEF MayUse, TheItem
  <2>4. NamedElsewhere'
    BY <1>1, <1>3 DEF NamedElsewhere
  <2>5. QED BY <1>1, <2>1, <2>2, <2>3, <2>4 DEF AttemptInv
<1>8. AnswersNameOwner'
  BY <1>1 DEF AnswersNameOwner
<1>9. QED BY <1>1, <1>4, <1>7, <1>8, WriteQuiet

\* A retry keeps the request, or replaces its id after a conflict, when nothing
\* this start has written can be about the person.
LEMMA RequestRetried ==
  ASSUME TypeOK, TypeOK', WriteInv, Retry
  PROVE  WriteInv'
<1> USE DEF External, Durable, History
<1>1. /\ job.pc = "reply" /\ job'.pc = "send" /\ job'.plan = job.plan /\ job'.at = job.at
      /\ job'.secret = job.secret
      /\ job'.id = IF job.reply = "exists" THEN NewId ELSE job.id
  BY DEF Retry, TypeOK, Job
<1>2. job.plan \in Plans /\ job.at \in DOMAIN Items[job.plan] /\ TheItem \in Item
  BY <1>1, TheItemType
<1>3. UNCHANGED <<target, keysUnique, late, conflicted, identity, applies>>
  BY DEF Retry
<1>4. TheItem' = TheItem /\ TheRequest'.record = TheRequest.record /\ TheRequest'.id = job'.id
      /\ TheRequest.id = job.id /\ TheRequest.record.key = TheItem.key
      /\ TheRequest.record.plan = job.plan
  BY <1>1, <1>3 DEF TheItem, TheRequest
<1>5. /\ Sole(TheRequest) /\ AsPlanned(job.id, TheRequest.record)
      /\ MayUse(job.id, TheItem.key) /\ NamedElsewhere
      /\ job.reply = "exists" => Taken(TheRequest) /\ <<job.plan, TheItem.key>> \in conflicted
  BY <1>1 DEF WriteInv, AttemptInv, Attempting
<1>6. \A s \in late : Taken(s)' = Taken(s)
  BY <1>3 DEF Taken
<1>7. CASE job.reply # "exists"
  <2>1. job'.id = job.id /\ TheRequest' = TheRequest
    BY <1>1, <1>3, <1>4, <1>7 DEF TheRequest
  <2>2. Sole(TheRequest)'
    BY <1>3, <1>5, <1>6, <2>1 DEF Sole
  <2>3. AsPlanned(job.id, TheRequest.record)' /\ MayUse(job.id, TheItem.key)'
    BY <1>3, <1>4, <1>5, <2>1 DEF AsPlanned, MayUse
  <2>4. NamedElsewhere'
    BY <1>3, <1>4, <1>5, <2>1 DEF NamedElsewhere, Holds
  <2>5. AttemptInv' /\ AnswersNameOwner'
    BY <1>1, <2>2, <2>3, <2>4 DEF AttemptInv, AnswersNameOwner
  <2>6. QED BY <1>1, <1>3, <2>5, WriteQuiet
<1>8. CASE job.reply = "exists"
  <2>1. NewId \in FreshIds /\ job'.id = NewId
    BY <1>1, <1>8 DEF Retry, NewId
  <2>2. /\ NewId \in Ids /\ target[NewId] = None /\ NewId # job.id
        /\ \A p \in Plans : \A n \in DOMAIN Items[p] : Items[p][n].id # NewId
    BY <2>1 DEF FreshIds
  <2>3. Taken(TheRequest)
    BY <1>5, <1>8
  <2>4. ASSUME NEW i \in Ids, target[i] # None, Same(target[i], TheRequest.record)
        PROVE  FALSE
    <3>1. i = job.id /\ target[job.id].key = TheItem.key
      BY <1>4, <1>5, <2>4 DEF Sole, Same
    <3>2. keysUnique /\ \E j \in Ids \ {job.id} : target[j] # None /\ target[j].key = TheItem.key
      BY <1>4, <2>3, <3>1 DEF Taken
    <3>3. QED BY <2>4, <3>1, <3>2 DEF WriteInv, TargetInv, KeysAreUnique
  <2>5. ASSUME NEW s \in late, Same(s.record, TheRequest.record)
        PROVE  Taken(s)
    <3>1. CASE s.id # job.id
      BY <1>4, <1>5, <2>5, <3>1 DEF Sole
    <3>2. CASE s.id = job.id
      BY <1>4, <2>3, <2>5, <3>2 DEF Taken, Same
    <3>3. QED BY <3>1, <3>2
  <2>6. Sole(TheRequest)'
    BY <1>3, <1>4, <1>6, <2>4, <2>5 DEF Sole
  <2>7. AsPlanned(job.id, TheRequest.record)' /\ MayUse(job.id, TheItem.key)'
    BY <1>3, <1>4, <1>5, <1>8, <2>1, <2>2 DEF AsPlanned, MayUse
  <2>8. NamedElsewhere'
    <3> SUFFICES ASSUME TheItem.named
                 PROVE  keysUnique /\ \E i \in Ids \ {NewId} : Holds(i, TheItem.key)
      BY <1>3, <1>4, <2>1 DEF NamedElsewhere, Holds
    <3>1. keysUnique /\ \E i \in Ids : Holds(i, TheItem.key)
      <4>1. CASE job.id # TheItem.id
        BY <1>5, <4>1 DEF NamedElsewhere
      <4>2. CASE job.id = TheItem.id
        <5>1. job.id \in Ids
          BY <1>1 DEF TypeOK
        <5>2. target[job.id] # None => target[job.id].key = TheItem.key
          BY <1>2, <4>2, <5>1 DEF WriteInv, TargetInv, MayUse, TheItem
        <5>3. QED BY <1>4, <2>3, <5>2 DEF Taken, Holds
      <4>3. QED BY <4>1, <4>2
    <3>2. QED BY <2>2, <3>1 DEF Holds
  <2>9. AttemptInv' /\ AnswersNameOwner'
    BY <1>1, <2>6, <2>7, <2>8 DEF AttemptInv, AnswersNameOwner
  <2>10. QED BY <1>1, <1>3, <2>9, WriteQuiet
<1>9. QED BY <1>7, <1>8

\* An attempt whose service nobody has seen yet.
LEMMA AttemptAbandoned ==
  ASSUME TypeOK, TypeOK', WriteInv, SendTimesOut
  PROVE  WriteInv'
<1> USE DEF Durable, History
<1>1. /\ job.pc = "send" /\ job'.pc = "reply" /\ job'.id = job.id /\ job'.plan = job.plan
      /\ job'.at = job.at /\ job'.reply = "again" /\ job'.secret = job.secret
  BY DEF SendTimesOut, Hear, TypeOK, Job
<1>2. /\ late' = late \cup {TheRequest}
      /\ UNCHANGED <<target, keysUnique, conflicted, identity, applies>>
  BY DEF SendTimesOut
<1>3. PICK r \in Request : r = TheRequest
  BY <1>1, TheRequestType DEF ItemStates
<1>4. TheItem' = TheItem /\ TheRequest' = r
  BY <1>1, <1>2, <1>3 DEF TheItem, TheRequest
<1>5. /\ Fits(r) /\ r.id = job.id /\ r.record.key = TheItem.key
      /\ r.record.plan = job.plan /\ r.record.apply = applies
  BY <1>1, <1>3, AttemptFits DEF WriteInv, Attempting
<1>6. TargetInv'
  BY <1>2, <1>3, <1>5, Abandoning DEF WriteInv
<1>7. AttemptInv'
  <2>1. /\ Sole(r) /\ AsPlanned(job.id, r.record)
        /\ MayUse(job.id, TheItem.key) /\ NamedElsewhere
    BY <1>1, <1>3 DEF WriteInv, AttemptInv, Attempting
  <2>2. Sole(r)'
    BY <1>2, <1>3, <2>1 DEF Sole, Taken
  <2>3. AsPlanned(job.id, r.record)' /\ MayUse(job.id, TheItem.key)'
    BY <1>1, <1>2, <1>4, <2>1 DEF AsPlanned, MayUse
  <2>4. NamedElsewhere'
    BY <1>1, <1>2, <1>4, <2>1 DEF NamedElsewhere, Holds
  <2>5. QED BY <1>1, <1>4, <2>2, <2>3, <2>4 DEF AttemptInv
<1>8. NoneAhead'
  <2>1. ASSUME NEW w, Reached(w) PROVE Reached(w)'
    BY <1>1, <1>2, <2>1, ReachedStays
  <2>2. Reached(r.record)'
    <3>1. job.at \in Nat /\ job.at >= 1 /\ applies \in Nat
      BY <1>1 DEF TypeOK, Job
    <3>2. Items[job'.plan][job'.at].key = r.record.key /\ job'.at \in 1..job'.at
      BY <1>1, <1>5, <3>1 DEF TheItem
    <3>3. QED BY <1>1, <1>2, <1>5, <3>1, <3>2 DEF Reached
  <2>3. QED BY <1>2, <1>3, <2>1, <2>2 DEF WriteInv, NoneAhead
<1>9. AnswersNameOwner' /\ IdentityNamesOwner'
  BY <1>1, <1>2 DEF WriteInv, AnswersNameOwner, IdentityNamesOwner
<1>10. QED BY <1>6, <1>7, <1>8, <1>9 DEF WriteInv

\* The index gets what the answer, or a desired state the target has agreed to,
\* names.
LEMMA IdentitySynced ==
  ASSUME TypeOK, TypeOK', WriteInv, SyncIdentity
  PROVE  WriteInv'
<1> USE DEF External, History
<1>1. /\ job.pc = "sync" /\ job'.pc = "retain" /\ job'.plan = job.plan /\ job'.at = job.at
  BY DEF SyncIdentity, TypeOK, Job
<1>2. UNCHANGED <<target, keysUnique, late, conflicted, applies>>
  BY DEF SyncIdentity
<1>3. TheItem.key \in Keys
  BY <1>1, TheItemType DEF Item
<1>4. IdentityNamesOwner'
  <2> SUFFICES ASSUME NEW k \in Keys, NEW id \in identity'[k]
               PROVE  target[id] # None /\ target[id].key = k
    BY <1>2 DEF IdentityNamesOwner
  <2>1. CASE id \in identity[k]
    BY <2>1 DEF WriteInv, IdentityNamesOwner
  <2>2. CASE id \notin identity[k]
    <3>1. ResolvedId # None /\ k = TheItem.key /\ id = ResolvedId
      BY <1>3, <2>2 DEF SyncIdentity, TypeOK
    <3>2. QED BY <1>1, <3>1 DEF WriteInv, AnswersNameOwner, Holds
  <2>3. QED BY <2>1, <2>2
<1>5. TargetInv'
  BY <1>2, TargetAlone DEF WriteInv
<1>6. NoneAhead'
  <2>1. ASSUME NEW w, Reached(w) PROVE Reached(w)'
    BY <1>1, <1>2, <2>1, ReachedStays
  <2>2. QED BY <1>2, <2>1 DEF WriteInv, NoneAhead
<1>7. AttemptInv' /\ AnswersNameOwner'
  BY <1>1 DEF AttemptInv, Attempting, AnswersNameOwner
<1>8. QED BY <1>4, <1>5, <1>6, <1>7 DEF WriteInv

\* WriteInv is an invariant, for any plans, any target and any order of answers,
\* timeouts, late services, crashes and starts of import-apply.
THEOREM WritesAgree == Spec => []WriteInv
<1>1. Init => WriteInv
  <2> SUFFICES ASSUME Init PROVE WriteInv
    OBVIOUS
  <2>1. /\ \A i \in Ids : target[i] # None => target[i] = ForeignRecord /\ i \in NewIds
        /\ \A i, j \in Ids : target[i] # None /\ target[j] # None => i = j
    <3>1. CASE target = [id \in Ids |-> None]
      BY <3>1
    <3>2. CASE target # [id \in Ids |-> None]
      <4>1. PICK new \in NewIds :
              target = [id \in Ids |-> IF id = new THEN ForeignRecord ELSE None]
        BY <3>2 DEF Init
      <4>2. QED BY <4>1
    <3>3. QED BY <3>1, <3>2
  <2>2. late = {} /\ job.pc = "idle" /\ \A k \in Keys : identity[k] = {}
    BY DEF Init, NoJob
  <2>3. \A i \in Ids : target[i] # None => MayUse(i, target[i].key)
    BY <2>1 DEF NewIds, MayUse
  <2>4. TargetInv
    BY <2>1, <2>2, <2>3 DEF TargetInv, KeysAreUnique, OneIdPerRun
  <2>5. QED
    BY <2>1, <2>2, <2>4 DEF WriteInv, AttemptInv, Attempting, NoneAhead, AnswersNameOwner,
       IdentityNamesOwner
<1>2. TypeOK /\ TypeOK' /\ WriteInv /\ [Next]_vars => WriteInv'
  <2> SUFFICES ASSUME TypeOK, TypeOK', WriteInv, [Next]_vars PROVE WriteInv'
    OBVIOUS
  <2> job \in Job
    BY DEF TypeOK
  <2> USE DEF External, Durable, History
  <2>1. ASSUME job' = job,
               UNCHANGED <<target, keysUnique, late, conflicted, identity, applies>>
        PROVE  WriteInv'
    <3>1. TargetInv'
      BY <2>1, TargetAlone DEF WriteInv
    <3>2. TheItem' = TheItem /\ TheRequest' = TheRequest /\ ResolvedId' = ResolvedId
      BY <2>1 DEF TheItem, TheRequest, ResolvedId
    <3>3. AttemptInv'
      BY <2>1, <3>2 DEF WriteInv, AttemptInv, Attempting, Sole, Taken, AsPlanned, MayUse,
         NamedElsewhere, Holds
    <3>4. NoneAhead' /\ AnswersNameOwner' /\ IdentityNamesOwner'
      BY <2>1, <3>2 DEF WriteInv, NoneAhead, Reached, AnswersNameOwner, Holds, IdentityNamesOwner
    <3>5. QED BY <3>1, <3>3, <3>4 DEF WriteInv
  <2>2. ASSUME UNCHANGED <<target, keysUnique, late, conflicted, identity, applies>>,
               \/ job'.pc = "idle"
               \/ /\ job.pc # "idle" /\ job'.plan = job.plan
                  /\ \/ job'.at = job.at /\ job'.pc \in {"next"}
                     \/ job'.at = job.at + 1 /\ job'.pc = "item"
        PROVE  WriteInv'
    <3>1. AttemptInv' /\ AnswersNameOwner'
      BY <2>2 DEF AttemptInv, Attempting, AnswersNameOwner
    <3>2. QED BY <2>2, <3>1, WriteQuiet
  <2>3. ASSUME NEW p \in Plans, StorePlan(p) PROVE WriteInv'
    BY <2>1, <2>3 DEF StorePlan
  <2>4. ASSUME NEW p \in Plans, NEW limit \in 1..Len(Items[p]),
               NEW dry \in BOOLEAN, NEW stop \in BOOLEAN,
               StartApply(p, limit, dry, stop)
        PROVE  WriteInv'
    <3>1. /\ job'.pc = "item" /\ applies' = applies + 1 /\ applies \in Nat
          /\ UNCHANGED <<target, keysUnique, late, conflicted, identity>>
      BY <2>4, NoJobType DEF StartApply, NoJob, TypeOK
    <3>2. TargetInv' /\ AttemptInv' /\ AnswersNameOwner' /\ IdentityNamesOwner'
      BY <3>1, TargetAlone DEF WriteInv, AttemptInv, Attempting, AnswersNameOwner,
         IdentityNamesOwner
    <3>3. ASSUME NEW w \in Written, Reached(w) PROVE Reached(w)'
      <4>1. w.apply \in Nat /\ w.apply <= applies
        BY <3>3 DEF Written, Reached
      <4>2. QED BY <3>1, <4>1 DEF Reached
    <3>4. NoneAhead'
      <4>1. \A i \in Ids : target[i] # None /\ target[i] # ForeignRecord => target[i] \in Written
        BY RecordTypes
      <4>2. \A r \in late : r.record \in Written
        BY DEF TypeOK, Request
      <4>3. QED BY <3>1, <3>3, <4>1, <4>2 DEF WriteInv, NoneAhead
    <3>5. QED BY <3>2, <3>4 DEF WriteInv
  <2>5. CASE MissingSecret BY <2>2, <2>5 DEF MissingSecret, ItemFails, Job
  <2>6. CASE DryItem BY <2>2, <2>6 DEF DryItem, Job
  <2>7. CASE BuildRequest BY <2>7, RequestBuilt
  <2>8. CASE SendServed
    <3>1. job.id \in Ids
      BY <2>8 DEF SendServed, TypeOK
    <3>2. CASE Taken(TheRequest)
      <4>1. Hear("exists", None)
        BY <2>8, <3>2 DEF SendServed
      <4>2. QED BY <2>8, <3>2, <4>1, AttemptServed DEF SendServed, Replies
    <3>3. CASE ~Taken(TheRequest)
      <4>1. PICK answered \in {job.id, None} : Hear("ok", answered)
        BY <2>8, <3>3 DEF SendServed
      <4>2. QED BY <2>8, <3>1, <3>3, <4>1, AttemptServed DEF SendServed, Replies
    <3>4. QED BY <3>2, <3>3
  <2>9. CASE SendUnanswered
    <3>1. PICK reply \in {"again", "rejected"} : Hear(reply, None)
      BY <2>9 DEF SendUnanswered
    <3>2. QED BY <2>9, <3>1, AttemptServed DEF SendUnanswered, Replies
  <2>10. CASE SendUnserved
    <3>1. PICK reply \in {"again", "rejected"} : Hear(reply, None)
      BY <2>10 DEF SendUnserved
    <3>2. /\ job.pc = "send" /\ job'.pc = "reply" /\ job'.id = job.id /\ job'.plan = job.plan
          /\ job'.at = job.at /\ job'.reply \in {"again", "rejected"}
          /\ job'.secret = job.secret
      BY <2>10, <3>1 DEF SendUnserved, Hear, Job
    <3>3. UNCHANGED <<target, keysUnique, late, conflicted, identity, applies>>
      BY <2>10 DEF SendUnserved
    <3>4. TheItem' = TheItem /\ TheRequest' = TheRequest
      BY <3>2, <3>3 DEF TheItem, TheRequest
    <3>5. AttemptInv'
      BY <3>2, <3>3, <3>4 DEF WriteInv, AttemptInv, Attempting, Sole, Taken, AsPlanned, MayUse,
         NamedElsewhere, Holds
    <3>6. AnswersNameOwner'
      BY <3>2 DEF AnswersNameOwner
    <3>7. QED BY <3>2, <3>3, <3>5, <3>6, WriteQuiet
  <2>11. CASE SendTimesOut BY <2>11, AttemptAbandoned
  <2>12. CASE Retry BY <2>12, RequestRetried
  <2>13. CASE GiveUp BY <2>2, <2>13 DEF GiveUp, ItemFails, Job
  <2>14. CASE Succeed
    <3>1. /\ job.pc = "reply" /\ job.reply = "ok" /\ job'.pc = "sync" /\ job'.plan = job.plan
          /\ job'.at = job.at /\ job'.answered = job.answered
          /\ UNCHANGED <<target, keysUnique, late, conflicted, identity, applies>>
      BY <2>14 DEF Succeed, Job
    <3>2. TheItem' = TheItem /\ ResolvedId' = ResolvedId
      BY <3>1 DEF TheItem, ResolvedId
    <3>3. AttemptInv' /\ AnswersNameOwner'
      BY <3>1, <3>2 DEF WriteInv, AttemptInv, Attempting, AnswersNameOwner, Holds
    <3>4. QED BY <3>1, <3>3, WriteQuiet
  <2>15. CASE SyncIdentity BY <2>15, IdentitySynced
  <2>16. CASE Retain
    BY <2>2, <2>16 DEF Retain, Job
  <2>17. CASE SideEffectFails BY <2>2, <2>17 DEF SideEffectFails, ItemFails, Job
  <2>18. CASE NextItem
    <3>1. \/ job'.pc = "idle"
          \/ job'.plan = job.plan /\ job'.at = job.at + 1 /\ job'.pc = "item"
      BY <2>18, NoJobType DEF NextItem, NoJob
    <3>2. QED BY <2>2, <2>18, <3>1 DEF NextItem
  <2>19. CASE LateArrives BY <2>19, LateServed
  <2>20. CASE Crash BY <2>2, <2>20 DEF Crash, NoJob
  <2>21. CASE UNCHANGED vars BY <2>1, <2>21 DEF vars
  <2>22. QED
    BY <2>3, <2>4, <2>5, <2>6, <2>7, <2>8, <2>9, <2>10, <2>11, <2>12, <2>13, <2>14,
       <2>15, <2>16, <2>17, <2>18, <2>19, <2>20, <2>21 DEF Next, ApplyStep
<1>3. QED BY <1>1, <1>2, TypeCorrect, PTL DEF Spec

\* One start of import-apply writes one record for a person, whatever answers are
\* lost and however often the id is regenerated (gateway.py, _apply_execute_retry).
THEOREM OneIdPerRunCorrect == Spec => []OneIdPerRun
<1>1. WriteInv => OneIdPerRun
  BY DEF WriteInv, TargetInv
<1>2. QED BY <1>1, WritesAgree, PTL

\* A plan file that is applied again writes its items under the ids it wrote them
\* under before, unless the target has refused one of them (import_apply_service.py,
\* apply_plan, which keeps no record of its progress).
THEOREM ReapplyIsIdempotentCorrect == Spec => []ReapplyIsIdempotent
<1>1. TypeOK /\ WriteInv => ReapplyIsIdempotent
  <2> SUFFICES ASSUME TypeOK, WriteInv, NEW i \in Ids, NEW j \in Ids,
                      target[i] # None, target[j] # None, target[i].plan # None,
                      target[i].plan = target[j].plan, target[i].key = target[j].key,
                      <<target[i].plan, target[i].key>> \notin conflicted
               PROVE  i = j
    BY DEF ReapplyIsIdempotent
  <2>1. AsPlanned(i, target[i]) /\ AsPlanned(j, target[j]) /\ target[i] \in Written
    BY RecordTypes DEF WriteInv, TargetInv
  <2>2. PICK n \in DOMAIN Items[target[i].plan] :
          Items[target[i].plan][n].key = target[i].key /\ Items[target[i].plan][n].id = i
    BY <2>1 DEF AsPlanned
  <2>3. PICK m \in DOMAIN Items[target[i].plan] :
          Items[target[i].plan][m].key = target[i].key /\ Items[target[i].plan][m].id = j
    BY <2>1 DEF AsPlanned
  <2>4. QED BY <2>1, <2>2, <2>3, PlansAssumption DEF Written
<1>2. QED BY <1>1, TypeCorrect, WritesAgree, PTL

\* An entry of the identity index is an id under which the target holds that
\* person (import_apply_service.py, _sync_identity_index).
THEOREM IdentityNamesOwnerCorrect == Spec => []IdentityNamesOwner
<1>1. WriteInv => IdentityNamesOwner
  BY DEF WriteInv
<1>2. QED BY <1>1, WritesAgree, PTL

=============================================================================
