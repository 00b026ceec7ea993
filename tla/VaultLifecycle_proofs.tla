------------------------ MODULE VaultLifecycle_proofs ------------------------
(***************************************************************************)
(* Proofs about VaultLifecycle for any number of processes, rows and runs. *)
(*                                                                         *)
(* The argument for Recoverable is that the unwrapping of every DEK inside *)
(* the rewrap transaction acts as a compare-and-swap on the master key.    *)
(* For that there must be a DEK to unwrap whenever there is metadata: this *)
(* is what a verified init guarantees, and why ReadyInv below carries the  *)
(* probe, the active DEK and the control state along.                      *)
(***************************************************************************)
EXTENDS VaultLifecycle, FiniteSetTheorems, TLAPS

\* Changing one local variable of a process leaves a table of commands, the
\* run and the operation of every command, and the commands of the others.
LEMMA CommandUpdate ==
  ASSUME cmd \in [Procs -> Command], NEW p \in Procs, NEW x \in 0..MaxRuns,
         HoldDek(p, x) \/ HoldKey(p, x) \/ HoldCache(p, x) \/ NoteFailure(p)
  PROVE  /\ cmd' \in [Procs -> Command]
         /\ \A q \in Procs : /\ cmd'[q].run = cmd[q].run
                             /\ cmd'[q].op = cmd[q].op
                             /\ cmd'[q].verify = cmd[q].verify
                             /\ q # p => cmd'[q] = cmd[q]
         /\ ~HoldKey(p, x) => \A q \in Procs : cmd'[q].key = cmd[q].key
<1>1. cmd[p] \in Command
  OBVIOUS
<1>2. /\ [cmd[p] EXCEPT !.dek = x] \in Command
      /\ [cmd[p] EXCEPT !.key = x] \in Command
      /\ [cmd[p] EXCEPT !.cache = x] \in Command
      /\ [cmd[p] EXCEPT !.ok = FALSE] \in Command
  BY <1>1 DEF Command
<1>3. cmd' \in [Procs -> Command]
  BY <1>1, <1>2 DEF HoldDek, HoldKey, HoldCache, NoteFailure
<1>4. QED
  BY <1>3 DEF HoldDek, HoldKey, HoldCache, NoteFailure, Command

\* Every variable keeps its type: run ids, key versions and DEK versions are
\* those of commands that were started.
THEOREM TypeCorrect == Spec => []TypeOK
<1> USE LifecycleConstants DEF TypeOK, Runs, Keys, Deks, None
<1>1. Init => TypeOK
  BY DEF Init, Statuses, Ops, Labels, NoCommand, Command
<1>2. TypeOK /\ [Next]_vars => TypeOK'
  <2> SUFFICES ASSUME TypeOK, [Next]_vars PROVE TypeOK'
    OBVIOUS
  <2> USE DEF Statuses, Ops, Labels, Goto, db, log
  <2>1. ASSUME NEW p \in Procs, Begin(p) PROVE TypeOK'
    <3>1. nextRun <= MaxRuns => nextRun \in 0..MaxRuns /\ nextRun + 1 \in 1..(MaxRuns + 1)
      OBVIOUS
    <3>2. ASSUME NEW op \in Ops, NEW key \in 0..MaxRuns, NEW v \in BOOLEAN,
                 NEW label \in Labels, Start(p, op, key, v, label)
          PROVE  TypeOK'
      <4>1. [op |-> op, run |-> nextRun, key |-> key, verify |-> v,
             dek |-> None, cache |-> None, ok |-> TRUE] \in Command
        BY <3>1, <3>2 DEF Command, Start
      <4>2. cmd' \in [Procs -> Command] /\ pc' \in [Procs -> Labels]
        BY <3>2, <4>1 DEF Start
      <4>3. QED BY <3>1, <3>2, <4>2, SMTT(60) DEF Start
    <3>3. CASE StartInit(p)
      BY <3>1, <3>2, <3>3, ZenonT(60) DEF StartInit, Start
    <3>4. CASE StartRotate(p) BY <3>2, <3>4, ZenonT(60) DEF StartRotate
    <3>5. CASE StartRewrap(p) BY <3>2, <3>5, ZenonT(60) DEF StartRewrap
    <3>6. CASE StartCheck(p) BY <3>2, <3>6 DEF StartCheck
    <3>7. CASE StartRun(p) BY <3>2, <3>7 DEF StartRun
    <3>8. QED BY <2>1, <3>3, <3>4, <3>5, <3>6, <3>7 DEF Begin
  <2>2. ASSUME NEW p \in Procs, Manage(p) PROVE TypeOK'
    <3> cmd[p].run \in 0..MaxRuns /\ cmd[p].key \in 0..MaxRuns
      BY DEF Command
    <3>1. CASE InitTx(p)
      BY <3>1, ZenonT(60) DEF InitTx
    <3>2. ASSUME NEW k \in 0..MaxRuns, RewrapAll(p, k), pc[p] = "tx",
                 cmd[p].op \in Ops, meta' \in 0..MaxRuns
          PROVE  TypeOK'
      <4>1. cmd' \in [Procs -> Command] /\ \A q \in Procs : cmd'[q].run = cmd[q].run
        BY <3>2, CommandUpdate DEF RewrapAll
      <4>2. cmd[p].run \in Runs
        BY <3>2
      <4>3. QED BY <3>2, <4>1, <4>2 DEF RewrapAll, DekRows
    <3>3. CASE RotateTx(p) BY <3>2, <3>3 DEF RotateTx
    <3>4. CASE RewrapTx(p) BY <3>2, <3>4 DEF RewrapTx
    <3>5. CASE RollbackTx(p)
      BY <3>5, CommandUpdate DEF RollbackTx
    <3>6. QED BY <2>2, <3>1, <3>3, <3>4, <3>5 DEF Manage
  <2>3. ASSUME NEW p \in Procs, Guard(p) PROVE TypeOK'
    <3> cmd[p].run \in 0..MaxRuns /\ cmd[p].key \in 0..MaxRuns /\ cmd[p].dek \in 0..MaxRuns
      BY DEF Command
    <3>1. CASE GuardReadProbe(p) BY <3>1, CommandUpdate DEF GuardReadProbe
    <3>2. CASE GuardUseDek(p) BY <3>2, CommandUpdate, SMTT(60) DEF GuardUseDek
    <3>3. CASE GuardNoDek(p) BY <3>3 DEF GuardNoDek
    <3>4. CASE GuardCreateDek(p)
      BY <3>4, CommandUpdate, SMTT(60) DEF GuardCreateDek, InsertDek
    <3>5. CASE GuardWriteProbe(p) BY <3>5 DEF GuardWriteProbe
    <3>6. CASE GuardPass(p) BY <3>6 DEF GuardPass, AfterGuard
    <3>7. CASE GuardFail(p) BY <3>7, CommandUpdate, ZenonT(60) DEF GuardFail
    <3>8. QED BY <2>3, <3>1, <3>2, <3>3, <3>4, <3>5, <3>6, <3>7 DEF Guard
  <2>4. ASSUME NEW p \in Procs, Mark(p) PROVE TypeOK'
    <3> cmd[p].run \in 0..MaxRuns /\ cmd[p].op \in Ops
      BY DEF Command
    <3>1. CASE MarkRun(p) BY <3>1 DEF MarkRun
    <3>2. CASE MarkResult(p) BY <3>2 DEF MarkResult
    <3>3. CASE MarkRotatedAt(p) BY <3>3 DEF MarkRotatedAt
    <3>4. QED BY <2>4, <3>1, <3>2, <3>3 DEF Mark
  <2>5. ASSUME NEW p \in Procs, Use(p) PROVE TypeOK'
    <3>1. ProviderKey(cmd[p]) \in 0..MaxRuns
      BY DEF ProviderKey, Command
    <3>3. ASSUME NEW s \in Slots, PutSecret(p, s) PROVE TypeOK'
      <4> DEFINE k == ProviderKey(cmd[p])
      <4>1. /\ cmd' \in [Procs -> Command]
            /\ \A q \in Procs : cmd'[q].run = cmd[q].run
        BY <3>1, <3>3, CommandUpdate DEF PutSecret
      <4>2. cmd[p].run \in Runs
        BY <3>3 DEF PutSecret
      <4>3. UNCHANGED <<meta, probe, log, pc, nextRun, committed>>
        BY <3>3 DEF PutSecret
      <4>4. CASE \E d \in active : /\ Opens(k, d)
                                   /\ secrets' = [secrets EXCEPT ![s] = d]
                                   /\ UNCHANGED <<wrappedBy, active>>
        BY <4>1, <4>3, <4>4, SMTT(60)
      <4>5. CASE /\ InsertDek(cmd[p].run, k)
                 /\ secrets' = [secrets EXCEPT ![s] = cmd[p].run]
        <5>1. k \in 0..MaxRuns /\ cmd[p].run \in 0..MaxRuns
          BY <3>1, <4>2
        <5>2. /\ wrappedBy' = [wrappedBy EXCEPT ![cmd[p].run] = k]
              /\ active' = {cmd[p].run}
          BY <4>5 DEF InsertDek
        <5> HIDE DEF k
        <5>3. wrappedBy' \in [Deks -> 0..MaxRuns] /\ active' \in SUBSET Deks
          BY <4>2, <5>1, <5>2
        <5>4. secrets' \in [Slots -> 0..MaxRuns]
          BY <4>5, <5>1
        <5>5. \A q \in Procs : pc'[q] # "idle" => cmd'[q].run \in Runs
          BY <4>1, <4>3
        <5>6. QED
          BY <4>1, <4>3, <5>3, <5>4, <5>5
      <4>6. QED BY <3>3, <4>4, <4>5 DEF PutSecret
    <3>4. ASSUME NEW s \in Slots, DeleteSecret(p, s) PROVE TypeOK'
      BY <3>4 DEF DeleteSecret
    <3>5. CASE ReadSecret(p)
      BY <3>1, <3>5, CommandUpdate DEF ReadSecret
    <3>6. QED BY <2>5, <3>3, <3>4, <3>5 DEF Use
  <2>6. ASSUME NEW p \in Procs, Finish(p) \/ Crash(p) PROVE TypeOK'
    BY <2>6 DEF Finish, Crash
  <2>7. CASE UNCHANGED vars
    BY <2>7 DEF vars
  <2>8. QED
    BY <2>1, <2>2, <2>3, <2>4, <2>5, <2>6, <2>7 DEF Next, Progress
<1>3. QED
  BY <1>1, <1>2, PTL DEF Spec

-----------------------------------------------------------------------------
\* When every init is verified, the vault is empty or ready in every state.
THEOREM ReadyCorrect ==
  ASSUME InitSkipsVerify = FALSE
  PROVE  Spec => []ReadyInv
<1> USE LifecycleConstants DEF Runs, Keys, Deks, None
<1> USE DEF ReadyInv, EmptyVault, ReadyVault, SealedCommands, Recoverable
<1>1. Init => ReadyInv
  BY DEF Init, DekRows
<1>2. TypeOK /\ ReadyInv /\ [Next]_vars => ReadyInv'
  <2> SUFFICES ASSUME TypeOK, ReadyInv, [Next]_vars PROVE ReadyInv'
    OBVIOUS
  <2> USE DEF TypeOK, DekRows
  <2>1. ASSUME NEW p \in Procs, Begin(p) PROVE ReadyInv'
    <3> USE DEF Start, db
    <3>1. CASE StartInit(p) BY <3>1 DEF StartInit
    <3>2. CASE StartRotate(p) BY <3>2 DEF StartRotate
    <3>3. CASE StartRewrap(p) BY <3>3 DEF StartRewrap
    <3>4. CASE StartCheck(p) BY <3>4 DEF StartCheck
    <3>5. CASE StartRun(p) BY <3>5 DEF StartRun
    <3>6. QED BY <2>1, <3>1, <3>2, <3>3, <3>4, <3>5 DEF Begin
  <2>2. ASSUME NEW p \in Procs, InitTx(p) PROVE ReadyInv'
    <3>1. cmd[p].verify /\ cmd[p].run \in Runs /\ cmd[p].key = cmd[p].run
      BY <2>2 DEF InitTx
    <3>2. meta = None
      BY <2>2, <3>1 DEF InitTx
    <3>3. DekRows' = {cmd[p].run} /\ wrappedBy'[cmd[p].run] = cmd[p].run
      BY <2>2, <3>1, <3>2 DEF InitTx
    <3>4. /\ meta' = cmd[p].run /\ probe' = cmd[p].run /\ active' = {cmd[p].run}
          /\ UNCHANGED <<secrets, cmd>>
      BY <2>2, <3>1 DEF InitTx
    <3>5. SealedCommands'
      BY <2>2, <3>1, <3>4 DEF InitTx, Goto
    <3>6. QED BY <3>1, <3>2, <3>3, <3>4, <3>5, SMTT(60)
  <2>3. ASSUME NEW p \in Procs, RotateTx(p) \/ RewrapTx(p) PROVE ReadyInv'
    <3> DEFINE k == IF cmd[p].op = "rotate" THEN cmd[p].run ELSE cmd[p].key
    <3>1. /\ RewrapAll(p, k) /\ pc[p] = "tx" /\ cmd[p].run \in Runs
          /\ meta' = (IF cmd[p].op = "rotate" THEN k ELSE meta)
          /\ cmd[p].op \in {"rotate", "rewrap"}
      BY <2>3 DEF RotateTx, RewrapTx
    \* there is a DEK to unwrap, so the old key is still the current one
    <3>2. meta # None /\ cmd[p].key = meta
      BY <3>1 DEF RewrapAll
    <3>3. meta' = k /\ k \in Runs
      BY <3>1, <3>2
    <3>4. DekRows' = DekRows /\ \A d \in DekRows' : wrappedBy'[d] = k
      BY <3>1, <3>3 DEF RewrapAll
    <3>5. UNCHANGED <<active, probe, secrets>>
      BY <3>1 DEF RewrapAll
    <3>6. \A q \in Procs : cmd'[q].op = cmd[q].op /\ (q # p => cmd'[q] = cmd[q])
      BY <3>1, <3>3, CommandUpdate DEF RewrapAll
    <3>7. SealedCommands'
      BY <3>1, <3>3, <3>6, SMTT(60) DEF RewrapAll, Goto
    <3>8. QED BY <3>2, <3>3, <3>4, <3>5, <3>7, ZenonT(60)
  <2>4. ASSUME NEW p \in Procs, RollbackTx(p) PROVE ReadyInv'
    <3>1. \A q \in Procs : cmd'[q].op = cmd[q].op /\ (q # p => cmd'[q] = cmd[q])
      BY <2>4, CommandUpdate DEF RollbackTx
    <3>2. pc[p] = "tx" /\ UNCHANGED db /\ pc' = [pc EXCEPT ![p] = "mark_run"]
      BY <2>4 DEF RollbackTx, Goto
    <3>3. SealedCommands'
      BY <3>1, <3>2 DEF db
    <3>4. QED BY <3>2, <3>3 DEF db
  \* the probe is there, so the guard only checks it and passes or fails
  <2>5. ASSUME NEW p \in Procs, Guard(p) PROVE ReadyInv'
    <3>1. /\ GuardReadProbe(p) \/ GuardPass(p) \/ GuardFail(p)
          /\ pc[p] \in {"probe", "check"} /\ UNCHANGED db
      BY <2>5 DEF Guard, GuardReadProbe, GuardUseDek, GuardNoDek,
                  GuardCreateDek, GuardWriteProbe, GuardPass, GuardFail
    <3>2. meta # None /\ probe # None /\ cmd[p].op # "init"
      BY <3>1
    <3>3. \A q \in Procs : cmd'[q].op = cmd[q].op /\ (q # p => cmd'[q] = cmd[q])
      BY <3>1, CommandUpdate DEF GuardReadProbe, GuardPass, GuardFail
    <3>4. /\ pc' = [pc EXCEPT ![p] = pc'[p]]
          /\ pc'[p] \in {"check", "mark_run", "running", "idle"}
      BY <3>1, <3>2 DEF GuardReadProbe, GuardPass, GuardFail, AfterGuard, Goto
    <3>5. SealedCommands'
      BY <3>1, <3>2, <3>3, <3>4 DEF db
    <3>6. QED BY <3>1, <3>5 DEF db
  <2>6. ASSUME NEW p \in Procs, Mark(p) \/ Finish(p) \/ Crash(p) PROVE ReadyInv'
    <3>1. UNCHANGED <<db, cmd>>
      BY <2>6 DEF Mark, MarkRun, MarkResult, MarkRotatedAt, Finish, Crash, db
    <3>2. /\ pc[p] # "idle"
          /\ pc' = [pc EXCEPT ![p] = pc'[p]]
          /\ pc'[p] \in {"idle", "mark_result", "mark_rotated"}
          /\ pc'[p] # "idle" => pc[p] \in {"mark_run", "mark_result"}
      BY <2>6 DEF Mark, MarkRun, MarkResult, MarkRotatedAt, Finish, Crash, Goto
    <3>3. SealedCommands'
      BY <3>1, <3>2 DEF db
    <3>4. QED BY <3>1, <3>3 DEF db
  <2>7. ASSUME NEW p \in Procs, Use(p) PROVE ReadyInv'
    <3>1. pc[p] = "running" /\ meta # None /\ UNCHANGED <<meta, probe, pc>>
      BY <2>7 DEF Use, PutSecret, DeleteSecret, ReadSecret, db
    <3>2. UNCHANGED <<wrappedBy, active>>
      BY <2>7, <3>1 DEF Use, PutSecret, DeleteSecret, ReadSecret, db
    <3>3. \A s \in Slots : secrets'[s] # None => secrets'[s] \in DekRows
      BY <2>7, <3>1, ZenonT(60) DEF Use, PutSecret, DeleteSecret, ReadSecret, Opens, db
    <3>4. \A q \in Procs : /\ cmd'[q].op = cmd[q].op
                           /\ q # p => cmd'[q] = cmd[q]
      <4>1. ProviderKey(cmd[p]) \in 0..MaxRuns
        BY DEF ProviderKey, Command
      <4>2. HoldCache(p, ProviderKey(cmd[p])) \/ UNCHANGED cmd
        BY <2>7 DEF Use, PutSecret, DeleteSecret, ReadSecret
      <4>3. QED BY <4>1, <4>2, CommandUpdate
    <3>5. SealedCommands'
      BY <3>1, <3>4
    <3>6. QED BY <3>1, <3>2, <3>3, <3>5
  <2>8. CASE UNCHANGED vars
    BY <2>8 DEF vars, db
  <2>9. QED
    BY <2>1, <2>2, <2>3, <2>4, <2>5, <2>6, <2>7, <2>8 DEF Next, Progress, Manage
<1>3. QED
  BY <1>1, <1>2, TypeCorrect, PTL DEF Spec

\* The current master key opens every DEK, whatever rotations, writers with a
\* cached key and crashes do.
THEOREM RecoverableCorrect ==
  ASSUME InitSkipsVerify = FALSE
  PROVE  Spec => []Recoverable
<1>1. ReadyInv => Recoverable
  BY DEF ReadyInv
<1>2. QED
  BY <1>1, ReadyCorrect, PTL

\* A verified init leaves metadata, probe and active DEK together.
THEOREM InitLeavesVaultReadyCorrect ==
  ASSUME InitSkipsVerify = FALSE
  PROVE  Spec => []InitLeavesVaultReady
<1>1. ReadyInv => InitLeavesVaultReady
  BY DEF ReadyInv, EmptyVault, ReadyVault, InitLeavesVaultReady, DekRows, Deks, Runs, None
<1>2. QED
  BY <1>1, ReadyCorrect, PTL

\* A rotation that commits replaces the key it started from: it unwrapped the
\* active DEK with it, and every DEK is wrapped by the current key.
THEOREM RotationIsSerialCorrect ==
  ASSUME InitSkipsVerify = FALSE
  PROVE  Spec => RotationIsSerial
<1>1. ASSUME TypeOK, ReadyInv, NEW p \in Procs, RotateTx(p)
      PROVE  meta = cmd[p].key
  <2>1. pc[p] = "tx" /\ cmd[p].op = "rotate" /\ RewrapAll(p, cmd[p].run)
    BY <1>1 DEF RotateTx
  <2>2. active # {} /\ active \subseteq DekRows
    BY <1>1, <2>1 DEF ReadyInv, ReadyVault, SealedCommands
  <2>3. \A d \in DekRows : wrappedBy[d] = cmd[p].key /\ wrappedBy[d] = meta
    BY <1>1, <2>1 DEF ReadyInv, Recoverable, RewrapAll
  <2>4. QED BY <2>2, <2>3
<1>2. TypeOK /\ ReadyInv => [\A p \in Procs : RotateTx(p) => meta = cmd[p].key]_vars
  BY <1>1
<1>3. QED
  BY <1>2, TypeCorrect, ReadyCorrect, PTL DEF Spec, RotationIsSerial

-----------------------------------------------------------------------------
\* In a ready vault every stored secret is readable.
LEMMA AllReadable ==
  ASSUME TypeOK, ReadyInv
  PROVE  ReadableSlots = StoredSlots
<1>1. ASSUME NEW s \in StoredSlots PROVE Opens(meta, secrets[s])
  <2>1. s \in Slots /\ secrets[s] # None
    BY DEF StoredSlots
  <2>2. meta # None
    BY <2>1 DEF ReadyInv, EmptyVault
  <2>3. secrets[s] \in DekRows
    BY <2>1, <2>2 DEF ReadyInv, ReadyVault
  <2>4. QED BY <2>3 DEF Opens, ReadyInv, Recoverable
<1>2. QED BY <1>1 DEF ReadableSlots

\* The vault implements SealedVault: with every init verified, each step of
\* the code is a step of the sealed store or leaves it as it was.
THEOREM SealedVaultImplemented ==
  ASSUME InitSkipsVerify = FALSE
  PROVE  Spec => ImplementsSealedVault
<1> DEFINE AllRead  == ReadableSlots = StoredSlots
           abstract == <<meta, StoredSlots, ReadableSlots>>
<1>1. Init => Sealed!Init
  BY DEF Init, Sealed!Init, StoredSlots, ReadableSlots
<1>2. TypeOK /\ ReadyInv => AllRead
  BY AllReadable
<1>3. TypeOK /\ ReadyInv /\ AllRead /\ AllRead' /\ [Next]_vars
        => [Sealed!Next]_abstract
  <2> SUFFICES ASSUME TypeOK, ReadyInv, AllRead, AllRead', [Next]_vars
               PROVE  [Sealed!Next]_abstract
    OBVIOUS
  <2>1. ASSUME UNCHANGED <<meta, secrets>> PROVE UNCHANGED abstract
    <3>1. StoredSlots' = StoredSlots
      BY <2>1 DEF StoredSlots
    <3>2. QED BY <2>1, <3>1
  <2>2. ASSUME NEW k \in Keys, meta' = k, UNCHANGED secrets
        PROVE  [Sealed!Next]_abstract
    <3>1. StoredSlots' = StoredSlots
      BY <2>2 DEF StoredSlots
    <3>2. CASE meta = None
      BY <2>2, <3>1, <3>2 DEF Sealed!Next, Sealed!Initialise
    <3>3. CASE meta # None /\ k # meta
      BY <2>2, <3>1, <3>3 DEF Sealed!Next, Sealed!Reseal
    <3>4. CASE k = meta
      BY <2>2, <3>1, <3>4
    <3>5. QED BY <3>2, <3>3, <3>4
  <2>3. ASSUME NEW p \in Procs, Use(p) PROVE [Sealed!Next]_abstract
    <3>1. meta # None /\ UNCHANGED meta
      BY <2>3 DEF Use, PutSecret, DeleteSecret, ReadSecret, db, ReadyInv, SealedCommands
    <3>2. ASSUME NEW s \in Slots, PutSecret(p, s) PROVE [Sealed!Next]_abstract
      <4>1. PICK d \in DekRows : secrets' = [secrets EXCEPT ![s] = d]
        BY <3>1, <3>2 DEF PutSecret, Opens, ReadyInv, ReadyVault
      <4>2. StoredSlots' = StoredSlots \union {s}
        BY <4>1 DEF StoredSlots, TypeOK, DekRows, Deks, Runs, None
      <4>3. Sealed!Store(s)
        BY <3>1, <4>2 DEF Sealed!Store, None
      <4>4. QED BY <4>3 DEF Sealed!Next
    <3>3. ASSUME NEW s \in Slots, DeleteSecret(p, s) PROVE [Sealed!Next]_abstract
      <4>1. StoredSlots' = StoredSlots \ {s}
        BY <3>3 DEF DeleteSecret, StoredSlots, TypeOK
      <4>2. Sealed!Remove(s)
        BY <3>1, <4>1 DEF Sealed!Remove
      <4>3. QED BY <4>2 DEF Sealed!Next
    <3>4. CASE ReadSecret(p)
      BY <2>1, <3>4 DEF ReadSecret, db
    <3>5. QED BY <2>3, <3>2, <3>3, <3>4 DEF Use
  <2>4. ASSUME NEW p \in Procs, Manage(p) PROVE [Sealed!Next]_abstract
    <3>1. CASE InitTx(p)
      <4>1. cmd[p].key \in Keys /\ meta' = cmd[p].key /\ UNCHANGED secrets
        BY <3>1 DEF InitTx, TypeOK, ReadyInv, SealedCommands, Keys
      <4>2. QED BY <2>2, <4>1
    <3>2. CASE RotateTx(p)
      <4>1. cmd[p].run \in Keys /\ meta' = cmd[p].run /\ UNCHANGED secrets
        BY <3>2 DEF RotateTx, RewrapAll, TypeOK, Keys
      <4>2. QED BY <2>2, <4>1
    <3>3. CASE RewrapTx(p)
      BY <2>1, <3>3 DEF RewrapTx, RewrapAll
    <3>4. CASE RollbackTx(p)
      BY <2>1, <3>4 DEF RollbackTx, db
    <3>5. QED BY <2>4, <3>1, <3>2, <3>3, <3>4 DEF Manage
  <2>5. ASSUME NEW p \in Procs,
               Begin(p) \/ Guard(p) \/ Mark(p) \/ Finish(p) \/ Crash(p)
        PROVE  [Sealed!Next]_abstract
    <3>1. UNCHANGED <<meta, secrets>>
      BY <2>5 DEF Begin, Start, StartInit, StartRotate, StartRewrap, StartCheck,
           StartRun, Guard, GuardReadProbe, GuardUseDek, GuardNoDek, GuardCreateDek,
           GuardWriteProbe, GuardPass, GuardFail, Mark, MarkRun, MarkResult,
           MarkRotatedAt, Finish, Crash, db
    <3>2. QED BY <2>1, <3>1
  <2>6. CASE UNCHANGED vars
    BY <2>1, <2>6 DEF vars, db
  <2>7. QED
    BY <2>3, <2>4, <2>5, <2>6 DEF Next, Progress
<1>4. QED
  BY <1>1, <1>2, <1>3, TypeCorrect, ReadyCorrect, PTL
     DEF Spec, ImplementsSealedVault, Sealed!Spec
-----------------------------------------------------------------------------
\* However the inits are verified, no probe and no secret names a DEK without
\* a row, and racing guards and writers leave at most one DEK active.
THEOREM DeksCorrect == Spec => []DeksInv
<1> USE LifecycleConstants DEF Runs, Keys, Deks, None
<1> USE DEF DeksInv, NoDanglingDek, SingleActive, HeldIsThere
<1>1. Init => DeksInv
  BY DEF Init, DekRows
<1>2. TypeOK /\ DeksInv /\ [Next]_vars => DeksInv'
  <2> SUFFICES ASSUME TypeOK, DeksInv, [Next]_vars PROVE DeksInv'
    OBVIOUS
  <2> USE DEF TypeOK, DekRows
  <2>1. ASSUME NEW p \in Procs, Begin(p) PROVE DeksInv'
    <3> USE DEF Start, db
    <3>1. CASE StartInit(p) BY <3>1 DEF StartInit
    <3>2. CASE StartRotate(p) BY <3>2, SMTT(60) DEF StartRotate
    <3>3. CASE StartRewrap(p) BY <3>3, SMTT(60) DEF StartRewrap
    <3>4. CASE StartCheck(p) BY <3>4 DEF StartCheck
    <3>5. CASE StartRun(p)
      BY <3>5 DEF StartRun
    <3>6. QED BY <2>1, <3>1, <3>2, <3>3, <3>4, <3>5 DEF Begin
  <2>2. ASSUME NEW p \in Procs, InitTx(p) PROVE DeksInv'
    <3>1. cmd[p].run \in Runs /\ cmd[p].key # None /\ meta' # None
      BY <2>2 DEF InitTx
    <3>2. DekRows \subseteq DekRows' /\ cmd' = cmd /\ secrets' = secrets
      BY <2>2, <3>1 DEF InitTx
    <3>3. \/ UNCHANGED <<active, probe>>
          \/ active' = {cmd[p].run} /\ probe' = cmd[p].run /\ cmd[p].run \in DekRows'
      BY <2>2, <3>1 DEF InitTx
    <3>5. NoDanglingDek'
      BY <3>2, <3>3
    <3>6. SingleActive'
      BY <3>1, <3>3
    <3>4. HeldIsThere'
      BY <2>2, <3>1, <3>2 DEF InitTx, Goto
    <3>7. QED BY <3>4, <3>5, <3>6
  <2>3. ASSUME NEW p \in Procs, RotateTx(p) \/ RewrapTx(p) PROVE DeksInv'
    <3> DEFINE k == IF cmd[p].op = "rotate" THEN cmd[p].run ELSE cmd[p].key
    <3>1. /\ RewrapAll(p, k) /\ pc[p] = "tx" /\ cmd[p].run \in Runs
          /\ meta' = (IF cmd[p].op = "rotate" THEN k ELSE meta)
          /\ cmd[p].op \in {"rotate", "rewrap"} /\ k \in Runs
      BY <2>3 DEF RotateTx, RewrapTx, Command
    <3>2. DekRows' = DekRows /\ UNCHANGED <<active, probe, secrets>> /\ meta' # None
      BY <3>1 DEF RewrapAll
    <3>3. \A q \in Procs : /\ cmd'[q].op = cmd[q].op /\ cmd'[q].dek = cmd[q].dek
                           /\ q # p => cmd'[q] = cmd[q]
      BY <3>1, SMTT(60) DEF RewrapAll, HoldKey, Command
    <3>4. cmd'[p].key = k
      BY <3>1 DEF RewrapAll, HoldKey, Command
    <3>5. HeldIsThere'
      BY <3>1, <3>2, <3>3, <3>4 DEF RewrapAll, Goto
    <3>6. QED BY <3>2, <3>5
  <2>4. ASSUME NEW p \in Procs, RollbackTx(p) \/ GuardFail(p) PROVE DeksInv'
    <3>1. \A q \in Procs : /\ cmd'[q].op = cmd[q].op /\ cmd'[q].key = cmd[q].key
                           /\ cmd'[q].dek = cmd[q].dek
      <4>1. cmd' = [cmd EXCEPT ![p].ok = FALSE]
        BY <2>4 DEF RollbackTx, GuardFail, NoteFailure
      <4>2. QED BY <4>1, ZenonT(60) DEF Command
    <3>2. /\ pc[p] # "idle" /\ UNCHANGED db
          /\ \E l \in {"mark_run", "idle"} : pc' = [pc EXCEPT ![p] = l]
      BY <2>4 DEF RollbackTx, GuardFail, Goto
    <3>3. HeldIsThere'
      BY <3>1, <3>2, SMTT(60) DEF db
    <3>4. QED BY <3>2, <3>3 DEF db
  <2>5. ASSUME NEW p \in Procs, GuardReadProbe(p) \/ GuardUseDek(p)
        PROVE DeksInv'
    <3>1. PICK d \in 0..MaxRuns : HoldDek(p, d) /\ (pc'[p] \in {"wprobe", "check"} => d \in DekRows)
      BY <2>5 DEF GuardReadProbe, GuardUseDek, Goto, Opens
    <3>2. \A q \in Procs : /\ cmd'[q].op = cmd[q].op /\ cmd'[q].key = cmd[q].key
                           /\ q # p => cmd'[q] = cmd[q]
      BY <3>1, ZenonT(60) DEF HoldDek, Command
    <3>3. cmd'[p].dek = d
      BY <3>1 DEF HoldDek, Command
    <3>4. /\ pc[p] # "idle" /\ UNCHANGED db
          /\ pc' = [pc EXCEPT ![p] = pc'[p]]
          /\ pc'[p] \in {"dek", "check", "wprobe"}
      BY <2>5 DEF GuardReadProbe, GuardUseDek, Goto
    <3>5. HeldIsThere'
      BY <3>1, <3>2, <3>3, <3>4, ZenonT(60) DEF db
    <3>6. QED BY <3>4, <3>5 DEF db
  <2>6. ASSUME NEW p \in Procs, GuardCreateDek(p) PROVE DeksInv'
    <3>1. cmd[p].run \in Runs /\ cmd[p].key # None
      BY <2>6 DEF GuardCreateDek
    <3>2. /\ DekRows \subseteq DekRows' /\ cmd[p].run \in DekRows'
          /\ active' = {cmd[p].run} /\ UNCHANGED <<meta, probe, secrets>>
      BY <2>6, <3>1 DEF GuardCreateDek, InsertDek
    <3>3. \A q \in Procs : /\ cmd'[q].op = cmd[q].op /\ cmd'[q].key = cmd[q].key
                           /\ q # p => cmd'[q] = cmd[q]
      BY <2>6, ZenonT(60) DEF GuardCreateDek, HoldDek, Command
    <3>4. cmd'[p].dek = cmd[p].run
      BY <2>6 DEF GuardCreateDek, HoldDek, Command
    <3>5. HeldIsThere'
      BY <2>6, <3>2, <3>3, <3>4, SMTT(60) DEF GuardCreateDek, Goto
    <3>6. QED BY <3>1, <3>2, <3>5
  <2>7. ASSUME NEW p \in Procs, GuardNoDek(p) \/ GuardWriteProbe(p) \/ GuardPass(p)
        PROVE DeksInv'
    <3>1. /\ UNCHANGED <<meta, wrappedBy, active, secrets, cmd>> /\ pc[p] # "idle"
          /\ pc' = [pc EXCEPT ![p] = pc'[p]]
          /\ pc'[p] \in {"newdek", "probe", "mark_run", "running", "idle"}
          /\ pc'[p] = "running" => cmd[p].op = "run"
      BY <2>7 DEF GuardNoDek, GuardWriteProbe, GuardPass, AfterGuard, Goto, db
    <3>2. HeldIsThere'
      BY <3>1
    <3>3. probe' = probe \/ probe' \in DekRows
      BY <2>7 DEF GuardNoDek, GuardWriteProbe, GuardPass, db
    <3>4. QED BY <3>1, <3>2, <3>3
  <2>8. ASSUME NEW p \in Procs, Mark(p) \/ Finish(p) \/ Crash(p) PROVE DeksInv'
    <3>1. UNCHANGED <<db, cmd>>
      BY <2>8 DEF Mark, MarkRun, MarkResult, MarkRotatedAt, Finish, Crash, db
    <3>2. /\ pc[p] # "idle"
          /\ pc' = [pc EXCEPT ![p] = pc'[p]]
          /\ pc'[p] \in {"idle", "mark_result", "mark_rotated"}
      BY <2>8 DEF Mark, MarkRun, MarkResult, MarkRotatedAt, Finish, Crash, Goto
    <3>3. HeldIsThere'
      BY <3>1, <3>2 DEF db
    <3>4. QED BY <3>1, <3>3 DEF db
  <2>9. ASSUME NEW p \in Procs, Use(p) PROVE DeksInv'
    <3>1. /\ pc[p] = "running" /\ meta # None /\ cmd[p].run \in Runs
          /\ UNCHANGED <<meta, probe, pc>>
      BY <2>9 DEF Use, PutSecret, DeleteSecret, ReadSecret, db
    <3>2. ProviderKey(cmd[p]) \in Runs
      BY <3>1 DEF ProviderKey, Command
    <3>3. \A q \in Procs : /\ cmd'[q].op = cmd[q].op /\ cmd'[q].key = cmd[q].key
                           /\ cmd'[q].dek = cmd[q].dek
      <4>1. cmd' = cmd \/ cmd' = [cmd EXCEPT ![p].cache = ProviderKey(cmd[p])]
        BY <2>9 DEF Use, PutSecret, DeleteSecret, ReadSecret, HoldCache
      <4>2. CASE cmd' = [cmd EXCEPT ![p].cache = ProviderKey(cmd[p])]
        <5>1. \A q \in Procs : q # p => cmd'[q] = cmd[q]
          BY <4>2
        <5>2. cmd'[p] = [cmd[p] EXCEPT !.cache = ProviderKey(cmd[p])] /\ cmd[p] \in Command
          BY <4>2
        <5>3. QED BY <5>1, <5>2, SMTT(60) DEF Command
      <4>3. QED BY <4>1, <4>2
    <3>4. DekRows \subseteq DekRows'
      BY <2>9, <3>1, <3>2, SMTT(60) DEF Use, PutSecret, DeleteSecret, ReadSecret, InsertDek, db
    <3>5. HeldIsThere'
      BY <3>1, <3>3, <3>4, ZenonT(60)
    <3>6. CASE UNCHANGED <<wrappedBy, active>>
      <4>1. \A s \in Slots : secrets'[s] # None => secrets'[s] \in DekRows
        BY <2>9, <3>6 DEF Use, PutSecret, DeleteSecret, ReadSecret, Opens, InsertDek, db
      <4>2. QED BY <3>1, <3>5, <3>6, <4>1
    <3>7. CASE ~ UNCHANGED <<wrappedBy, active>>
      <4>1. PICK s \in Slots : /\ InsertDek(cmd[p].run, ProviderKey(cmd[p]))
                               /\ secrets' = [secrets EXCEPT ![s] = cmd[p].run]
        BY <2>9, <3>7 DEF Use, PutSecret, DeleteSecret, ReadSecret, db
      <4>2. active' = {cmd[p].run} /\ cmd[p].run \in DekRows'
        BY <3>1, <3>2, <4>1 DEF InsertDek
      <4>3. QED BY <3>1, <3>4, <3>5, <4>1, <4>2
    <3>8. QED BY <3>6, <3>7
  <2>10. CASE UNCHANGED vars
    BY <2>10 DEF vars, db
  <2>11. QED
    BY <2>1, <2>2, <2>3, <2>4, <2>5, <2>6, <2>7, <2>8, <2>9, <2>10
       DEF Next, Progress, Manage, Guard
<1>3. QED
  BY <1>1, <1>2, TypeCorrect, PTL DEF Spec

\* Nothing dangles: the first part of that invariant.
THEOREM NoDanglingDekCorrect == Spec => []NoDanglingDek
<1>1. DeksInv => NoDanglingDek
  BY DEF DeksInv
<1>2. QED BY <1>1, DeksCorrect, PTL

\* Of racing guards and writers each deactivates the DEKs of the others.
THEOREM AtMostOneActiveCorrect == Spec => []AtMostOneActive
<1>1. DeksInv => AtMostOneActive
  <2> SUFFICES ASSUME SingleActive PROVE Cardinality(active) <= 1
    BY DEF DeksInv, AtMostOneActive
  <2>1. CASE active = {}
    <3>1. Cardinality(active) = 0
      BY <2>1, FS_EmptySet
    <3>2. QED BY <3>1
  <2>2. CASE \E d \in Deks : active = {d}
    <3>1. PICK d \in Deks : active = {d}
      BY <2>2
    <3>2. Cardinality(active) = 1
      BY <3>1, FS_Singleton
    <3>3. QED BY <3>2
  <2>3. QED BY <2>1, <2>2 DEF SingleActive
<1>2. QED BY <1>1, DeksCorrect, PTL

-----------------------------------------------------------------------------
\* A rotation date is set only by a command that has committed.
THEOREM RotatedAtIsCommittedCorrect == Spec => []RotatedAtIsCommitted
<1> USE LifecycleConstants DEF Runs, None, RotatedAtIsCommitted, SuccessIsCommitted
<1>1. Init => RotatedAtIsCommitted /\ SuccessIsCommitted
  BY DEF Init
<1>2. TypeOK /\ RotatedAtIsCommitted /\ SuccessIsCommitted /\ [Next]_vars
        => RotatedAtIsCommitted' /\ SuccessIsCommitted'
  <2> SUFFICES ASSUME TypeOK, RotatedAtIsCommitted, SuccessIsCommitted, [Next]_vars
               PROVE  RotatedAtIsCommitted' /\ SuccessIsCommitted'
    OBVIOUS
  <2> USE DEF TypeOK
  <2>1. ASSUME NEW p \in Procs, Begin(p)
        PROVE  RotatedAtIsCommitted' /\ SuccessIsCommitted'
    BY <2>1 DEF Begin, StartInit, StartRotate, StartRewrap, StartCheck, StartRun,
                Start, log
  <2>2. ASSUME NEW p \in Procs, Manage(p)
        PROVE  RotatedAtIsCommitted' /\ SuccessIsCommitted'
    <3>1. rotatedAt' = rotatedAt /\ committed \subseteq committed'
      BY <2>2 DEF Manage, InitTx, RotateTx, RewrapTx, RewrapAll, RollbackTx, log
    <3>2. \A q \in Procs : q # p => cmd'[q] = cmd[q] /\ pc'[q] = pc[q]
      BY <2>2 DEF Manage, InitTx, RotateTx, RewrapTx, RewrapAll, RollbackTx,
                  HoldKey, NoteFailure, Goto
    <3>3. /\ cmd'[p].run = cmd[p].run /\ cmd'[p].op = cmd[p].op
          /\ pc[p] = "tx" /\ pc'[p] # "mark_rotated"
      BY <2>2 DEF Manage, InitTx, RotateTx, RewrapTx, RewrapAll, RollbackTx,
                  HoldKey, NoteFailure, Goto, Command
    <3>4. cmd'[p].ok => cmd[p].run \in committed'
      BY <2>2 DEF Manage, InitTx, RotateTx, RewrapTx, RewrapAll, RollbackTx,
                  NoteFailure, Command
    <3>5. QED BY <3>1, <3>2, <3>3, <3>4
  <2>3. ASSUME NEW p \in Procs, Guard(p)
        PROVE  RotatedAtIsCommitted' /\ SuccessIsCommitted'
    <3>1. UNCHANGED <<rotatedAt, committed>> /\ pc[p] \notin {"idle", "tx"}
      BY <2>3 DEF Guard, GuardReadProbe, GuardUseDek, GuardNoDek, GuardCreateDek,
                  GuardWriteProbe, GuardPass, GuardFail, log
    <3>2. \A q \in Procs : /\ cmd'[q].run = cmd[q].run /\ cmd'[q].op = cmd[q].op
                           /\ cmd'[q].ok => cmd[q].ok
      BY <2>3 DEF Guard, GuardReadProbe, GuardUseDek, GuardNoDek, GuardCreateDek,
                  GuardWriteProbe, GuardPass, GuardFail, HoldDek, NoteFailure, Command
    <3>3. /\ \A q \in Procs : q # p => pc'[q] = pc[q]
          /\ pc'[p] # "mark_rotated"
      BY <2>3 DEF Guard, GuardReadProbe, GuardUseDek, GuardNoDek, GuardCreateDek,
                  GuardWriteProbe, GuardPass, GuardFail, AfterGuard, Goto
    <3>4. \A q \in Procs : pc'[q] \notin {"idle", "tx"} => pc[q] \notin {"idle", "tx"}
      BY <3>1, <3>3
    <3>5. \A q \in Procs : pc'[q] = "mark_rotated" => pc[q] = "mark_rotated" /\ q # p
      BY <3>3
    <3>6. \A q \in Procs : q # p => cmd'[q] = cmd[q]
      BY <2>3 DEF Guard, GuardReadProbe, GuardUseDek, GuardNoDek, GuardCreateDek,
                  GuardWriteProbe, GuardPass, GuardFail, HoldDek, NoteFailure
    <3>7. SuccessIsCommitted'
      BY <3>1, <3>2, <3>4, <3>5, <3>6
    <3>8. QED BY <3>1, <3>7
  <2>4. ASSUME NEW p \in Procs, Mark(p)
        PROVE  RotatedAtIsCommitted' /\ SuccessIsCommitted'
    <3>1. UNCHANGED <<cmd, committed>> /\ pc[p] \notin {"idle", "tx"}
      BY <2>4 DEF Mark, MarkRun, MarkResult, MarkRotatedAt
    <3>2. /\ \A q \in Procs : q # p => pc'[q] = pc[q]
          /\ pc'[p] = "mark_rotated" => cmd[p].ok /\ cmd[p].op \in {"init", "rotate"}
      BY <2>4 DEF Mark, MarkRun, MarkResult, MarkRotatedAt, Goto
    <3>3. SuccessIsCommitted'
      BY <3>1, <3>2
    <3>4. QED BY <2>4, <3>3 DEF Mark, MarkRun, MarkResult, MarkRotatedAt
  <2>5. ASSUME NEW p \in Procs, Use(p)
        PROVE  RotatedAtIsCommitted' /\ SuccessIsCommitted'
    <3>1. UNCHANGED <<rotatedAt, committed, pc>>
      BY <2>5 DEF Use, PutSecret, DeleteSecret, ReadSecret, log
    <3>2. \A q \in Procs : /\ cmd'[q].run = cmd[q].run /\ cmd'[q].op = cmd[q].op
                           /\ cmd'[q].ok = cmd[q].ok
      BY <2>5 DEF Use, PutSecret, DeleteSecret, ReadSecret, HoldCache, Command
    <3>3. QED BY <3>1, <3>2
  <2>6. ASSUME NEW p \in Procs, Finish(p) \/ Crash(p)
        PROVE  RotatedAtIsCommitted' /\ SuccessIsCommitted'
    BY <2>6 DEF Finish, Crash, Goto, log
  <2>7. CASE UNCHANGED vars
    BY <2>7 DEF vars, log
  <2>8. QED
    BY <2>1, <2>2, <2>3, <2>4, <2>5, <2>6, <2>7 DEF Next, Progress
<1>3. QED
  BY <1>1, <1>2, TypeCorrect, PTL DEF Spec

=============================================================================
