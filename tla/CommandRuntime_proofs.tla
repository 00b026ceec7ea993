----------------------- MODULE CommandRuntime_proofs ------------------------
(***************************************************************************)
(* Theorems about CommandRuntime: its type correctness, that ledger and    *)
(* exit code agree, that the first result of a command survives, that a    *)
(* process that ends leaves nothing open, and that a failure reaches the   *)
(* report, for any set of commands and any number of rows and interrupts.  *)
(*                                                                         *)
(* Then theorems about RunArtifacts and DailyLog: what several such        *)
(* processes may do to the reports, the pointer, the ledger and the log    *)
(* they share on disk, for any number of processes, days and backups.      *)
(***************************************************************************)
EXTENDS CommandRuntime, RunArtifacts, DailyLog, FiniteSetTheorems, NaturalsInduction,
        WellFoundedInduction, TLAPS

ResultSpace == [codes : SUBSET Codes, diagnostics : {"absent", "none", "error"}]
ReportSpace == [passed : Nat, blocked : Nat, errors : Nat,
                status : {"unset", "SUCCESS", "PARTIAL", "FAILED"}]
RunSpace == [rows : Nat, passed : Nat, failed : Nat, expired : BOOLEAN, codes : SUBSET Codes]
EnvSpace == [container : BOOLEAN, captured : BOOLEAN, bound : BOOLEAN, logging : BOOLEAN]
DiskSpace == [report : {"absent", "SUCCESS", "PARTIAL", "FAILED"},
              ledger : {"absent", "SUCCESS", "PARTIAL", "FAILED"}, plan : BOOLEAN]

\* The codes the handlers and the runtime use are ranked.
LEMMA CodesRanked ==
  {"INTERNAL_ERROR", "AUTH_UNAUTHORIZED", "AUTH_FORBIDDEN", "DATA_INVALID", "CONFLICT",
   "CACHE_ERROR", "INFRA_TIMEOUT", "INFRA_UNAVAILABLE", "IO_ERROR", "OK"} \subseteq Codes
<1>1. 1 .. 11 = DOMAIN CodeRank
  BY DEF CodeRank
<1>2. /\ CodeRank[1] = "INTERNAL_ERROR" /\ CodeRank[2] = "AUTH_UNAUTHORIZED"
      /\ CodeRank[3] = "AUTH_FORBIDDEN" /\ CodeRank[4] = "DATA_INVALID"
      /\ CodeRank[5] = "CONFLICT" /\ CodeRank[6] = "CACHE_ERROR"
      /\ CodeRank[7] = "INFRA_TIMEOUT" /\ CodeRank[8] = "INFRA_UNAVAILABLE"
      /\ CodeRank[9] = "IO_ERROR" /\ CodeRank[10] = "OK"
  BY DEF CodeRank
<1>3. \A i \in 1 .. 11 : CodeRank[i] \in Codes
  BY <1>1 DEF Codes
<1> QED
  BY <1>2, <1>3

\* A result of a set of codes, with or without diagnostics.
LEMMA ResultTyped ==
  /\ \A codes \in SUBSET Codes : Result(codes) \in ResultSpace /\ Result(codes) # NoResult
  /\ \A code \in Codes : Diagnosed(code) \in ResultSpace /\ Diagnosed(code) # NoResult
  /\ NoResult \in ResultSpace
  BY DEF Result, Diagnosed, NoResult, ResultSpace

\* The report context stays a report context.
LEMMA ReportTyped ==
  ASSUME NEW r \in ReportSpace
  PROVE  /\ \A status \in {"OK", "FAILED", "SKIPPED"}, errors \in Nat, pre \in BOOLEAN :
              AddItem(r, status, errors, pre) \in ReportSpace
         /\ \A n, k \in Nat : SetCounters(r, n, k) \in ReportSpace
         /\ \A n, k \in Nat : PresentApply(r, n, k) \in ReportSpace
         /\ Status(r) \in {"SUCCESS", "PARTIAL", "FAILED"}
         /\ Finish(r) \in ReportSpace
<1>1. \A q : DeriveStatus(q) \in {"SUCCESS", "PARTIAL", "FAILED"}
  BY DEF DeriveStatus
<1>2. Status(r) \in {"SUCCESS", "PARTIAL", "FAILED"}
  BY <1>1 DEF Status, ReportSpace
<1>3. \A status \in {"OK", "FAILED", "SKIPPED"}, errors \in Nat, pre \in BOOLEAN :
        AddItem(r, status, errors, pre) \in ReportSpace
  <2> TAKE status \in {"OK", "FAILED", "SKIPPED"}, errors \in Nat, pre \in BOOLEAN
  <2> DEFINE ok == IF status = "OK" /\ ~pre THEN 1 ELSE 0
             failed == IF status = "FAILED" /\ ~pre THEN 1 ELSE 0
  <2>1. ok \in Nat /\ failed \in Nat
    OBVIOUS
  <2>2. AddItem(r, status, errors, pre) = [r EXCEPT !.passed = @ + ok, !.blocked = @ + failed,
                                                    !.errors = @ + errors]
    BY DEF AddItem
  <2> HIDE DEF ok, failed
  <2> QED
    <3>1. r.passed + ok \in Nat /\ r.blocked + failed \in Nat /\ r.errors + errors \in Nat
      BY <2>1 DEF ReportSpace
    <3>2. \A i, j, k \in Nat : [r EXCEPT !.passed = i, !.blocked = j, !.errors = k] \in ReportSpace
      BY DEF ReportSpace
    <3>3. [r EXCEPT !.passed = r.passed + ok, !.blocked = r.blocked + failed,
                    !.errors = r.errors + errors] \in ReportSpace
      BY ONLY <3>1, <3>2
    <3> QED
      BY ONLY <2>2, <3>3
<1>4. \A n, k \in Nat : SetCounters(r, n, k) \in ReportSpace
  BY DEF SetCounters, ReportSpace
<1>5. \A n, k \in Nat : PresentApply(r, n, k) \in ReportSpace
  BY <1>1 DEF PresentApply, ReportSpace
<1>6. Finish(r) \in ReportSpace
  BY <1>2 DEF Finish, ReportSpace
<1> QED
  BY <1>2, <1>3, <1>4, <1>5, <1>6

\* Putting a result into the report keeps its type.
LEMMA ApplyTyped ==
  ASSUME NEW r \in ReportSpace, NEW res, NEW secondary \in BOOLEAN
  PROVE  ApplyResult(r, res, secondary) \in ReportSpace
<1>1. AddItem(r, "OK", 0, FALSE) \in ReportSpace /\ AddItem(r, "FAILED", 1, FALSE) \in ReportSpace
  BY ReportTyped
<1> QED
  BY <1>1 DEF ApplyResult

\* Exit codes.
LEMMA ExitTyped == \A res : ExitOf(res) \in {"0", "1", "2"}
<1>1. \A codes : ExitCode(codes) \in {"0", "1", "2"}
  BY DEF ExitCode
<1> QED
  BY <1>1 DEF ExitOf

-----------------------------------------------------------------------------
(* Types *)

\* Every command of the table needs a sequence of resources.
LEMMA NeedsTyped == \A c \in CommandTable : c.needs \in Seq(Resources)
<1>1. CacheReady \in Seq(Resources)
  BY DEF CacheReady, Resources
<1>2. /\ Append(CacheReady, "dictionary") \in Seq(Resources)
      /\ Append(CacheReady, "target") \in Seq(Resources)
      /\ <<"target">> \in Seq(Resources) /\ <<"vault">> \in Seq(Resources)
      /\ <<>> \in Seq(Resources)
  BY <1>1 DEF Resources
<1>3. ASSUME NEW name, NEW feeds, NEW guarded, NEW needs \in Seq(Resources),
             NEW c, c = Cmd(name, feeds, guarded, needs)
      PROVE  c.needs \in Seq(Resources)
  <2>1. c.needs = needs
    BY <1>3 DEF Cmd
  <2> QED
    BY <2>1
<1>4. \A c \in PipelineCommands : c.needs \in Seq(Resources)
  BY <1>1, <1>2, <1>3 DEF PipelineCommands
<1>5. \A c \in ImportCommands : c.needs \in Seq(Resources)
  BY <1>2, <1>3 DEF ImportCommands
<1>6. \A c \in CacheCommands : c.needs \in Seq(Resources)
  BY <1>1, <1>2, <1>3 DEF CacheCommands
<1>7. \A c \in VaultCommands \cup MaintenanceCommands : c.needs \in Seq(Resources)
  BY <1>2, <1>3 DEF VaultCommands, MaintenanceCommands
<1> QED
  BY <1>4, <1>5, <1>6, <1>7 DEF CommandTable

\* A step of the body that ends with a result.
LEMMA SettleTyped ==
  ASSUME NEW res \in ResultSpace, Settle(res)
  PROVE  result' \in ResultSpace /\ phase' = "apply"
  BY DEF Settle

\* The results the body, the handlers and the except clauses end with.
LEMMA RaisedTyped == Raised => result' \in ResultSpace /\ phase' = "apply"
<1>1. \A code \in {"INTERNAL_ERROR", "DATA_INVALID"} : Diagnosed(code) \in ResultSpace
  BY CodesRanked, ResultTyped
<1> QED
  BY <1>1, SettleTyped DEF Raised

LEMMA FailureTyped == FailureCodes \subseteq Codes
  BY CodesRanked, Zenon DEF FailureCodes

\* Type correctness, the invariant every other proof starts from.
LEMMA TypeInit == Init => TypeOK
<1> SUFFICES ASSUME Init PROVE TypeOK
  OBVIOUS
<1>1. cmd \in CommandTable
  BY CommandsAssumption DEF Init
<1>2. todo \in Seq(Resources)
  BY <1>1, NeedsTyped DEF Init
<1>3. result \in ResultSpace
  BY ResultTyped DEF Init
<1>4. closing \in Seq({"target", "dictionary", "cache", "sqlite"})
  BY DEF Init
<1>5. rep \in ReportSpace
  BY DEF Init, NewReport, ReportSpace
<1>6. run \in [rows : Nat, passed : Nat, failed : Nat, expired : BOOLEAN, codes : SUBSET Codes]
  BY DEF Init
<1>7. disk \in [report : {"absent", "SUCCESS", "PARTIAL", "FAILED"},
                ledger : {"absent", "SUCCESS", "PARTIAL", "FAILED"}, plan : BOOLEAN]
  BY DEF Init
<1>8. env \in [container : BOOLEAN, captured : BOOLEAN, bound : BOOLEAN, logging : BOOLEAN]
  BY DEF Init
<1> QED
  BY <1>1, <1>2, <1>3, <1>4, <1>5, <1>6, <1>7, <1>8
     DEF Init, TypeOK, Phases, ResultSpace, ReportSpace

LEMMA TypeStep == TypeOK /\ [Next]_vars => TypeOK'
<1> SUFFICES ASSUME TypeOK, [Next]_vars PROVE TypeOK'
  OBVIOUS
<1> DEFINE Containers == {"target", "dictionary", "cache", "sqlite"}
<1>a. rep \in ReportSpace /\ result \in ResultSpace
  BY DEF TypeOK, ReportSpace, ResultSpace
<1>b. ASSUME UNCHANGED <<cmd, todo, opened, broken, closing, run, rep, disk, env, interrupts,
                         cut, exit>>,
             result' \in ResultSpace, phase' \in Phases
      PROVE  TypeOK'
  BY <1>b DEF TypeOK, ResultSpace
<1>c. run \in RunSpace /\ run.rows + 1 \in Nat /\ run.passed + 1 \in Nat /\ run.failed + 1 \in Nat
  BY SMTT(60) DEF TypeOK, RunSpace
<1>d. \A q \in RunSpace, n, k \in Nat :
         /\ [q EXCEPT !.rows = n] \in RunSpace
         /\ [q EXCEPT !.rows = n, !.passed = k] \in RunSpace
         /\ [q EXCEPT !.rows = n, !.failed = k] \in RunSpace
         /\ [q EXCEPT !.rows = n, !.expired = TRUE] \in RunSpace
         /\ \A code \in Codes :
               [q EXCEPT !.rows = n, !.failed = k, !.codes = q.codes \cup {code}] \in RunSpace
  BY ZenonT(60) DEF RunSpace
<1>f. disk \in DiskSpace
  BY DEF TypeOK, DiskSpace
<1>e. 0 \in Nat /\ 1 \in Nat /\ 0 .. 1 \subseteq Nat
  OBVIOUS
<1>1. CASE Bootstrap
  BY <1>1 DEF Bootstrap, TypeOK, Phases
<1>2. CASE BootstrapFails
  <2>1. Diagnosed("INTERNAL_ERROR") \in ResultSpace
    BY CodesRanked, ResultTyped
  <2>2. result' \in ResultSpace /\ phase' = "apply"
    BY <1>2, <2>1, SettleTyped DEF BootstrapFails
  <2>3. env' \in [container : BOOLEAN, captured : BOOLEAN, bound : BOOLEAN, logging : BOOLEAN]
    BY <1>2, ZenonT(60) DEF BootstrapFails, HalfBooted
  <2> QED
    BY <1>2, <2>2, <2>3 DEF BootstrapFails, TypeOK, Phases, ResultSpace
<1>3. CASE Validate
  <2>1. Diagnosed("INTERNAL_ERROR") \in ResultSpace
    BY CodesRanked, ResultTyped
  <2>2. result' \in ResultSpace /\ phase' \in Phases
    BY <1>a, <1>3, <2>1, SettleTyped DEF Validate, Phases
  <2> QED
    BY <1>3, <1>b, <2>2 DEF Validate
<1>4. CASE InitResource
  <2>1. Head(todo) \in Resources /\ Tail(todo) \in Seq(Resources)
    BY <1>4 DEF InitResource, TypeOK
  <2> QED
    BY <1>4, <2>1 DEF InitResource, TypeOK
<1>5. CASE InitFails
  <2>1. \A code \in {"CACHE_ERROR", "INTERNAL_ERROR"} : Result({code}) \in ResultSpace
    BY CodesRanked, ResultTyped
  <2>2. result' \in ResultSpace /\ phase' \in Phases
    BY <1>5, <2>1, SettleTyped, RaisedTyped DEF InitFails, Phases
  <2> QED
    BY <1>5, <1>b, <2>2 DEF InitFails
<1>6. CASE InitDone \/ TopologyStep \/ HandlerRaises
  <2>1. result' \in ResultSpace /\ phase' \in Phases
    BY <1>a, <1>6, RaisedTyped DEF InitDone, TopologyStep, HandlerRaises, Phases
  <2> QED
    BY <1>6, <1>b, <2>1 DEF InitDone, TopologyStep, HandlerRaises
<1>7. CASE OpenVault
  BY <1>7 DEF OpenVault, TypeOK, Resources
<1>8. CASE ReportRow \/ ReportExpired \/ PlanRow
  <2>1. rep' \in ReportSpace
    <3>1. /\ AddItem(rep, "OK", 0, FALSE) \in ReportSpace
          /\ AddItem(rep, "FAILED", 1, FALSE) \in ReportSpace
          /\ AddItem(rep, "SKIPPED", 0, TRUE) \in ReportSpace
          /\ \A errors \in 0 .. 1, pre \in BOOLEAN :
                AddItem(rep, "FAILED", errors, pre) \in ReportSpace
      BY <1>a, <1>e, ReportTyped, Zenon
    <3>2. CASE ReportRow
      BY <3>1, <3>2 DEF ReportRow
    <3>3. CASE ReportExpired
      BY <3>1, <3>3 DEF ReportExpired
    <3>4. CASE PlanRow
      BY <1>a, <3>1, <3>4 DEF PlanRow
    <3> QED
      BY <1>8, <3>2, <3>3, <3>4
  <2>2. run' \in RunSpace
    <3>1. /\ [run EXCEPT !.rows = @ + 1] \in RunSpace
          /\ [run EXCEPT !.rows = @ + 1, !.passed = @ + 1] \in RunSpace
          /\ [run EXCEPT !.rows = @ + 1, !.failed = @ + 1] \in RunSpace
          /\ [run EXCEPT !.rows = @ + 1, !.expired = TRUE] \in RunSpace
      BY <1>c, <1>d
    <3> QED
      BY <1>8, <3>1 DEF ReportRow, ReportExpired, PlanRow
  <2> QED
    BY <1>8, <2>1, <2>2, ZenonT(60) DEF ReportRow, ReportExpired, PlanRow, TypeOK, ReportSpace, RunSpace
<1>9. CASE StageDone \/ PlanDone \/ PlainDone \/ HandlerFails
  <2>1. \A codes \in SUBSET {"DATA_INVALID", "OK", "CONFLICT"} : Result(codes) \in ResultSpace
    BY CodesRanked, ResultTyped
  <2>2. \A code \in FailureCodes : Result({code}) \in ResultSpace
    BY FailureTyped, ResultTyped
  <2>3. CASE StageDone
    <3>1. PICK codes \in SUBSET {"DATA_INVALID", "OK", "CONFLICT"} : Settle(Result(codes))
      BY <2>3 DEF StageDone
    <3> QED
      BY <2>1, <2>3, <3>1, <1>b, SettleTyped DEF StageDone, Phases
  <2>4. CASE PlanDone \/ PlainDone \/ HandlerFails
    <3>1. result' \in ResultSpace /\ phase' \in Phases
      BY <2>1, <2>2, <2>4, SettleTyped DEF PlanDone, PlainDone, HandlerFails, Phases
    <3> QED
      BY <2>4, <3>1, <1>b DEF PlanDone, PlainDone, HandlerFails
  <2> QED
    BY <1>9, <2>3, <2>4
<1>10. CASE PlanBuilt
  <2>1. rep' \in ReportSpace
    BY <1>a, <1>10, ReportTyped DEF PlanBuilt, TypeOK
  <2> QED
    BY <1>10, <2>1 DEF PlanBuilt, TypeOK, Phases, ReportSpace
<1>11. CASE WritePlan
  <2>1. disk' \in DiskSpace
    BY <1>f, <1>11 DEF WritePlan, DiskSpace
  <2> QED
    BY <1>11, <2>1 DEF WritePlan, TypeOK, DiskSpace
<1>12. CASE ApplyItem
  <2>1. /\ [run EXCEPT !.rows = @ + 1, !.passed = @ + 1] \in RunSpace
        /\ \A code \in Codes :
              [run EXCEPT !.rows = @ + 1, !.failed = @ + 1, !.codes = @ \cup {code}] \in RunSpace
    BY <1>c, <1>d
  <2>2. {"DATA_INVALID", "CONFLICT", "AUTH_FORBIDDEN", "INFRA_UNAVAILABLE"} \subseteq Codes
    BY CodesRanked
  <2>3. run' \in RunSpace
    BY <1>12, <2>1, <2>2, ZenonT(60) DEF ApplyItem
  <2> QED
    BY <1>12, <2>3, SMTT(60) DEF ApplyItem, TypeOK, RunSpace
<1>13. CASE ApplyDone
  <2>1. Result({"OK"}) \in ResultSpace /\ Result(run.codes) \in ResultSpace
    BY CodesRanked, ResultTyped DEF TypeOK
  <2>2. result' \in ResultSpace /\ phase' = "apply"
    BY <1>13, <2>1, SettleTyped DEF ApplyDone
  <2>3. rep' \in ReportSpace
    BY <1>a, <1>13, ReportTyped DEF ApplyDone, TypeOK
  <2> QED
    BY <1>13, <2>2, <2>3 DEF ApplyDone, TypeOK, Phases, ReportSpace, ResultSpace
<1>14. CASE ApplyToReport
  <2>1. rep' \in ReportSpace
    BY <1>a, <1>14, ApplyTyped DEF ApplyToReport
  <2>2. /\ phase' = "restore"
        /\ UNCHANGED <<cmd, todo, result, opened, broken, closing, run, disk, env, interrupts,
                       cut, exit>>
    BY <1>14 DEF ApplyToReport
  <2> QED
    BY <2>1, <2>2 DEF TypeOK, Phases, ReportSpace
<1>15. CASE RestoreStreams
  <2>1. ShutdownOrder \in Seq(Containers) /\ <<>> \in Seq(Containers)
    BY DEF ShutdownOrder
  <2>2. closing' \in Seq(Containers)
    BY <1>15, <2>1 DEF RestoreStreams
  <2>3. env' \in EnvSpace
    BY <1>15 DEF RestoreStreams, TypeOK, EnvSpace
  <2> QED
    BY <1>15, <2>2, <2>3 DEF RestoreStreams, TypeOK, Phases, EnvSpace
<1>16. CASE ShutdownContainer
  <2>1. closing' \in Seq(Containers)
    BY <1>16 DEF ShutdownContainer, TypeOK
  <2>2. opened' \subseteq Resources /\ broken' \subseteq Resources \cup {"logging"}
    BY <1>16 DEF ShutdownContainer, TypeOK
  <2> QED
    BY <1>16, <2>1, <2>2 DEF ShutdownContainer, TypeOK
<1>17. CASE ShutdownDone
  <2>1. Result({"INTERNAL_ERROR"}) \in ResultSpace
    BY CodesRanked, ResultTyped
  <2>2. result' \in ResultSpace
    BY <1>a, <1>17, <2>1 DEF ShutdownDone, Absorb
  <2>3. rep' \in ReportSpace
    <3>1. \A b \in BOOLEAN : ApplyResult(rep, Result({"INTERNAL_ERROR"}), b) \in ReportSpace
      BY <1>a, ApplyTyped
    <3>2. (result # NoResult) \in BOOLEAN
      OBVIOUS
    <3> QED
      BY <1>a, <1>17, <3>1, <3>2 DEF ShutdownDone, Absorb
  <2> QED
    BY <1>17, <2>2, <2>3 DEF ShutdownDone, TypeOK, Phases, ReportSpace, ResultSpace
<1>18. CASE Finalize
  <2>1. rep' \in ReportSpace /\ Status(rep) \in {"SUCCESS", "PARTIAL", "FAILED"}
    BY <1>a, <1>18, ReportTyped DEF Finalize
  <2>2. disk' \in DiskSpace
    BY <1>f, <1>18, <2>1 DEF Finalize, DiskSpace
  <2> QED
    BY <1>18, <2>1, <2>2, SMTT(60) DEF Finalize, TypeOK, Phases, ReportSpace, DiskSpace
<1>19. CASE FinalizeFails
  <2>1. Result({"INTERNAL_ERROR"}) \in ResultSpace
    BY CodesRanked, ResultTyped
  <2>2. result' \in ResultSpace
    BY <1>a, <1>19, <2>1 DEF FinalizeFails
  <2>3. rep' \in ReportSpace
    <3>1. \A r \in ReportSpace, b \in BOOLEAN :
            ApplyResult(r, Result({"INTERNAL_ERROR"}), b) \in ReportSpace
      BY ApplyTyped
    <3>2. Finish(rep) \in ReportSpace
      BY <1>a, ReportTyped
    <3>3. (result # NoResult) \in BOOLEAN
      OBVIOUS
    <3> QED
      BY <1>a, <1>19, <3>1, <3>2, <3>3 DEF FinalizeFails
  <2> QED
    BY <1>19, <2>2, <2>3 DEF FinalizeFails, TypeOK, Phases, ReportSpace, ResultSpace
<1>20. CASE RecordLedger
  <2>1. LedgerStatus \in {"SUCCESS", "PARTIAL", "FAILED"}
    BY <1>a, ReportTyped, Zenon DEF LedgerStatus
  <2> QED
    BY <1>20, <2>1, SMTT(60) DEF RecordLedger, TypeOK, Phases
<1>21. CASE CloseObservability \/ ClearContext
  <2>1. env' \in EnvSpace
    BY <1>21 DEF CloseObservability, ClearContext, TypeOK, EnvSpace
  <2>2. broken' \subseteq Resources \cup {"logging"}
    BY <1>21 DEF CloseObservability, ClearContext, TypeOK
  <2> QED
    BY <1>21, <2>1, <2>2 DEF CloseObservability, ClearContext, TypeOK, Phases, EnvSpace
<1>22. CASE ExitProcess
  <2>1. exit' \in {"interrupted", "0", "1", "2"}
    BY <1>22, ExitTyped, Zenon DEF ExitProcess
  <2> QED
    BY <1>22, <2>1 DEF ExitProcess, TypeOK, Phases
<1>23. CASE Interrupt
  <2>1. interrupts' \in Nat
    BY <1>23 DEF Interrupt, TypeOK
  <2>2. cut' \in {cut, "finally", "closing"} /\ phase' \in {"restore", "close", "exit"}
    BY <1>23, Zenon DEF Interrupt
  <2>3. cut' \in {"no", "finally", "closing"} /\ phase' \in Phases
    BY <2>2 DEF TypeOK, Phases
  <2>4. env' \in EnvSpace
    <3>1. env \in EnvSpace
      BY DEF TypeOK, EnvSpace
    <3> QED
      BY <1>23, <3>1, ZenonT(60) DEF Interrupt, HalfBooted, EnvSpace
  <2> QED
    BY <1>23, <2>1, <2>3, <2>4 DEF Interrupt, TypeOK, EnvSpace
<1>24. CASE UNCHANGED vars
  BY <1>24 DEF vars, TypeOK
<1> QED
  BY <1>1, <1>2, <1>3, <1>4, <1>5, <1>6, <1>7, <1>8, <1>9, <1>10, <1>11, <1>12, <1>13, <1>14,
     <1>15, <1>16, <1>17, <1>18, <1>19, <1>20, <1>21, <1>22, <1>23, <1>24 DEF Next, Step

\* CommandRuntime is type-correct: the record of CommandTable, the counters of
\* the report and the statuses on disk keep their types in every behaviour.
THEOREM TypeCorrect == Spec => []TypeOK
  BY TypeInit, TypeStep, PTL DEF Spec

-----------------------------------------------------------------------------
(* Results, ledger and exit code *)

\* The phases in which the body has no result yet.
Unsettled == BodyPhases \ {"apply"}

\* While the body runs there is no result; it settles one unless an interrupt
\* cuts it off; the ledger is written once, from that result, and the exit code
\* is computed from the same one.
ResultInv ==
  /\ phase \in Unsettled => result = NoResult
  /\ phase \notin Unsettled /\ interrupts = 0 => result # NoResult
  /\ phase \in BodyPhases \cup FinallyPhases => disk.ledger = "absent"
  /\ cut # "no" => interrupts > 0
  /\ interrupts = 0 /\ disk.ledger # "absent"
        => (disk.ledger = "SUCCESS" <=> ExitOf(result) = "0")
  /\ phase = "done" /\ interrupts = 0 => exit = ExitOf(result)

LEMMA ResultInit == Init => ResultInv
  BY DEF Init, ResultInv, Unsettled, BodyPhases, FinallyPhases

\* What the steps of the body do to the result.
LEMMA BodyStep ==
  ASSUME TypeOK, ResultInv,
         \/ Bootstrap \/ BootstrapFails \/ Validate \/ InitResource \/ InitFails \/ InitDone
         \/ TopologyStep \/ OpenVault \/ ReportRow \/ ReportExpired \/ StageDone \/ PlanRow
         \/ PlanBuilt \/ WritePlan \/ PlanDone \/ ApplyItem \/ ApplyDone \/ PlainDone
         \/ HandlerFails \/ HandlerRaises
  PROVE  /\ phase \in Unsettled
         /\ \/ phase' \in Unsettled /\ result' = result
            \/ phase' = "apply" /\ result' # NoResult
         /\ disk'.ledger = disk.ledger
         /\ UNCHANGED <<interrupts, cut, exit>>
<1>1. /\ \A codes : Result(codes) # NoResult
      /\ \A code : Diagnosed(code) # NoResult
  BY DEF Result, Diagnosed, NoResult
<1>2. ASSUME NEW res, Settle(res), res # NoResult
      PROVE  phase' = "apply" /\ result' # NoResult
  BY <1>2 DEF Settle
<1>3. ASSUME Raised PROVE phase' = "apply" /\ result' # NoResult
  BY <1>1, <1>2, <1>3 DEF Raised
<1>4. CASE Bootstrap \/ InitResource \/ InitDone \/ OpenVault
  BY <1>4 DEF Bootstrap, InitResource, InitDone, OpenVault, Unsettled, BodyPhases
<1>5. CASE BootstrapFails \/ Validate \/ InitFails \/ TopologyStep
  BY <1>1, <1>2, <1>3, <1>5
     DEF BootstrapFails, Validate, InitFails, TopologyStep, Unsettled, BodyPhases
<1>6. CASE ReportRow \/ ReportExpired \/ PlanRow \/ PlanBuilt \/ ApplyItem
  BY <1>6 DEF ReportRow, ReportExpired, PlanRow, PlanBuilt, ApplyItem, Unsettled, BodyPhases
<1>7. CASE WritePlan
  <2>1. disk'.ledger = disk.ledger
    BY <1>7 DEF WritePlan, TypeOK
  <2> QED
    BY <1>7, <2>1 DEF WritePlan, Unsettled, BodyPhases
<1>8. CASE StageDone
  <2>1. \E codes : Settle(Result(codes))
    BY <1>8 DEF StageDone
  <2> QED
    BY <1>1, <1>2, <1>8, <2>1 DEF StageDone, Unsettled, BodyPhases
<1>9. CASE PlanDone \/ ApplyDone \/ PlainDone
  BY <1>1, <1>2, <1>9 DEF PlanDone, ApplyDone, PlainDone, Unsettled, BodyPhases
<1>10. CASE HandlerFails \/ HandlerRaises
  BY <1>1, <1>2, <1>3, <1>10 DEF HandlerFails, HandlerRaises, Unsettled, BodyPhases
<1> QED
  BY <1>4, <1>5, <1>6, <1>7, <1>8, <1>9, <1>10

LEMMA ResultStep == TypeOK /\ ResultInv /\ [Next]_vars => ResultInv'
<1> SUFFICES ASSUME TypeOK, ResultInv, [Next]_vars PROVE ResultInv'
  OBVIOUS
<1> USE DEF Unsettled, BodyPhases, FinallyPhases
<1>1. CASE \/ Bootstrap \/ BootstrapFails \/ Validate \/ InitResource \/ InitFails \/ InitDone
           \/ TopologyStep \/ OpenVault \/ ReportRow \/ ReportExpired \/ StageDone \/ PlanRow
           \/ PlanBuilt \/ WritePlan \/ PlanDone \/ ApplyItem \/ ApplyDone \/ PlainDone
           \/ HandlerFails \/ HandlerRaises
  BY <1>1, BodyStep DEF ResultInv
<1>2. CASE ApplyToReport \/ RestoreStreams \/ ShutdownContainer
  <2>1. /\ phase \in {"apply", "restore", "shutdown"} /\ phase' \in {"restore", "shutdown"}
        /\ UNCHANGED <<result, disk, interrupts, cut, exit>>
    BY <1>2 DEF ApplyToReport, RestoreStreams, ShutdownContainer
  <2> QED
    BY <2>1 DEF ResultInv
<1>3. CASE ShutdownDone
  <2>1. phase = "shutdown" /\ phase' \in {"finalize", "ledger"}
    BY <1>3 DEF ShutdownDone
  <2>2. result # NoResult => result' = result
    BY <1>3 DEF ShutdownDone, Absorb
  <2>3. UNCHANGED <<disk, interrupts, cut, exit>>
    BY <1>3 DEF ShutdownDone
  <2> QED
    BY <2>1, <2>2, <2>3 DEF ResultInv
<1>4. CASE Finalize
  <2>1. disk'.ledger = disk.ledger
    BY <1>4 DEF Finalize, TypeOK
  <2> QED
    BY <1>4, <2>1 DEF Finalize, ResultInv
<1>5. CASE FinalizeFails
  <2>1. phase = "finalize" /\ phase' = "ledger"
    BY <1>5 DEF FinalizeFails
  <2>2. result # NoResult => result' = result
    BY <1>5 DEF FinalizeFails
  <2>3. UNCHANGED <<disk, interrupts, cut, exit>>
    BY <1>5 DEF FinalizeFails
  <2> QED
    BY <2>1, <2>2, <2>3 DEF ResultInv
<1>6. CASE RecordLedger
  <2>1. /\ phase = "ledger" /\ phase' = "close"
        /\ UNCHANGED <<result, interrupts, cut, exit>>
        /\ disk'.ledger = disk.ledger \/ disk'.ledger = LedgerStatus
    BY <1>6 DEF RecordLedger, TypeOK
  <2>2. result # NoResult => (LedgerStatus = "SUCCESS" <=> ExitOf(result) = "0")
    BY Zenon DEF LedgerStatus
  <2> QED
    BY <2>1, <2>2 DEF ResultInv
<1>7. CASE CloseObservability \/ ClearContext
  BY <1>7 DEF CloseObservability, ClearContext, ResultInv
<1>8. CASE ExitProcess
  <2>1. /\ phase = "exit" /\ phase' = "done"
        /\ UNCHANGED <<result, disk, interrupts, cut>>
    BY <1>8 DEF ExitProcess
  <2>2. cut = "no" /\ result # NoResult => exit' = ExitOf(result)
    BY <1>8, Zenon DEF ExitProcess
  <2>3. interrupts = 0 => cut = "no" /\ result # NoResult
    BY <2>1 DEF ResultInv
  <2> QED
    BY <2>1, <2>2, <2>3 DEF ResultInv
<1>9. CASE Interrupt
  <2>1. interrupts' > 0 /\ interrupts' # 0
    BY <1>9 DEF Interrupt, TypeOK
  <2>2. UNCHANGED <<result, disk>>
    BY <1>9 DEF Interrupt
  <2>3. phase' \in {"close", "exit"} \/ (phase \in BodyPhases /\ phase' = "restore")
    BY <1>9, Zenon DEF Interrupt
  <2> QED
    BY <2>1, <2>2, <2>3 DEF ResultInv
<1>10. CASE UNCHANGED vars
  BY <1>10 DEF vars, ResultInv
<1> QED
  BY <1>1, <1>2, <1>3, <1>4, <1>5, <1>6, <1>7, <1>8, <1>9, <1>10 DEF Next, Step

\* Ledger and exit code agree for every run nobody interrupted, whatever fails
\* and whenever (_resolve_ledger_status and exit_code_from_result read the same
\* exit_result).
THEOREM LedgerAgreement == Spec => []ExitAgreesWithLedger
<1>1. ResultInv => ExitAgreesWithLedger
  BY DEF ResultInv, ExitAgreesWithLedger
<1> QED
  BY <1>1, TypeInit, TypeStep, ResultInit, ResultStep, PTL DEF Spec

\* No later failure replaces the first result of a command.
THEOREM FirstResultSurvives == Spec => PrimaryResultSurvives
<1>1. TypeOK /\ ResultInv /\ [Next]_vars => [result # NoResult => result' = result]_vars
  <2> SUFFICES ASSUME TypeOK, ResultInv, Next, result # NoResult PROVE result' = result
    BY DEF vars
  <2>1. phase \notin Unsettled
    BY DEF ResultInv
  <2>2. CASE \/ Bootstrap \/ BootstrapFails \/ Validate \/ InitResource \/ InitFails
             \/ InitDone \/ TopologyStep \/ OpenVault \/ ReportRow \/ ReportExpired
             \/ StageDone \/ PlanRow \/ PlanBuilt \/ WritePlan \/ PlanDone \/ ApplyItem
             \/ ApplyDone \/ PlainDone \/ HandlerFails \/ HandlerRaises
    BY <2>1, <2>2, BodyStep
  <2>3. CASE \/ ApplyToReport \/ RestoreStreams \/ ShutdownContainer \/ Finalize
             \/ RecordLedger \/ CloseObservability \/ ClearContext \/ ExitProcess \/ Interrupt
    BY <2>3 DEF ApplyToReport, RestoreStreams, ShutdownContainer, Finalize, RecordLedger,
                CloseObservability, ClearContext, ExitProcess, Interrupt
  <2>4. CASE ShutdownDone \/ FinalizeFails
    BY <2>4 DEF ShutdownDone, FinalizeFails, Absorb
  <2> QED
    BY <2>2, <2>3, <2>4 DEF Next, Step
<1> QED
  BY <1>1, TypeInit, TypeStep, ResultInit, ResultStep, PTL DEF Spec, PrimaryResultSurvives

-----------------------------------------------------------------------------
(* What is left open *)

\* A resource is only there in a container; what the shutdown has still to close
\* belongs to a subcontainer it has still to come to.
OpenInv ==
  /\ phase \in Unsettled \ {"boot"} => env.container
  /\ opened # {} => env.container /\ phase # "boot"
  /\ phase = "shutdown" =>
       \A r \in opened \ broken : \E i \in DOMAIN closing : closing[i] = Owner(r)
  /\ phase \in {"finalize", "ledger", "close", "clear", "exit", "done"} /\ cut = "no"
        => opened \subseteq broken
  /\ phase \notin BodyPhases \cup {"restore"} /\ cut = "no" => ~env.captured
  /\ phase \in {"clear", "exit", "done"} /\ cut # "closing" /\ env.logging
        => "logging" \in broken
  /\ phase \in {"exit", "done"} /\ cut # "closing" => ~env.bound
  /\ cut = "finally" => phase \in {"close", "clear", "exit", "done"}
  /\ cut = "closing" => phase \in {"exit", "done"}

LEMMA OpenInit == Init => OpenInv
  BY DEF Init, OpenInv, BodyPhases, Unsettled

\* Every subcontainer is shut down.
LEMMA OwnerShutDown ==
  \A r \in Resources : \E i \in DOMAIN ShutdownOrder : ShutdownOrder[i] = Owner(r)
<1>1. /\ 1 \in DOMAIN ShutdownOrder /\ ShutdownOrder[1] = "target"
      /\ 2 \in DOMAIN ShutdownOrder /\ ShutdownOrder[2] = "dictionary"
      /\ 3 \in DOMAIN ShutdownOrder /\ ShutdownOrder[3] = "cache"
      /\ 4 \in DOMAIN ShutdownOrder /\ ShutdownOrder[4] = "sqlite"
  BY DEF ShutdownOrder
<1>2. \A r : Owner(r) \in {"target", "dictionary", "cache", "sqlite"}
  BY Zenon DEF Owner
<1> QED
  BY <1>1, <1>2

LEMMA OpenStep == TypeOK /\ OpenInv /\ [Next]_vars => OpenInv'
<1> SUFFICES ASSUME TypeOK, OpenInv, [Next]_vars PROVE OpenInv'
  OBVIOUS
<1> USE DEF BodyPhases, Unsettled
\* A step within the body, or out of it, that opens nothing.
<1>a. ASSUME phase \in BodyPhases, phase' \in (BodyPhases \ {"boot"}) \cup {"restore"},
             UNCHANGED <<opened, env, cut>>,
             phase \in {"boot", "apply"} => phase' \in {"apply", "restore"}
      PROVE  OpenInv'
  BY <1>a DEF OpenInv
<1>b. ASSUME Raised PROVE phase' = "apply"
  BY <1>b DEF Raised, Settle
<1>1. CASE Bootstrap
  BY <1>1 DEF Bootstrap, OpenInv
<1>2. CASE BootstrapFails
  <2>1. phase = "boot" /\ phase' = "apply" /\ UNCHANGED <<opened, broken, cut>>
    BY <1>2 DEF BootstrapFails, Settle
  <2> QED
    BY <2>1 DEF OpenInv
<1>3. CASE Validate \/ InitFails \/ InitDone \/ TopologyStep
  <2>1. /\ phase \in BodyPhases \ {"boot", "apply"} /\ phase' \in BodyPhases \ {"boot"}
        /\ UNCHANGED <<opened, env, cut>>
    BY <1>3, <1>b DEF Validate, InitFails, InitDone, TopologyStep, Settle
  <2> QED
    BY <1>a, <2>1
<1>4. CASE InitResource \/ OpenVault
  <2>1. phase \in {"init", "handler"} /\ phase' = phase /\ UNCHANGED <<env, cut>>
    BY <1>4 DEF InitResource, OpenVault
  <2> QED
    BY <2>1 DEF OpenInv
<1>5. CASE ReportRow \/ ReportExpired \/ PlanRow \/ PlanBuilt \/ WritePlan \/ ApplyItem
  <2>1. /\ phase \in {"handler", "planned"} /\ phase' \in {"handler", "planned"}
        /\ UNCHANGED <<opened, env, cut>>
    BY <1>5 DEF ReportRow, ReportExpired, PlanRow, PlanBuilt, WritePlan, ApplyItem
  <2> QED
    BY <1>a, <2>1
<1>6. CASE StageDone \/ PlanDone \/ ApplyDone \/ PlainDone \/ HandlerFails \/ HandlerRaises
  <2>1. /\ phase \in {"handler", "planned"} /\ phase' = "apply"
        /\ UNCHANGED <<opened, env, cut>>
    BY <1>6, <1>b
       DEF StageDone, PlanDone, ApplyDone, PlainDone, HandlerFails, HandlerRaises, Settle
  <2> QED
    BY <1>a, <2>1
<1>7. CASE ApplyToReport
  <2>1. phase = "apply" /\ phase' = "restore" /\ UNCHANGED <<opened, env, cut>>
    BY <1>7 DEF ApplyToReport
  <2> QED
    BY <1>a, <2>1
<1>8. CASE RestoreStreams
  <2>1. /\ phase = "restore" /\ phase' = "shutdown" /\ cut = "no"
        /\ env' = [env EXCEPT !.captured = FALSE]
        /\ closing' = IF env.container THEN ShutdownOrder ELSE <<>>
        /\ UNCHANGED <<opened, broken, cut>>
    BY <1>8 DEF RestoreStreams, OpenInv, TypeOK
  <2>2. env'.container = env.container /\ ~env'.captured
    BY <2>1 DEF TypeOK
  <2>3. \A r \in opened' \ broken' : \E i \in DOMAIN closing' : closing'[i] = Owner(r)
    <3> SUFFICES ASSUME NEW r \in opened' PROVE \E i \in DOMAIN closing' : closing'[i] = Owner(r)
      OBVIOUS
    <3>1. closing' = ShutdownOrder /\ r \in Resources
      BY <2>1 DEF OpenInv, TypeOK
    <3> QED
      BY <3>1, OwnerShutDown
  <2> QED
    BY <2>1, <2>2, <2>3 DEF OpenInv
<1>9. CASE ShutdownContainer
  <2>1. /\ phase = "shutdown" /\ phase' = "shutdown" /\ closing # <<>> /\ closing' = Tail(closing)
        /\ UNCHANGED <<env, cut>> /\ opened' \subseteq opened /\ broken \subseteq broken'
        /\ \A r \in opened' \ broken' : Owner(r) # Head(closing)
    BY <1>9 DEF ShutdownContainer
  <2>2. ASSUME NEW r \in opened' \ broken'
        PROVE  \E i \in DOMAIN closing' : closing'[i] = Owner(r)
    <3>1. PICK i \in DOMAIN closing : closing[i] = Owner(r)
      BY <2>1 DEF OpenInv
    <3>2. closing \in Seq({"target", "dictionary", "cache", "sqlite"})
      BY DEF TypeOK
    <3>3. i # 1
      BY <2>1, <3>1, <3>2
    <3>4. i - 1 \in DOMAIN closing' /\ closing'[i - 1] = closing[i]
      BY <2>1, <3>1, <3>2, <3>3
    <3> QED
      BY <3>1, <3>4
  <2> QED
    BY <2>1, <2>2 DEF OpenInv
<1>10. CASE ShutdownDone
  <2>1. /\ phase = "shutdown" /\ closing = <<>> /\ phase' \in {"finalize", "ledger"}
        /\ UNCHANGED <<opened, broken, env, cut>>
    BY <1>10 DEF ShutdownDone
  <2>2. opened \subseteq broken
    BY <2>1 DEF OpenInv
  <2> QED
    BY <2>1, <2>2 DEF OpenInv
<1>11. CASE Finalize \/ FinalizeFails \/ RecordLedger
  <2>1. /\ phase \in {"finalize", "ledger"} /\ phase' \in {"ledger", "close"}
        /\ UNCHANGED <<opened, broken, env, cut>>
    BY <1>11 DEF Finalize, FinalizeFails, RecordLedger
  <2> QED
    BY <2>1 DEF OpenInv
<1>12. CASE CloseObservability
  <2>1. /\ phase = "close" /\ phase' = "clear"
        /\ env'.container = env.container /\ env'.captured = env.captured
        /\ env'.logging => "logging" \in broken'
        /\ broken \subseteq broken'
        /\ UNCHANGED <<opened, cut>>
    BY <1>12 DEF CloseObservability, TypeOK
  <2> QED
    BY <2>1 DEF OpenInv
<1>16. CASE ClearContext
  <2>1. /\ phase = "clear" /\ phase' = "exit"
        /\ env'.container = env.container /\ env'.captured = env.captured
        /\ env'.logging = env.logging /\ ~env'.bound
        /\ UNCHANGED <<opened, broken, cut>>
    BY <1>16 DEF ClearContext, TypeOK
  <2> QED
    BY <2>1 DEF OpenInv
<1>13. CASE ExitProcess
  <2>1. /\ phase = "exit" /\ phase' = "done" /\ UNCHANGED <<opened, broken, env, cut>>
    BY <1>13 DEF ExitProcess
  <2> QED
    BY <2>1 DEF OpenInv
<1>14. CASE Interrupt
  <2>1. UNCHANGED <<opened, broken>>
    BY <1>14 DEF Interrupt
  <2>2. CASE phase \in BodyPhases /\ phase' = "restore" /\ UNCHANGED cut /\ (phase # "boot" => UNCHANGED env)
    BY <2>1, <2>2 DEF OpenInv
  <2>3. CASE phase \in FinallyPhases /\ phase' = "close" /\ cut' = "finally" /\ UNCHANGED env
    BY <2>1, <2>3 DEF OpenInv, FinallyPhases
  <2>4. CASE phase \in ClosingPhases /\ phase' = "exit" /\ cut' = "closing" /\ UNCHANGED env
    BY <2>1, <2>4 DEF OpenInv, ClosingPhases
  <2> QED
    BY <1>14, <2>2, <2>3, <2>4 DEF Interrupt
<1>15. CASE UNCHANGED vars
  BY <1>15 DEF vars, OpenInv
<1> QED
  BY <1>1, <1>2, <1>3, <1>4, <1>5, <1>6, <1>7, <1>8, <1>9, <1>10, <1>11, <1>12, <1>13, <1>14,
     <1>15, <1>16 DEF Next, Step

\* A process that ends, and was not interrupted in its finally blocks, has restored
\* the streams and closed what it opened, up to the subcontainers whose own shutdown
\* failed; unless interrupted while it closed the logging itself, it has cleared the
\* log context, and left the log runtime open only where its shutdown failed
\* (orchestrator.py, the finally blocks of run_with_report and run_without_report).
THEOREM NothingLeftOpenCorrect == Spec => []NothingLeftOpen
<1>1. OpenInv => NothingLeftOpen
  BY DEF OpenInv, NothingLeftOpen, BodyPhases
<1> QED
  BY <1>1, TypeInit, TypeStep, OpenInit, OpenStep, PTL DEF Spec

-----------------------------------------------------------------------------
(* What the report says of a failure *)

\* While the body runs, an error in the report is the error of a blocked row; the
\* planner's rows are counted when the plan is built.  From the moment the result
\* is in the report, a failure shows: as a blocked item, or, for a planner that
\* broke off, as the errors of its rows.
FailureShown ==
  \/ rep.blocked > 0 /\ rep.status # "SUCCESS"
  \/ cmd.feeds = "plan" /\ ~disk.plan /\ rep.errors > 0

FailureInv ==
  /\ phase \in Unsettled => rep.status = "unset"
  /\ phase \in Unsettled \ {"planned"} => ~disk.plan
  /\ phase = "apply" /\ rep.status = "SUCCESS" => IsOk(result)
  /\ phase \in BodyPhases =>
       /\ cmd.feeds = "apply" /\ run.failed = 0 => run.codes = {}
       /\ cmd.feeds = "plan" /\ rep.errors > 0 => run.failed > 0
       /\ rep.errors > 0 => \/ rep.blocked > 0
                            \/ cmd.feeds = "plan" /\ ~disk.plan /\ phase # "planned"
  /\ phase \notin BodyPhases /\ interrupts = 0 /\ Reported(cmd) /\ ~IsOk(result) => FailureShown
  /\ phase \in BodyPhases \cup {"restore", "shutdown", "finalize"} => disk.report = "absent"
  /\ disk.report # "absent" => rep.status = disk.report /\ Reported(cmd)
  /\ phase = "finalize" => Reported(cmd)

\* The row commands and their conflicts: only resolve reports expired links.
LEMMA ResolveFeedsRows == \A c \in CommandTable : c.name = "resolve" => c.feeds = "rows"
<1>1. \A c \in PipelineCommands : c.feeds = "rows"
  BY DEF PipelineCommands, Cmd
<1>2. \A c \in ImportCommands \cup CacheCommands : c.name # "resolve"
  BY DEF ImportCommands, CacheCommands, Cmd
<1>3. \A c \in VaultCommands \cup MaintenanceCommands : c.name # "resolve"
  BY DEF VaultCommands, MaintenanceCommands, Cmd
<1> QED
  BY <1>1, <1>2, <1>3 DEF CommandTable

\* A result without a failing code exits with 0.
LEMMA OkExits == \A res : IsOk(res) => ExitOf(res) = "0"
<1>1. ASSUME NEW codes, codes \subseteq {"OK"} PROVE PrimaryCode(codes) = "OK"
  <2>1. CASE codes = {}
    BY <2>1 DEF PrimaryCode
  <2>2. CASE codes # {}
    <3> DEFINE First(i) == CodeRank[i] \in codes /\ \A j \in 1 .. i - 1 : CodeRank[j] \notin codes
    <3>1. /\ 10 \in DOMAIN CodeRank /\ CodeRank[10] = "OK"
          /\ \A j \in 1 .. 10 - 1 : CodeRank[j] # "OK"
      BY DEF CodeRank
    <3>2. First(10)
      BY <1>1, <2>2, <3>1
    <3>3. \E i \in DOMAIN CodeRank : First(i)
      BY <3>1, <3>2
    <3>4. First(CHOOSE i \in DOMAIN CodeRank : First(i))
      BY <3>3
    <3>5. CodeRank[CHOOSE i \in DOMAIN CodeRank : First(i)] = "OK"
      BY <1>1, <3>4
    <3> QED
      BY <2>2, <3>5 DEF PrimaryCode
  <2> QED
    BY <2>1, <2>2
<1>2. \A codes : PrimaryCode(codes) = "OK" => ExitCode(codes) = "0"
  BY Zenon DEF ExitCode
<1> QED
  BY <1>1, <1>2 DEF IsOk, ExitOf

\* What the events add to the counters and the status of a report.
LEMMA ItemAdded ==
  ASSUME NEW r \in ReportSpace, NEW errors \in Nat
  PROVE  /\ LET q == AddItem(r, "OK", 0, FALSE)
            IN  q.blocked = r.blocked /\ q.errors = r.errors /\ q.status = r.status
         /\ LET q == AddItem(r, "SKIPPED", 0, TRUE)
            IN  q.blocked = r.blocked /\ q.errors = r.errors /\ q.status = r.status
         /\ LET q == AddItem(r, "FAILED", errors, FALSE)
            IN  q.blocked = r.blocked + 1 /\ q.errors = r.errors + errors /\ q.status = r.status
         /\ LET q == AddItem(r, "FAILED", errors, TRUE)
            IN  q.errors = r.errors + errors /\ q.status = r.status
  BY DEF AddItem, ReportSpace

\* Putting a result into the report leaves no failure unseen, and a secondary one
\* changes neither the blocked items nor the errors.
LEMMA ResultShows ==
  ASSUME NEW r \in ReportSpace, NEW res
  PROVE  /\ LET q == ApplyResult(r, res, FALSE)
            IN  /\ q.status = r.status
                /\ q.blocked >= r.blocked /\ q.errors >= r.errors
                /\ res.diagnostics = "error" => q.blocked > 0
                /\ res.diagnostics = "none" /\ ~IsOk(res) => q.blocked > 0 \/ (q = r /\ r.errors > 0)
         /\ LET q == ApplyResult(r, res, TRUE)
            IN  q.status = r.status /\ q.blocked = r.blocked /\ q.errors = r.errors
<1> DEFINE ok == AddItem(r, "OK", 0, FALSE)
           failed == AddItem(r, "FAILED", 1, FALSE)
<1>1. /\ r.blocked \in Nat /\ r.errors \in Nat
      /\ ok.status = r.status /\ ok.blocked = r.blocked /\ ok.errors = r.errors
      /\ failed.status = r.status /\ failed.blocked = r.blocked + 1 /\ failed.errors = r.errors + 1
  <2>1. r.blocked \in Nat /\ r.errors \in Nat /\ 1 \in Nat
    BY DEF ReportSpace
  <2> QED
    BY <2>1, ItemAdded
<1> HIDE DEF ok, failed
<1> DEFINE first == ApplyResult(r, res, FALSE)
           second == ApplyResult(r, res, TRUE)
           bad == \/ res.diagnostics = "error"
                  \/ res.diagnostics = "none" /\ ~IsOk(res) /\ NeedsSynthetic(r, FALSE)
<1>2. /\ bad => first = failed
      /\ ~bad => first = r
      /\ second = ok \/ second = r
  BY Zenon DEF ApplyResult, ok, failed
<1>3. ~bad => /\ res.diagnostics # "error"
              /\ res.diagnostics = "none" /\ ~IsOk(res) => r.blocked # 0 \/ r.errors # 0
  BY DEF NeedsSynthetic
<1> HIDE DEF bad, first, second
<1>4. /\ first.status = r.status
      /\ first.blocked >= r.blocked /\ first.errors >= r.errors
      /\ res.diagnostics = "error" => first.blocked > 0
      /\ res.diagnostics = "none" /\ ~IsOk(res) => first.blocked > 0 \/ (first = r /\ r.errors > 0)
  <2>1. CASE bad
    BY <1>1, <1>2, <2>1
  <2>2. CASE ~bad
    BY <1>1, <1>2, <1>3, <2>2
  <2> QED
    BY <2>1, <2>2
<1>5. second.status = r.status /\ second.blocked = r.blocked /\ second.errors = r.errors
  BY <1>1, <1>2
<1> QED
  BY <1>4, <1>5 DEF first, second

\* Every result there is says whether it comes with diagnostics.
ResultKnown == result = NoResult \/ result.diagnostics \in {"none", "error"}

LEMMA KnownStep == TypeOK /\ ResultInv /\ ResultKnown /\ [Next]_vars => ResultKnown'
<1> SUFFICES ASSUME TypeOK, ResultInv, ResultKnown, [Next]_vars PROVE ResultKnown'
  OBVIOUS
<1>1. /\ \A codes : Result(codes).diagnostics = "none"
      /\ \A code : Diagnosed(code).diagnostics = "error"
  BY DEF Result, Diagnosed
<1>2. ASSUME Raised PROVE ResultKnown'
  BY <1>1, <1>2 DEF Raised, Settle, ResultKnown
<1>3. CASE \/ Bootstrap \/ InitResource \/ InitDone \/ OpenVault \/ ReportRow \/ ReportExpired
           \/ PlanRow \/ PlanBuilt \/ WritePlan \/ ApplyItem \/ ApplyToReport \/ RestoreStreams
           \/ ShutdownContainer \/ Finalize \/ RecordLedger \/ CloseObservability
           \/ ClearContext \/ ExitProcess \/ Interrupt
  <2>1. result' = result
    BY <1>3 DEF Bootstrap, InitResource, InitDone, OpenVault, ReportRow, ReportExpired,
                PlanRow, PlanBuilt, WritePlan, ApplyItem, ApplyToReport, RestoreStreams,
                ShutdownContainer, Finalize, RecordLedger, CloseObservability, ClearContext,
                ExitProcess, Interrupt
  <2> QED
    BY <2>1 DEF ResultKnown
<1>4. CASE BootstrapFails \/ Validate \/ InitFails \/ TopologyStep
  BY <1>1, <1>2, <1>4 DEF BootstrapFails, Validate, InitFails, TopologyStep, Settle, ResultKnown
<1>5. CASE StageDone \/ PlanDone \/ ApplyDone \/ PlainDone \/ HandlerFails \/ HandlerRaises
  BY <1>1, <1>2, <1>5
     DEF StageDone, PlanDone, ApplyDone, PlainDone, HandlerFails, HandlerRaises, Settle, ResultKnown
<1>6. CASE ShutdownDone \/ FinalizeFails
  BY <1>1, <1>6 DEF ShutdownDone, FinalizeFails, Absorb, ResultKnown
<1>7. CASE UNCHANGED vars
  BY <1>7 DEF vars, ResultKnown
<1> QED
  BY <1>3, <1>4, <1>5, <1>6, <1>7 DEF Next, Step

LEMMA FailureInit == Init => FailureInv
  BY DEF Init, NewReport, FailureInv, Unsettled, BodyPhases

\* A step that only moves the body on, or settles a result of a kind, keeps what
\* the report says.
LEMMA BodyMoves ==
  ASSUME FailureInv, phase \in Unsettled,
         UNCHANGED <<cmd, run, rep, disk>>,
         \/ phase' \in Unsettled \ {"planned"} /\ phase # "planned"
         \/ phase' = "apply"
  PROVE  FailureInv'
<1>1. rep'.status = "unset"
  BY DEF FailureInv
<1> QED
  BY <1>1 DEF FailureInv, Unsettled, BodyPhases

LEMMA FailureStep ==
  TypeOK /\ ResultInv /\ ResultKnown /\ FailureInv /\ [Next]_vars => FailureInv'
<1> SUFFICES ASSUME TypeOK, ResultInv, ResultKnown, FailureInv, [Next]_vars PROVE FailureInv'
  OBVIOUS
<1> USE DEF BodyPhases, Unsettled
<1>a. rep \in ReportSpace /\ run \in RunSpace /\ disk \in DiskSpace /\ cmd \in CommandTable
  BY DEF TypeOK, ReportSpace, RunSpace, DiskSpace
<1>b. ASSUME Raised PROVE phase' = "apply"
  BY <1>b DEF Raised, Settle
<1>1. CASE \/ Bootstrap \/ BootstrapFails \/ Validate \/ InitResource \/ InitFails \/ InitDone
           \/ TopologyStep \/ OpenVault
  <2>1. /\ phase \in {"boot", "validate", "init", "topology", "handler"}
        /\ phase' \in {"boot", "validate", "init", "topology", "handler", "apply"}
        /\ UNCHANGED <<cmd, run, rep, disk>>
    BY <1>1, <1>b DEF Bootstrap, BootstrapFails, Validate, InitResource, InitFails, InitDone,
                      TopologyStep, OpenVault, Settle
  <2> QED
    BY <2>1, BodyMoves
<1>2. CASE StageDone \/ PlanDone \/ PlainDone \/ HandlerFails \/ HandlerRaises
  <2>1. /\ phase \in {"handler", "planned"} /\ phase' = "apply"
        /\ UNCHANGED <<cmd, run, rep, disk>>
    BY <1>2, <1>b DEF StageDone, PlanDone, PlainDone, HandlerFails, HandlerRaises, Settle
  <2> QED
    BY <2>1, BodyMoves
<1>3. CASE ReportRow
  <2>1. /\ phase = "handler" /\ phase' = "handler" /\ cmd.feeds = "rows"
        /\ UNCHANGED <<cmd, disk>>
    BY <1>3 DEF ReportRow
  <2>2. \/ rep' = AddItem(rep, "OK", 0, FALSE)
        \/ \E errors \in 0 .. 1 : rep' = AddItem(rep, "FAILED", errors, FALSE)
    BY <1>3 DEF ReportRow
  <2>3. /\ rep'.status = rep.status
        /\ rep'.errors > 0 => rep'.blocked > 0 \/ (rep.errors > 0 /\ rep'.blocked = rep.blocked)
    <3>1. CASE rep' = AddItem(rep, "OK", 0, FALSE)
      BY <1>a, <3>1, ItemAdded DEF ReportSpace
    <3>2. CASE \E errors \in 0 .. 1 : rep' = AddItem(rep, "FAILED", errors, FALSE)
      <4>1. PICK errors \in 0 .. 1 : rep' = AddItem(rep, "FAILED", errors, FALSE)
        BY <3>2
      <4>2. errors \in Nat /\ rep.blocked \in Nat
        BY <1>a DEF ReportSpace
      <4>3. rep'.blocked = rep.blocked + 1 /\ rep'.status = rep.status
        BY <1>a, <4>1, <4>2, ItemAdded
      <4> QED
        BY <4>2, <4>3
    <3> QED
      BY <2>2, <3>1, <3>2
  <2> QED
    BY <2>1, <2>3 DEF FailureInv
<1>4. CASE ReportExpired
  <2>1. /\ phase = "handler" /\ phase' = "handler" /\ cmd.feeds = "rows"
        /\ UNCHANGED <<cmd, disk>>
        /\ rep' = AddItem(rep, "FAILED", 1, FALSE)
    BY <1>4, <1>a, ResolveFeedsRows DEF ReportExpired
  <2>2. rep'.status = rep.status /\ rep'.blocked > 0
    <3>1. rep.blocked \in Nat /\ 1 \in Nat
      BY <1>a DEF ReportSpace
    <3>2. rep'.blocked = rep.blocked + 1 /\ rep'.status = rep.status
      BY <1>a, <2>1, <3>1, ItemAdded
    <3> QED
      BY <3>1, <3>2
  <2> QED
    BY <2>1, <2>2 DEF FailureInv
<1>5. CASE PlanRow
  <2>1. /\ phase = "handler" /\ phase' = "handler" /\ cmd.feeds = "plan"
        /\ UNCHANGED <<cmd, disk>>
    BY <1>5 DEF PlanRow
  <2>2. /\ rep'.status = rep.status
        /\ rep'.errors > 0 => rep.errors > 0 \/ run'.failed > 0
        /\ run.failed > 0 => run'.failed > 0
    <3>1. run.failed \in Nat /\ rep.errors \in Nat
      BY <1>a DEF RunSpace, ReportSpace
    <3>2. CASE run' = [run EXCEPT !.rows = @ + 1, !.passed = @ + 1] /\ UNCHANGED rep
      BY <1>a, <3>2 DEF RunSpace
    <3>3. CASE run' = [run EXCEPT !.rows = @ + 1] /\ rep' = AddItem(rep, "SKIPPED", 0, TRUE)
      BY <1>a, <3>1, <3>3, ItemAdded DEF RunSpace
    <3>4. CASE /\ run' = [run EXCEPT !.rows = @ + 1, !.failed = @ + 1]
               /\ \E errors \in 0 .. 1 : rep' = AddItem(rep, "FAILED", errors, TRUE)
      <4>1. PICK errors \in 0 .. 1 : rep' = AddItem(rep, "FAILED", errors, TRUE)
        BY <3>4
      <4>2. run'.failed = run.failed + 1
        BY <1>a, <3>4 DEF RunSpace
      <4>3. errors \in Nat
        OBVIOUS
      <4>4. rep'.status = rep.status
        BY <1>a, <4>1, <4>3, ItemAdded
      <4> QED
        BY <3>1, <4>2, <4>4
    <3> QED
      BY <1>5, <3>2, <3>3, <3>4 DEF PlanRow
  <2> QED
    BY <2>1, <2>2 DEF FailureInv
<1>6. CASE PlanBuilt
  <2>1. /\ phase = "handler" /\ phase' = "planned" /\ cmd.feeds = "plan"
        /\ UNCHANGED <<cmd, run, disk>>
        /\ rep'.blocked = run.failed /\ rep'.errors = rep.errors /\ rep'.status = rep.status
    BY <1>6, <1>a DEF PlanBuilt, SetCounters, ReportSpace
  <2> QED
    BY <2>1 DEF FailureInv
<1>7. CASE WritePlan
  <2>1. /\ phase = "planned" /\ phase' = "planned" /\ disk'.report = disk.report
        /\ UNCHANGED <<cmd, run, rep>>
    BY <1>7, <1>a DEF WritePlan, DiskSpace
  <2> QED
    BY <2>1 DEF FailureInv
<1>8. CASE ApplyItem
  <2>1. /\ phase = "handler" /\ phase' = "handler" /\ cmd.feeds = "apply"
        /\ UNCHANGED <<cmd, rep, disk>>
    BY <1>8 DEF ApplyItem
  <2>2. run'.failed = 0 => run.failed = 0 /\ run'.codes = run.codes
    <3>1. run.failed \in Nat
      BY <1>a DEF RunSpace
    <3>2. CASE run' = [run EXCEPT !.rows = @ + 1, !.passed = @ + 1]
      BY <1>a, <3>2 DEF RunSpace
    <3>3. CASE run' # [run EXCEPT !.rows = @ + 1, !.passed = @ + 1]
      <4>1. PICK code : run' = [run EXCEPT !.rows = @ + 1, !.failed = @ + 1, !.codes = @ \cup {code}]
        BY <1>8, <3>3 DEF ApplyItem
      <4>2. run'.failed = run.failed + 1
        BY <1>a, <4>1 DEF RunSpace
      <4> QED
        BY <3>1, <4>2
    <3> QED
      BY <3>2, <3>3
  <2> QED
    BY <2>1, <2>2 DEF FailureInv
<1>9. CASE ApplyDone
  <2>1. /\ phase = "handler" /\ phase' = "apply" /\ cmd.feeds = "apply"
        /\ UNCHANGED <<cmd, run, disk>>
        /\ rep' = PresentApply(rep, run.passed, run.failed)
        /\ result' = Result(IF run.codes = {} THEN {"OK"} ELSE run.codes)
    BY <1>9 DEF ApplyDone, Settle
  <2>2. /\ rep'.blocked = run.failed /\ rep'.errors = run.failed
        /\ rep'.status = "SUCCESS" => run.failed = 0
    <3> DEFINE counted == [rep EXCEPT !.passed = run.passed, !.blocked = run.failed]
    <3>1. counted.blocked = run.failed
      BY <1>a DEF ReportSpace
    <3>2. DeriveStatus(counted) = "SUCCESS" => counted.blocked = 0
      BY Zenon DEF DeriveStatus
    <3>3. /\ rep'.blocked = run.failed /\ rep'.errors = run.failed
          /\ rep'.status = DeriveStatus(counted)
      BY <1>a, <2>1 DEF PresentApply, ReportSpace
    <3> QED
      BY <3>1, <3>2, <3>3
  <2>3. rep'.status = "SUCCESS" => IsOk(result')
    BY <2>1, <2>2 DEF FailureInv, IsOk, Result
  <2> QED
    BY <2>1, <2>2, <2>3 DEF FailureInv
<1>10. CASE ApplyToReport
  <2>1. /\ phase = "apply" /\ phase' = "restore" /\ UNCHANGED <<cmd, result, disk, interrupts>>
        /\ rep' = IF Reported(cmd) THEN ApplyResult(rep, result, FALSE) ELSE rep
    BY <1>10 DEF ApplyToReport
  <2>2. ASSUME interrupts = 0, Reported(cmd), ~IsOk(result)
        PROVE  FailureShown'
    <3>1. result.diagnostics \in {"none", "error"}
      BY <2>1, <2>2 DEF ResultInv, ResultKnown
    <3>2. /\ rep'.status = rep.status /\ rep'.blocked >= rep.blocked /\ rep'.errors >= rep.errors
          /\ rep'.blocked > 0 \/ (rep' = rep /\ rep.errors > 0)
      BY <1>a, <2>1, <2>2, <3>1, ResultShows
    <3>3. rep.status # "SUCCESS"
      BY <2>1, <2>2 DEF FailureInv
    <3>4. rep'.blocked > 0 \/ (cmd.feeds = "plan" /\ ~disk.plan /\ rep'.errors > 0)
      BY <2>1, <3>2 DEF FailureInv
    <3> QED
      BY <2>1, <3>2, <3>3, <3>4 DEF FailureShown
  <2>3. disk.report = "absent"
    BY <2>1 DEF FailureInv
  <2> QED
    BY <2>1, <2>2, <2>3 DEF FailureInv
<1>11. CASE RestoreStreams \/ ShutdownContainer
  <2>1. /\ phase \in {"restore", "shutdown"} /\ phase' = "shutdown"
        /\ UNCHANGED <<cmd, result, rep, disk, interrupts>>
    BY <1>11 DEF RestoreStreams, ShutdownContainer
  <2> QED
    BY <2>1 DEF FailureInv, FailureShown
<1>c. ASSUME NEW q \in ReportSpace, q.blocked = rep.blocked, q.errors = rep.errors,
             q.status = "SUCCESS" => rep.status = "SUCCESS" \/ rep.blocked = 0,
             rep' = ApplyResult(q, Result({"INTERNAL_ERROR"}), TRUE) \/ rep' = q,
             phase \notin BodyPhases, interrupts = 0, Reported(cmd), ~IsOk(result),
             cmd' = cmd, disk'.plan = disk.plan
      PROVE  FailureShown'
  <2>1. rep'.blocked = rep.blocked /\ rep'.errors = rep.errors /\ rep'.status = q.status
    <3> DEFINE second == ApplyResult(q, Result({"INTERNAL_ERROR"}), TRUE)
    <3>1. second.status = q.status /\ second.blocked = q.blocked /\ second.errors = q.errors
      BY <1>c, ResultShows, Zenon
    <3>2. rep' = second \/ rep' = q
      BY <1>c
    <3> HIDE DEF second
    <3> QED
      BY <1>c, <3>1, <3>2
  <2>2. FailureShown
    BY <1>c DEF FailureInv
  <2> QED
    BY <1>a, <1>c, <2>1, <2>2 DEF FailureShown, ReportSpace
<1>12. CASE ShutdownDone
  <2>1. /\ phase = "shutdown" /\ phase' = (IF Reported(cmd) THEN "finalize" ELSE "ledger")
        /\ UNCHANGED <<cmd, disk, interrupts>>
    BY <1>12 DEF ShutdownDone
  <2>2. disk.report = "absent"
    BY <2>1 DEF FailureInv
  <2>3. ASSUME interrupts = 0, Reported(cmd), ~IsOk(result') PROVE FailureShown'
    <3>1. result # NoResult
      BY <2>1, <2>3 DEF ResultInv
    <3>2. /\ result' = result
          /\ rep' = ApplyResult(rep, Result({"INTERNAL_ERROR"}), TRUE) \/ rep' = rep
      <4>1. CASE broken = {}
        BY <1>12, <4>1 DEF ShutdownDone
      <4>2. CASE broken # {}
        <5>1. Absorb(Result({"INTERNAL_ERROR"}))
          BY <1>12, <4>2 DEF ShutdownDone
        <5>2. (result # NoResult) = TRUE
          BY <3>1
        <5> QED
          BY <2>3, <3>1, <5>1, <5>2, Zenon DEF Absorb
      <4> QED
        BY <4>1, <4>2
    <3> QED
      BY <1>a, <1>c, <2>1, <2>3, <3>2
  <2> QED
    BY <2>1, <2>2, <2>3 DEF FailureInv
<1>d. /\ Finish(rep) \in ReportSpace
      /\ Finish(rep).blocked = rep.blocked /\ Finish(rep).errors = rep.errors
      /\ Finish(rep).status = Status(rep)
      /\ Status(rep) = "SUCCESS" => rep.status = "SUCCESS" \/ rep.blocked = 0
      /\ Status(rep) \in {"SUCCESS", "PARTIAL", "FAILED"}
  <2>1. Status(rep) = "SUCCESS" => rep.status = "SUCCESS" \/ rep.blocked = 0
    <3>1. DeriveStatus(rep) = "SUCCESS" => rep.blocked = 0
      BY Zenon DEF DeriveStatus
    <3> QED
      BY <3>1 DEF Status
  <2>2. Finish(rep) \in ReportSpace /\ Status(rep) \in {"SUCCESS", "PARTIAL", "FAILED"}
    BY <1>a, ReportTyped
  <2> QED
    BY <1>a, <2>1, <2>2 DEF Finish, ReportSpace
<1>13. CASE Finalize
  <2>1. /\ phase = "finalize" /\ phase' = "ledger" /\ UNCHANGED <<cmd, result, interrupts>>
        /\ rep' = Finish(rep)
        /\ disk'.report = Status(rep) /\ disk'.plan = disk.plan
    BY <1>13, <1>a DEF Finalize, DiskSpace
  <2>2. ASSUME interrupts = 0, Reported(cmd), ~IsOk(result) PROVE FailureShown'
    BY <1>c, <1>d, <2>1, <2>2
  <2>3. Reported(cmd)
    BY <2>1 DEF FailureInv
  <2> QED
    BY <1>d, <2>1, <2>2, <2>3 DEF FailureInv, Reported
<1>14. CASE FinalizeFails
  <2>1. /\ phase = "finalize" /\ phase' = "ledger" /\ UNCHANGED <<cmd, disk, interrupts>>
    BY <1>14 DEF FinalizeFails
  <2>2. disk.report = "absent"
    BY <2>1 DEF FailureInv
  <2>3. ASSUME interrupts = 0, Reported(cmd), ~IsOk(result') PROVE FailureShown'
    <3>1. result # NoResult /\ (result # NoResult) = TRUE
      BY <2>1, <2>3 DEF ResultInv
    <3>2. result' = result
      BY <1>14, <3>1 DEF FinalizeFails
    <3>3. PICK finished \in BOOLEAN :
            rep' = ApplyResult(IF finished THEN Finish(rep) ELSE rep, Result({"INTERNAL_ERROR"}),
                               TRUE)
      BY <1>14, <3>1, Zenon DEF FinalizeFails
    <3>4. CASE finished
      BY <1>c, <1>d, <2>1, <2>3, <3>2, <3>3, <3>4
    <3>5. CASE ~finished
      BY <1>a, <1>c, <2>1, <2>3, <3>2, <3>3, <3>5
    <3> QED
      BY <3>4, <3>5
  <2> QED
    BY <2>1, <2>2, <2>3 DEF FailureInv
<1>15. CASE RecordLedger \/ CloseObservability \/ ClearContext \/ ExitProcess
  <2>1. /\ phase \in {"ledger", "close", "clear", "exit"}
        /\ phase' \in {"close", "clear", "exit", "done"}
        /\ UNCHANGED <<cmd, result, rep, interrupts>>
        /\ disk'.report = disk.report /\ disk'.plan = disk.plan
    BY <1>15, <1>a DEF RecordLedger, CloseObservability, ClearContext, ExitProcess, DiskSpace
  <2> QED
    BY <2>1 DEF FailureInv, FailureShown
<1>16. CASE Interrupt
  <2>1. /\ interrupts' # 0 /\ UNCHANGED <<cmd, result, rep, disk, run>>
        /\ \/ phase \in BodyPhases /\ phase' = "restore"
           \/ phase \in FinallyPhases /\ phase' = "close"
           \/ phase \in ClosingPhases /\ phase' = "exit"
    BY <1>16 DEF Interrupt, TypeOK
  <2> QED
    BY <2>1 DEF FailureInv, FinallyPhases, ClosingPhases
<1>17. CASE UNCHANGED vars
  BY <1>17 DEF vars, FailureInv, FailureShown
<1> QED
  BY <1>1, <1>2, <1>3, <1>4, <1>5, <1>6, <1>7, <1>8, <1>9, <1>10, <1>11, <1>12, <1>13, <1>14,
     <1>15, <1>16, <1>17 DEF Next, Step

\* A run that exits with a failure and writes a report writes one that shows it,
\* but for a planner that broke off after rows of its own had failed
\* (result_mapper.py, apply_runtime_result_to_report).
THEOREM FailureReachesReportCorrect == Spec => []FailureReachesReport
<1>1. TypeOK /\ ResultInv /\ FailureInv => FailureReachesReport
  <2> SUFFICES ASSUME TypeOK, ResultInv, FailureInv, phase = "done", interrupts = 0, exit # "0",
                      disk.report = "SUCCESS"
               PROVE  cmd.feeds = "plan" /\ ~disk.plan /\ rep.errors > 0
    BY DEF FailureReachesReport
  <2>1. ~IsOk(result)
    BY OkExits DEF ResultInv
  <2>2. Reported(cmd) /\ rep.status = "SUCCESS"
    BY DEF FailureInv
  <2>3. FailureShown
    BY <2>1, <2>2 DEF FailureInv, BodyPhases
  <2> QED
    BY <2>2, <2>3 DEF FailureShown
<1>2. Init => ResultKnown
  BY DEF Init, ResultKnown
<1> QED
  BY <1>1, <1>2, TypeInit, TypeStep, ResultInit, ResultStep, KnownStep, FailureInit, FailureStep,
     PTL DEF Spec

-----------------------------------------------------------------------------
(* What the commands of a component leave on disk: the theorems about      *)
(* RunArtifacts                                                            *)

\* Days follow one another as seconds do.
LEMMA DaysGrow ==
  /\ \A s, t \in Nat : s <= t => DayOf(s) <= DayOf(t)
  /\ \A t \in Nat : DayOf(t) \in Nat
  /\ \A t \in Ticks : t \in Nat /\ DayOf(t) \in Nat
<1>1. DayLength \in Nat \ {0} /\ LastTick \in Nat
  BY ArtifactsAssumption
<1>2. ASSUME NEW s \in Nat, NEW t \in Nat, s <= t
      PROVE  s \div DayLength <= t \div DayLength
  BY <1>1, <1>2
<1>3. \A t \in Nat : t \div DayLength \in Nat
  BY <1>1
<1>4. \A t \in Ticks : t \in Nat /\ DayOf(t) \in Nat
  BY <1>1, <1>3 DEF DayOf, Ticks
<1> QED
  BY <1>2, <1>3, <1>4 DEF DayOf

Memories ==
    [run : 0 .. MaxRuns, now : 0 .. LastTick, at : 0 .. LastTick, victims : SUBSET Ticks,
     read : Seq(Contents), handle : {"none", "temp", "ledger", "gone"}]

Pointers == [kind : {"absent", "link", "copy"}, at : 0 .. LastTick, copy : Contents]
Temps == [exists : BOOLEAN, lines : Seq(Contents)]

\* DiskTypeOK, with the types of the records as wholes.
ArtifactTypes ==
    /\ clock \in Ticks
    /\ reports \in [Ticks -> Contents]
    /\ pointer \in Pointers
    /\ ledger \in Seq(Contents)
    /\ temp \in Temps
    /\ markers \in [{"reports", "ledger"} -> Nat]
    /\ pc \in [Processes -> Labels]
    /\ my \in [Processes -> Memories]
    /\ runs \in 0 .. MaxRuns /\ crashes \in 0 .. MaxCrashes

\* What a process remembers is no later than the clock, and a report has a run and,
\* once it is finished, a second.
Remembers(p) ==
    /\ my[p].now <= clock
    /\ \A t \in my[p].victims : Old(t, my[p].now)
    /\ pc[p] # "idle" => my[p].run # 0
    /\ pc[p] \in {"render", "check", "unlink", "link"} => my[p].at \in Ticks

MemoryInv == \A p \in Processes : Remembers(p)

\* No report that can exist is old enough to be swept.
NoneOld == \A t \in DayLength .. clock : ~Old(t, clock)

\* As long as that is so, a process that publishes finds the report it has rendered.
PublishersHaveReports ==
    NoneOld => \A p \in Processes :
                  pc[p] \in {"check", "unlink", "link"} => reports[my[p].at] # None

-----------------------------------------------------------------------------
(* The lines a prune keeps *)

\* A set of numbers that has 0 and every successor has all of them.
LEMMA AllNumbers ==
  ASSUME NEW P \in SUBSET Nat, 0 \in P, \A k \in P : k + 1 \in P
  PROVE  P = Nat
<1>1. SUFFICES ASSUME Nat \ P # {} PROVE FALSE
  OBVIOUS
<1>2. PICK k \in Nat \ P : \A j \in Nat \ P : ~ (<<j, k>> \in OpToRel(<, Nat))
  BY <1>1, WFMin, NatLessThanWellFounded
<1>3. k - 1 \in Nat /\ k - 1 < k
  OBVIOUS
<1>4. <<k - 1, k>> \in OpToRel(<, Nat)
  BY <1>3 DEF OpToRel
<1>5. k - 1 \in P
  BY <1>2, <1>3, <1>4
<1>6. QED BY <1>3, <1>5

\* JsonlRunLedger.prune keeps every line that is young enough, and no line it has
\* not read.
LEMMA PruneKeeps ==
  ASSUME NEW S, NEW p, my[p].read \in Seq(S)
  PROVE  /\ KeptLines(p) \in Seq(S)
         /\ \A i \in 1 .. Len(my[p].read) :
               Keeps(my[p].read[i], my[p].now)
                  => \E j \in 1 .. Len(KeptLines(p)) : KeptLines(p)[j] = my[p].read[i]
<1> DEFINE lines == my[p].read
           N == Len(lines)
           next(s, k) == IF Keeps(lines[k], my[p].now) THEN Append(s, lines[k]) ELSE s
           IsDone(f, m) == f = [k \in 0 .. m |-> IF k = 0 THEN << >> ELSE next(f[k - 1], k)]
           Good(s, m) == /\ s \in Seq(S)
                         /\ \A i \in 1 .. m :
                               Keeps(lines[i], my[p].now)
                                  => \E j \in 1 .. Len(s) : s[j] = lines[i]
<1>1. N \in Nat /\ \A k \in 1 .. N : lines[k] \in S
  OBVIOUS
<1>2. \E f : IsDone(f, N) /\ KeptLines(p) = f[N]
  <2> DEFINE done[k \in 0 .. N] == IF k = 0 THEN << >> ELSE next(done[k - 1], k)
  <2>1. KeptLines(p) = done[N]
    BY DEF KeptLines
  <2> HIDE DEF next, N
  <2>2. \A m \in Nat : \E f : IsDone(f, m)
    <3> DEFINE P == {m \in Nat : \E f : IsDone(f, m)}
    <3>1. 0 \in P
      <4>1. IsDone([k \in 0 .. 0 |-> << >>], 0)
        OBVIOUS
      <4> QED
        BY <4>1
    <3>2. ASSUME NEW m \in P PROVE m + 1 \in P
      <4>1. PICK f : IsDone(f, m)
        OBVIOUS
      <4> DEFINE g == [k \in 0 .. m + 1 |-> IF k <= m THEN f[k] ELSE next(f[m], m + 1)]
      <4>2. ASSUME NEW k \in 0 .. m + 1
            PROVE  g[k] = IF k = 0 THEN << >> ELSE next(g[k - 1], k)
        <5>1. CASE k <= m
          BY <4>1, <5>1
        <5>2. CASE k = m + 1
          BY <5>2
        <5> QED
          BY <5>1, <5>2
      <4>3. IsDone(g, m + 1)
        BY <4>2, SMTT(60)
      <4>4. m + 1 \in Nat
        OBVIOUS
      <4> HIDE DEF g, IsDone
      <4> QED
        BY <4>3, <4>4
    <3>3. P \in SUBSET Nat
      OBVIOUS
    <3> HIDE DEF P
    <3>4. P = Nat
      BY <3>1, <3>2, <3>3, AllNumbers
    <3> QED
      BY <3>4 DEF P
  <2>3. IsDone(done, N)
    BY <1>1, <2>2
  <2> HIDE DEF done, IsDone
  <2> QED
    BY <2>1, <2>3
<1>3. PICK f : IsDone(f, N) /\ KeptLines(p) = f[N]
  BY <1>2
<1> HIDE DEF lines, N
<1> DEFINE P == {k \in Nat : k <= N => Good(f[k], k)}
<1>4. 0 \in P
  BY <1>1, <1>3
<1>5. ASSUME NEW k \in P PROVE k + 1 \in P
  <2>1. SUFFICES ASSUME k + 1 <= N PROVE Good(f[k + 1], k + 1)
    OBVIOUS
  <2>2. k \in Nat /\ (k <= N => Good(f[k], k))
    OBVIOUS
  <2>3. k + 1 \in 0 .. N /\ k <= N /\ k + 1 # 0 /\ (k + 1) - 1 = k /\ k + 1 \in 1 .. N
    BY <1>1, <2>1, <2>2
  <2>4. f[k + 1] = next(f[k], k + 1)
    <3> HIDE DEF Good, next
    <3>1. f[k + 1] = next(f[(k + 1) - 1], k + 1)
      BY <1>3, <2>3
    <3> QED
      BY <2>3, <3>1
  <2> DEFINE s == f[k]
             t == f[k + 1]
  <2>5. /\ s \in Seq(S)
        /\ \A i \in 1 .. k :
              Keeps(lines[i], my[p].now) => \E j \in 1 .. Len(s) : s[j] = lines[i]
    BY <2>2, <2>3
  <2>6. t = IF Keeps(lines[k + 1], my[p].now) THEN Append(s, lines[k + 1]) ELSE s
    BY <2>4
  <2> HIDE DEF s, t
  <2>7. CASE ~Keeps(lines[k + 1], my[p].now)
    <3>1. t = s /\ \A i \in 1 .. k + 1 : Keeps(lines[i], my[p].now) => i \in 1 .. k
      BY <2>2, <2>6, <2>7
    <3> QED
      BY <2>5, <3>1 DEF t
  <2>8. CASE Keeps(lines[k + 1], my[p].now)
    <3>1. lines[k + 1] \in S /\ t = Append(s, lines[k + 1])
      BY <1>1, <2>3, <2>6, <2>8
    <3>2. /\ t \in Seq(S) /\ Len(s) \in Nat /\ Len(t) = Len(s) + 1
          /\ \A j \in 1 .. Len(s) : t[j] = s[j]
          /\ t[Len(s) + 1] = lines[k + 1]
      BY <2>5, <3>1
    <3>3. ASSUME NEW i \in 1 .. k + 1, Keeps(lines[i], my[p].now)
          PROVE  \E j \in 1 .. Len(t) : t[j] = lines[i]
      <4>1. CASE i \in 1 .. k
        BY <2>5, <3>2, <3>3, <4>1
      <4>2. CASE i = k + 1
        BY <3>2, <4>2
      <4> QED
        BY <2>2, <4>1, <4>2
    <3> QED
      BY <3>2, <3>3 DEF t
  <2> QED
    BY <2>7, <2>8
<1>6. P \in SUBSET Nat
  OBVIOUS
<1> HIDE DEF P
<1>7. P = Nat
  BY <1>4, <1>5, <1>6, AllNumbers
<1>8. Good(f[N], N)
  BY <1>1, <1>7 DEF P
<1> QED
  BY <1>3, <1>8 DEF lines, N

-----------------------------------------------------------------------------
(* Types *)

LEMMA RecordsTyped ==
  /\ None \in Contents /\ Idle \in Memories /\ Absent \in Pointers
  /\ NoFile \in Temps
  /\ \A t \in Ticks : t \in 0 .. LastTick /\ LinkTo(t) \in Pointers
  /\ \A r \in Contents : CopyOf(r) \in Pointers
  /\ \A lines \in Seq(Contents) : File(lines) \in Temps
<1>1. DayLength \in Nat /\ LastTick \in Nat /\ MaxRuns \in Nat
  BY ArtifactsAssumption
<1>2. 0 \in 0 .. LastTick /\ 0 \in 0 .. MaxRuns /\ << >> \in Seq(Contents)
  BY <1>1
<1>3. None \in Contents /\ \A t \in Ticks : t \in 0 .. LastTick
  BY <1>1, <1>2 DEF None, Contents, Ticks
<1> QED
  BY <1>2, <1>3 DEF Idle, Memories, Absent, Pointers, NoFile, Temps, LinkTo,
     CopyOf, File

LEMMA TypesInit == ASSUME DiskInit PROVE ArtifactTypes
<1>1. DayLength \in Ticks /\ MaxRuns \in Nat /\ MaxCrashes \in Nat
  BY ArtifactsAssumption DEF Ticks
<1> QED
  BY <1>1, RecordsTyped DEF DiskInit, ArtifactTypes, Labels

\* What a process of a typed state remembers.
LEMMA MemoryTyped ==
  ASSUME ArtifactTypes, NEW p \in Processes
  PROVE  /\ my[p] \in Memories
         /\ my[p].run \in 0 .. MaxRuns /\ my[p].now \in 0 .. LastTick
         /\ my[p].at \in 0 .. LastTick
         /\ my[p].victims \in SUBSET Ticks /\ my[p].read \in Seq(Contents)
         /\ my[p].handle \in {"none", "temp", "ledger", "gone"}
         /\ Report(p) \in Contents
         /\ DayOf(my[p].now) \in Nat
         /\ KeptLines(p) \in Seq(Contents)
<1>1. my[p] \in Memories
  BY DEF ArtifactTypes
<1>2. /\ my[p].run \in 0 .. MaxRuns /\ my[p].now \in 0 .. LastTick /\ my[p].at \in 0 .. LastTick
      /\ my[p].victims \in SUBSET Ticks /\ my[p].read \in Seq(Contents)
      /\ my[p].handle \in {"none", "temp", "ledger", "gone"}
  BY <1>1 DEF Memories
<1>3. Report(p) \in Contents
  BY <1>2 DEF Report, Contents
<1>4. DayOf(my[p].now) \in Nat
  <2>1. my[p].now \in Nat
    BY <1>2, ArtifactsAssumption
  <2> QED
    BY <2>1, DaysGrow
<1> QED
  BY <1>1, <1>2, <1>3, <1>4, PruneKeeps

LEMMA StepTypes ==
  ASSUME ArtifactTypes, MemoryInv, NEW CONSTANT p \in Processes,
         DiskStep(p) \/ Crash(p)
  PROVE  ArtifactTypes'
<1>1. CASE Start(p)
  <2>1. runs + 1 \in 0 .. MaxRuns /\ clock \in 0 .. LastTick
    <3>1. runs \in 0 .. MaxRuns /\ runs < MaxRuns /\ MaxRuns \in Nat /\ clock \in Ticks
      BY <1>1, ArtifactsAssumption DEF Start, ArtifactTypes
    <3> QED
      BY <3>1, RecordsTyped
  <2>2. [Idle EXCEPT !.run = runs + 1] \in Memories
    BY <2>1, RecordsTyped DEF Memories
  <2> QED
    BY <1>1, <2>1, <2>2 DEF Start, ArtifactTypes, Goto, Labels
<1>2. CASE SweepLogs(p)
  BY <1>2 DEF SweepLogs, ArtifactTypes, Goto, Labels
<1>3. CASE ListReports(p)
  <2> DEFINE v == {t \in Ticks : reports[t] # None /\ Old(t, clock)}
  <2>1. v \in SUBSET Ticks /\ clock \in 0 .. LastTick
    BY RecordsTyped DEF ArtifactTypes
  <2> HIDE DEF v
  <2>2. [my[p] EXCEPT !.now = clock, !.victims = v] \in Memories
    BY <2>1, MemoryTyped DEF Memories
  <2>3. my' = [my EXCEPT ![p] = [my[p] EXCEPT !.now = clock, !.victims = v]] \/ my' = my
    BY <1>3 DEF ListReports, v
  <2>4. pc' \in [Processes -> Labels]
    BY <1>3 DEF ListReports, ArtifactTypes, Goto, Labels
  <2> QED
    BY <1>3, <2>2, <2>3, <2>4 DEF ListReports, ArtifactTypes
<1>4. CASE DeleteReport(p)
  <2>1. PICK t \in my[p].victims :
          /\ my' = [my EXCEPT ![p] = [my[p] EXCEPT !.victims = my[p].victims \ {t}]]
          /\ reports' = [reports EXCEPT ![t] = None] \/ reports' = reports
          /\ pc' = pc \/ pc' = [pc EXCEPT ![p] = "body"]
    BY <1>4 DEF DeleteReport, Goto
  <2>2. [my[p] EXCEPT !.victims = my[p].victims \ {t}] \in Memories
    BY MemoryTyped DEF Memories
  <2>3. pc' \in [Processes -> Labels] /\ reports' \in [Ticks -> Contents]
    <3>1. pc' \in [Processes -> Labels]
      BY <2>1 DEF ArtifactTypes, Labels
    <3>2. reports' \in [Ticks -> Contents]
      BY <2>1, RecordsTyped DEF ArtifactTypes
    <3> QED
      BY <3>1, <3>2
  <2>4. my' \in [Processes -> Memories]
    BY <2>1, <2>2 DEF ArtifactTypes
  <2> QED
    BY <1>4, <2>3, <2>4 DEF DeleteReport, ArtifactTypes
<1>5. CASE MarkReports(p)
  BY <1>5, MemoryTyped DEF MarkReports, ArtifactTypes, Goto, Labels
<1>6. CASE ReadLedger(p)
  <2>1. [my[p] EXCEPT !.now = clock, !.read = ledger] \in Memories
    BY MemoryTyped, RecordsTyped DEF Memories, ArtifactTypes
  <2>2. my' = [my EXCEPT ![p] = [my[p] EXCEPT !.now = clock, !.read = ledger]] \/ my' = my
    BY <1>6 DEF ReadLedger
  <2>3. pc' \in [Processes -> Labels]
    BY <1>6 DEF ReadLedger, ArtifactTypes, Goto, Labels
  <2> QED
    BY <1>6, <2>1, <2>2, <2>3 DEF ReadLedger, ArtifactTypes
<1>7. CASE Truncate(p)
  <2>1. [my[p] EXCEPT !.handle = "temp"] \in Memories
    BY MemoryTyped DEF Memories
  <2>2. << >> \in Seq(Contents)
    OBVIOUS
  <2> QED
    BY <1>7, <2>1, <2>2, RecordsTyped DEF Truncate, ArtifactTypes, Goto, Labels
<1>8. CASE WriteTemp(p)
  <2>1. ledger \in Seq(Contents) /\ KeptLines(p) \in Seq(Contents)
    BY MemoryTyped DEF ArtifactTypes
  <2>2. Over(KeptLines(p), ledger) \in Seq(Contents)
    BY <2>1 DEF Over
  <2> QED
    BY <1>8, <2>1, <2>2, RecordsTyped DEF WriteTemp, ArtifactTypes, Goto, Labels
<1>9. CASE Replace(p)
  <2>1. \A q \in Processes : [my[q] EXCEPT !.handle = Renamed(@)] \in Memories
    BY MemoryTyped DEF Memories, Renamed
  <2>2. temp.lines \in Seq(Contents)
    BY DEF ArtifactTypes, Temps
  <2>3. \/ my' = [q \in Processes |-> [my[q] EXCEPT !.handle = Renamed(@)]]
        \/ my' = my
    BY <1>9 DEF Replace
  <2>4. my' \in [Processes -> Memories]
    BY <2>1, <2>3 DEF ArtifactTypes
  <2>5. pc' \in [Processes -> Labels]
    BY <1>9 DEF Replace, ArtifactTypes, Goto, Labels
  <2> QED
    BY <1>9, <2>2, <2>4, <2>5, RecordsTyped DEF Replace, ArtifactTypes
<1>10. CASE MarkLedger(p)
  BY <1>10, MemoryTyped DEF MarkLedger, ArtifactTypes, Goto, Labels
<1>12. CASE FinishReport(p)
  <2>1. [my[p] EXCEPT !.at = clock] \in Memories
    BY MemoryTyped, RecordsTyped DEF Memories, ArtifactTypes
  <2> QED
    BY <1>12, <2>1 DEF FinishReport, ArtifactTypes, Goto, Labels
<1>13. CASE Render(p)
  BY <1>13, MemoryTyped DEF Render, ArtifactTypes, Goto, Labels
<1>14. CASE CheckPointer(p)
  <2>1. pc' = [pc EXCEPT ![p] = "append"] \/ pc' = [pc EXCEPT ![p] = "link"]
        \/ pc' = [pc EXCEPT ![p] = "unlink"]
    BY <1>14 DEF CheckPointer, Goto
  <2> QED
    BY <1>14, <2>1 DEF CheckPointer, ArtifactTypes, Labels
<1>15. CASE UnlinkPointer(p)
  BY <1>15, RecordsTyped DEF UnlinkPointer, ArtifactTypes, Goto, Labels
<1>16. CASE LinkPointer(p)
  <2>1. my[p].at \in 0 .. LastTick /\ LinkTo(my[p].at) \in Pointers
    BY MemoryTyped, RecordsTyped DEF LinkTo, Pointers
  <2> DEFINE source == reports[my[p].at]
  <2>2. \/ pointer' = LinkTo(my[p].at) /\ UNCHANGED reports
        \/ /\ source # None /\ UNCHANGED pointer
           /\ reports' = [reports EXCEPT ![pointer.at] = source]
        \/ source # None /\ pointer' = CopyOf(source) /\ UNCHANGED reports
        \/ UNCHANGED <<pointer, reports>>
    BY <1>16 DEF LinkPointer
  <2>3. my[p].at \in Ticks => source \in Contents
    BY DEF ArtifactTypes
  <2> HIDE DEF source
  <2>4. my[p].at \in Ticks
    BY <1>16 DEF LinkPointer, MemoryInv, Remembers
  <2>5. reports' \in [Ticks -> Contents] /\ pointer' \in Pointers
    BY <2>1, <2>2, <2>3, <2>4, RecordsTyped DEF ArtifactTypes
  <2>6. pc' \in [Processes -> Labels]
    BY <1>16 DEF LinkPointer, ArtifactTypes, Goto, Labels
  <2> QED
    BY <1>16, <2>5, <2>6 DEF LinkPointer, ArtifactTypes
<1>17. CASE AppendLedger(p)
  <2>1. Append(ledger, Report(p)) \in Seq(Contents)
    BY MemoryTyped DEF ArtifactTypes
  <2> QED
    BY <1>17, <2>1, RecordsTyped DEF AppendLedger, ArtifactTypes, Goto, Labels
<1>18. CASE Crash(p)
  <2>1. crashes + 1 \in 0 .. MaxCrashes
    BY <1>18, ArtifactsAssumption DEF Crash, ArtifactTypes
  <2> QED
    BY <1>18, <2>1, RecordsTyped DEF Crash, ArtifactTypes, Goto, Labels
<1> QED
  BY <1>1, <1>2, <1>3, <1>4, <1>5, <1>6, <1>7, <1>8, <1>9, <1>10, <1>12, <1>13, <1>14,
     <1>15, <1>16, <1>17, <1>18 DEF DiskStep

-----------------------------------------------------------------------------
(* What a process remembers *)

\* A report that is old stays so, and is of an earlier second.
LEMMA OldStays ==
  \A t, now, later \in Nat :
            Old(t, now) /\ now <= later => Old(t, later) /\ t < later
<1> SUFFICES ASSUME NEW t \in Nat, NEW now \in Nat, NEW later \in Nat, Old(t, now),
                    now <= later
             PROVE  Old(t, later) /\ t < later
  OBVIOUS
<1>1. /\ DayOf(t) \in Nat /\ DayOf(now) \in Nat /\ DayOf(later) \in Nat
      /\ DayOf(now) <= DayOf(later)
      /\ (later <= t => DayOf(later) <= DayOf(t))
  BY DaysGrow
<1>2. ReportRetention \in Nat /\ DayOf(t) + ReportRetention < DayOf(now)
  BY ArtifactsAssumption DEF Old, BeforeCutoff
<1> QED
  BY <1>1, <1>2 DEF Old, BeforeCutoff

\* A step of one process leaves the others where they are, and in what they
\* remember it changes no more than what their open file has become.
LEMMA OthersStay ==
  ASSUME ArtifactTypes, NEW CONSTANT p \in Processes, DiskStep(p) \/ Crash(p)
  PROVE  /\ clock' = clock
         /\ \A q \in Processes : q # p =>
               /\ pc'[q] = pc[q] /\ my'[q].run = my[q].run /\ my'[q].now = my[q].now
               /\ my'[q].at = my[q].at /\ my'[q].victims = my[q].victims
               /\ my'[q].read = my[q].read
<1>1. pc \in [Processes -> Labels] /\ my \in [Processes -> Memories]
  BY DEF ArtifactTypes
<1>2. CASE Start(p)
  BY <1>1, <1>2 DEF Start, Goto
<1>3. CASE SweepLogs(p)
  BY <1>1, <1>3 DEF SweepLogs, Goto
<1>4. CASE ListReports(p)
  BY <1>1, <1>4 DEF ListReports, Goto
<1>5. CASE DeleteReport(p)
  BY <1>1, <1>5 DEF DeleteReport, Goto
<1>6. CASE MarkReports(p)
  BY <1>1, <1>6 DEF MarkReports, Goto
<1>7. CASE ReadLedger(p)
  BY <1>1, <1>7 DEF ReadLedger, Goto
<1>8. CASE Truncate(p)
  BY <1>1, <1>8 DEF Truncate, Goto
<1>9. CASE WriteTemp(p)
  BY <1>1, <1>9 DEF WriteTemp, Goto
<1>10. CASE Replace(p)
  <2>1. \A q \in Processes : my[q] \in Memories
    BY <1>1
  <2>2. \/ my' = my
        \/ \A q \in Processes : my'[q] = [my[q] EXCEPT !.handle = Renamed(@)]
    BY <1>1, <1>10 DEF Replace
  <2>3. ASSUME NEW q \in Processes
        PROVE  /\ my'[q].run = my[q].run /\ my'[q].now = my[q].now /\ my'[q].at = my[q].at
               /\ my'[q].victims = my[q].victims /\ my'[q].read = my[q].read
    BY <2>1, <2>2 DEF Memories
  <2>4. clock' = clock /\ \A q \in Processes : q # p => pc'[q] = pc[q]
    BY <1>1, <1>10 DEF Replace, Goto
  <2> QED
    BY <2>3, <2>4
<1>11. CASE MarkLedger(p)
  BY <1>1, <1>11 DEF MarkLedger, Goto
<1>13. CASE FinishReport(p)
  BY <1>1, <1>13 DEF FinishReport, Goto
<1>14. CASE Render(p)
  BY <1>1, <1>14 DEF Render, Goto
<1>15. CASE CheckPointer(p)
  BY <1>1, <1>15 DEF CheckPointer, Goto
<1>16. CASE UnlinkPointer(p)
  BY <1>1, <1>16 DEF UnlinkPointer, Goto
<1>17. CASE LinkPointer(p)
  BY <1>1, <1>17 DEF LinkPointer, Goto
<1>18. CASE AppendLedger(p)
  BY <1>1, <1>18 DEF AppendLedger, Goto
<1>19. CASE Crash(p)
  BY <1>1, <1>19 DEF Crash, Goto
<1> QED
  BY <1>2, <1>3, <1>4, <1>5, <1>6, <1>7, <1>8, <1>9, <1>10, <1>11, <1>13, <1>14,
     <1>15, <1>16, <1>17, <1>18, <1>19 DEF DiskStep

\* A process has looked at the clock before, in a day that is today or gone by.
LEMMA MemoryNow ==
  ASSUME ArtifactTypes, MemoryInv, NEW p \in Processes
  PROVE  /\ my[p].now \in Nat /\ clock \in Nat /\ my[p].now <= clock
         /\ DayOf(my[p].now) \in Nat /\ Today \in Nat
         /\ DayOf(my[p].now) <= Today
<1>1. my[p].now \in 0 .. LastTick /\ LastTick \in Nat
  BY MemoryTyped, ArtifactsAssumption
<1>2. my[p].now \in Nat /\ clock \in Nat /\ my[p].now <= clock
  <2>1. clock \in Ticks /\ my[p].now <= clock
    BY DEF ArtifactTypes, MemoryInv, Remembers
  <2>2. clock \in Nat
    BY <2>1, DaysGrow
  <2> QED
    BY <1>1, <2>1, <2>2
<1> QED
  BY <1>2, DaysGrow DEF Today

LEMMA MemoryInit == ASSUME DiskInit PROVE MemoryInv
  BY ArtifactsAssumption DEF DiskInit, MemoryInv, Remembers, Idle

LEMMA MemoryStep ==
  ASSUME ArtifactTypes, MemoryInv, NEW CONSTANT p \in Processes,
         DiskStep(p) \/ Crash(p)
  PROVE  MemoryInv'
<1>1. /\ pc \in [Processes -> Labels] /\ my \in [Processes -> Memories]
      /\ clock \in Ticks
      /\ clock \in Nat /\ runs \in Nat
  <2>1. runs \in 0 .. MaxRuns /\ MaxRuns \in Nat
    BY ArtifactsAssumption DEF ArtifactTypes
  <2>2. clock \in Ticks
    BY DEF ArtifactTypes
  <2>3. clock \in Nat
    BY <2>2, DaysGrow
  <2> QED
    BY <2>1, <2>2, <2>3 DEF ArtifactTypes
<1>2. Remembers(p) /\ clock' = clock /\ my[p] \in Memories
  BY <1>1, OthersStay DEF MemoryInv, Remembers
<1>3. SUFFICES Remembers(p)'
  BY OthersStay DEF MemoryInv, Remembers
\* what the steps that change nothing of this do
<1>4. ASSUME my' = my, pc'[p] \in {"render", "check", "unlink", "link"} =>
                            pc[p] \in {"render", "check", "unlink", "link"}, pc[p] # "idle"
      PROVE  Remembers(p)'
  BY <1>2, <1>4 DEF Remembers
<1>5. CASE Start(p)
  <2>1. my'[p] = [Idle EXCEPT !.run = runs + 1] /\ pc'[p] = "logs"
    BY <1>1, <1>5 DEF Start, Goto
  <2>2. my'[p].run = runs + 1 /\ my'[p].now = 0 /\ my'[p].victims = {}
    BY <2>1 DEF Idle
  <2> QED
    BY <1>1, <1>2, <2>1, <2>2 DEF Remembers
<1>6. CASE SweepLogs(p)
  BY <1>1, <1>4, <1>6 DEF SweepLogs, Goto
<1>7. CASE ListReports(p)
  <2>1. CASE my' = my
    BY <1>1, <1>4, <1>7, <2>1 DEF ListReports, Goto
  <2>2. CASE my' # my
    <3> DEFINE v == {t \in Ticks : reports[t] # None /\ Old(t, clock)}
    <3>1. /\ my' = [my EXCEPT ![p] = [my[p] EXCEPT !.now = clock, !.victims = v]]
          /\ pc'[p] = "delete" /\ pc[p] = "reports"
      BY <1>1, <1>7, <2>2 DEF ListReports, Goto
    <3>2. \A t \in v : Old(t, clock)
      OBVIOUS
    <3> HIDE DEF v
    <3>3. my'[p] = [my[p] EXCEPT !.now = clock, !.victims = v]
      BY <1>1, <3>1
    <3>4. my'[p].now = clock /\ my'[p].victims = v /\ my'[p].run = my[p].run
      BY <1>2, <3>3 DEF Memories
    <3> QED
      BY <1>1, <1>2, <3>1, <3>2, <3>4 DEF Remembers
  <2> QED
    BY <2>1, <2>2
<1>8. CASE DeleteReport(p)
  <2>1. PICK t \in my[p].victims :
          /\ my' = [my EXCEPT ![p] = [my[p] EXCEPT !.victims = my[p].victims \ {t}]]
          /\ pc' = pc \/ pc' = [pc EXCEPT ![p] = "body"]
    BY <1>8 DEF DeleteReport, Goto
  <2>2. my'[p] = [my[p] EXCEPT !.victims = my[p].victims \ {t}]
    BY <1>1, <2>1
  <2>3. my'[p].now = my[p].now /\ my'[p].victims \subseteq my[p].victims /\ my'[p].run = my[p].run
    BY <1>2, <2>2 DEF Memories
  <2>4. pc[p] = "delete" /\ pc'[p] \in {"delete", "body"}
    BY <1>1, <1>8, <2>1 DEF DeleteReport
  <2> QED
    BY <1>2, <2>3, <2>4 DEF Remembers
<1>9. CASE MarkReports(p)
  BY <1>1, <1>4, <1>9 DEF MarkReports, Goto
<1>10. CASE ReadLedger(p)
  <2>1. my'[p] = [my[p] EXCEPT !.now = clock, !.read = ledger] \/ my'[p] = my[p]
    BY <1>1, <1>10 DEF ReadLedger
  <2>2. /\ my'[p].now \in {clock, my[p].now} /\ my'[p].victims = my[p].victims
        /\ my'[p].run = my[p].run
    BY <1>2, <2>1 DEF Memories
  <2>3. pc[p] = "ledger" /\ pc'[p] \in {"mark", "truncate", "body"}
    BY <1>1, <1>10 DEF ReadLedger, Goto
  <2>4. \A t \in my[p].victims : Old(t, my'[p].now)
    <3> SUFFICES ASSUME NEW t \in my[p].victims PROVE Old(t, my'[p].now)
      OBVIOUS
    <3>1. t \in Nat /\ my[p].now \in Nat /\ my[p].now <= clock /\ Old(t, my[p].now)
      BY <1>2, MemoryTyped, MemoryNow, DaysGrow DEF Remembers
    <3> QED
      BY <1>1, <2>2, <3>1, OldStays
  <2> QED
    BY <1>1, <1>2, <2>2, <2>3, <2>4 DEF Remembers
<1>11. CASE Truncate(p)
  <2>1. my'[p] = [my[p] EXCEPT !.handle = "temp"]
    BY <1>1, <1>11 DEF Truncate
  <2>2. my'[p].now = my[p].now /\ my'[p].victims = my[p].victims /\ my'[p].run = my[p].run
    BY <1>2, <2>1 DEF Memories
  <2>3. pc[p] = "truncate" /\ pc'[p] = "write"
    BY <1>1, <1>11 DEF Truncate, Goto
  <2> QED
    BY <1>2, <2>2, <2>3 DEF Remembers
<1>12. CASE WriteTemp(p)
  BY <1>1, <1>4, <1>12 DEF WriteTemp, Goto
<1>13. CASE Replace(p)
  <2>1. my'[p] = [my[p] EXCEPT !.handle = Renamed(@)] \/ my'[p] = my[p]
    BY <1>1, <1>13 DEF Replace
  <2>2. my'[p].now = my[p].now /\ my'[p].victims = my[p].victims /\ my'[p].run = my[p].run
    BY <1>2, <2>1 DEF Memories
  <2>3. pc[p] = "replace" /\ pc'[p] \in {"mark", "body"}
    BY <1>1, <1>13 DEF Replace, Goto
  <2> QED
    BY <1>2, <2>2, <2>3 DEF Remembers
<1>14. CASE MarkLedger(p)
  BY <1>1, <1>4, <1>14 DEF MarkLedger, Goto
<1>16. CASE FinishReport(p)
  <2>1. my'[p] = [my[p] EXCEPT !.at = clock]
    BY <1>1, <1>16 DEF FinishReport
  <2>2. /\ my'[p].now = my[p].now /\ my'[p].victims = my[p].victims /\ my'[p].run = my[p].run
        /\ my'[p].at = clock
    BY <1>2, <2>1 DEF Memories
  <2>3. pc[p] = "body" /\ pc'[p] = "render"
    BY <1>1, <1>16 DEF FinishReport, Goto
  <2> QED
    BY <1>1, <1>2, <2>2, <2>3 DEF Remembers
<1>17. CASE Render(p)
  BY <1>1, <1>4, <1>17 DEF Render, Goto
<1>18. CASE CheckPointer(p)
  BY <1>1, <1>4, <1>18 DEF CheckPointer, Goto
<1>19. CASE UnlinkPointer(p)
  BY <1>1, <1>4, <1>19 DEF UnlinkPointer, Goto
<1>20. CASE LinkPointer(p)
  BY <1>1, <1>4, <1>20 DEF LinkPointer, Goto
<1>21. ASSUME my' = [my EXCEPT ![p] = Idle], Goto(p, "idle") PROVE Remembers(p)'
  <2>1. my'[p].now = 0 /\ my'[p].victims = {} /\ pc'[p] = "idle"
    BY <1>1, <1>21 DEF Goto, Idle
  <2> QED
    BY <1>1, <1>2, <2>1 DEF Remembers
<1>22. CASE AppendLedger(p)
  BY <1>21, <1>22 DEF AppendLedger
<1>23. CASE Crash(p)
  BY <1>21, <1>23 DEF Crash
<1> QED
  BY <1>5, <1>6, <1>7, <1>8, <1>9, <1>10, <1>11, <1>12, <1>13, <1>14, <1>16, <1>17,
     <1>18, <1>19, <1>20, <1>22, <1>23 DEF DiskStep

-----------------------------------------------------------------------------
(* Reports and their pointer *)

\* Only a sweep takes a report away, and only one that is old by now.
LEMMA LostIsOld ==
  ASSUME ArtifactTypes, MemoryInv, NEW CONSTANT p \in Processes,
         DiskStep(p) \/ Crash(p),
         NEW CONSTANT t \in Ticks, reports[t] # None, reports'[t] = None
  PROVE  ~NoneOld
<1>1. reports \in [Ticks -> Contents] /\ clock \in Nat /\ t \in Nat /\ my[p].now \in Nat
  BY MemoryNow, DaysGrow DEF ArtifactTypes
<1>2. Remembers(p)
  BY DEF MemoryInv
<1>3. reports' # reports
  BY <1>1
<1>4. CASE DeleteReport(p)
  <2>1. PICK s \in my[p].victims : reports' = [reports EXCEPT ![s] = None]
    BY <1>3, <1>4 DEF DeleteReport
  <2>2. t \in my[p].victims
    BY <1>1, <2>1
  <2>3. Old(t, clock) /\ t < clock
    BY <1>1, <1>2, <2>2, OldStays DEF Remembers
  <2>4. t \in DayLength .. clock
    BY <1>1, <2>3, ArtifactsAssumption DEF Ticks
  <2> QED
    BY <2>3, <2>4 DEF NoneOld
<1>5. CASE Render(p)
  <2>1. reports' = [reports EXCEPT ![my[p].at] = Report(p)] /\ my[p].run # 0
    BY <1>2, <1>5 DEF Render, Remembers
  <2>2. Report(p) # None
    BY <2>1 DEF Report, None
  <2> QED
    BY <1>1, <2>1, <2>2
<1>6. CASE LinkPointer(p)
  <2>1. PICK s : /\ reports' = [reports EXCEPT ![s] = reports[my[p].at]]
                 /\ reports[my[p].at] # None
    BY <1>3, <1>6 DEF LinkPointer
  <2> QED
    BY <1>1, <2>1
<1> QED
  BY <1>3, <1>4, <1>5, <1>6 DEF DiskStep, Start, SweepLogs, ListReports,
     MarkReports, ReadLedger, Truncate, WriteTemp, Replace,
     MarkLedger, FinishReport, CheckPointer,
     UnlinkPointer, AppendLedger, Crash

\* Where a process publishes next.
LEMMA PublishersMove ==
  ASSUME ArtifactTypes, NEW CONSTANT p \in Processes, DiskStep(p) \/ Crash(p),
         pc'[p] \in {"check", "unlink", "link"}
  PROVE  \/ Render(p) /\ pc'[p] = "check"
         \/ CheckPointer(p) /\ pc'[p] = "unlink" /\ pointer # Absent
         \/ CheckPointer(p) /\ pc'[p] = "link" /\ pointer = Absent
         \/ UnlinkPointer(p) /\ pc'[p] = "link" /\ pointer # Absent
<1>1. pc \in [Processes -> Labels]
  BY DEF ArtifactTypes
<1>2. CASE CheckPointer(p)
  BY <1>1, <1>2 DEF CheckPointer, Goto
<1>3. CASE UnlinkPointer(p)
  BY <1>1, <1>3 DEF UnlinkPointer, Goto
<1>4. CASE Render(p)
  BY <1>1, <1>4 DEF Render, Goto
<1>5. CASE \/ Start(p) \/ SweepLogs(p) \/ ListReports(p)
           \/ MarkReports(p) \/ ReadLedger(p)
  BY <1>1, <1>5 DEF Start, SweepLogs, ListReports, MarkReports,
     ReadLedger, Goto
<1>6. CASE DeleteReport(p)
  BY <1>1, <1>6 DEF DeleteReport, Goto
<1>7. CASE Truncate(p) \/ WriteTemp(p) \/ Replace(p) \/ MarkLedger(p)
  BY <1>1, <1>7 DEF Truncate, WriteTemp, Replace, MarkLedger, Goto
<1>8. CASE FinishReport(p)
  BY <1>1, <1>8 DEF FinishReport, Goto
<1>9. CASE LinkPointer(p) \/ AppendLedger(p) \/ Crash(p)
  BY <1>1, <1>9 DEF LinkPointer, AppendLedger, Crash, Goto
<1> QED
  BY <1>2, <1>3, <1>4, <1>5, <1>6, <1>7, <1>8, <1>9 DEF DiskStep

LEMMA PublishersStep ==
  ASSUME ArtifactTypes, MemoryInv, PublishersHaveReports,
         NEW CONSTANT p \in Processes, DiskStep(p) \/ Crash(p)
  PROVE  PublishersHaveReports'
<1>1. /\ reports \in [Ticks -> Contents] /\ pc \in [Processes -> Labels]
      /\ my \in [Processes -> Memories]
  BY DEF ArtifactTypes
<1>2. clock' = clock /\ \A q \in Processes : q # p => pc'[q] = pc[q] /\ my'[q].at = my[q].at
  BY OthersStay
<1>3. SUFFICES ASSUME NoneOld, NEW q \in Processes, pc'[q] \in {"check", "unlink", "link"}
               PROVE  reports'[my'[q].at] # None
  BY <1>2 DEF PublishersHaveReports, NoneOld
<1>4. \A t \in Ticks : reports[t] # None => reports'[t] # None
  BY <1>3, LostIsOld
<1>5. \A r \in Processes : pc[r] \in {"check", "unlink", "link"}
                              => my[r].at \in Ticks /\ reports[my[r].at] # None
  BY <1>3 DEF PublishersHaveReports, MemoryInv, Remembers
<1>6. CASE q # p
  BY <1>2, <1>3, <1>4, <1>5, <1>6
<1>7. CASE q = p
  <2>1. \/ Render(p)
        \/ CheckPointer(p)
        \/ UnlinkPointer(p)
    BY <1>3, <1>7, PublishersMove
  <2>2. CASE Render(p)
    <3>1. /\ my' = my /\ my[p].at \in Ticks /\ my[p].run # 0
          /\ reports' = [reports EXCEPT ![my[p].at] = Report(p)]
      BY <2>2 DEF Render, MemoryInv, Remembers
    <3>2. Report(p) # None
      BY <3>1 DEF Report, None
    <3> QED
      BY <1>1, <1>7, <3>1, <3>2
  <2>3. CASE CheckPointer(p)
    BY <1>4, <1>5, <1>7, <2>3 DEF CheckPointer
  <2>4. CASE UnlinkPointer(p)
    BY <1>4, <1>5, <1>7, <2>4 DEF UnlinkPointer
  <2> QED
    BY <2>1, <2>2, <2>3, <2>4
<1> QED
  BY <1>6, <1>7

\* A report is added by the process that renders it, which then publishes; a
\* pointer is taken away by the process that makes the next one.
LEMMA PublisherStep ==
  ASSUME ArtifactTypes, MemoryInv, PublishersHaveReports, PointerOrPublisher,
         NEW CONSTANT p \in Processes, DiskStep(p) \/ Crash(p)
  PROVE  PointerOrPublisher'
<1>1. /\ reports \in [Ticks -> Contents] /\ pc \in [Processes -> Labels]
      /\ crashes \in Nat
  BY ArtifactsAssumption DEF ArtifactTypes
<1>2. clock' = clock /\ \A q \in Processes : q # p => pc'[q] = pc[q]
  BY OthersStay
<1>3. SUFFICES ASSUME pointer' = Absent, crashes' = 0, NoneOld, NEW t \in Ticks,
                      reports'[t] # None
               PROVE  \E q \in Processes : pc'[q] \in {"check", "link"}
  BY <1>2 DEF PointerOrPublisher, NoneOld
<1>4. CASE Render(p)
  BY <1>1, <1>4 DEF Render, Goto
<1>5. CASE UnlinkPointer(p) /\ pointer # Absent
  BY <1>1, <1>5 DEF UnlinkPointer, Goto
\* in every other step there was no pointer before, and there was a report
<1>6. CASE ~Render(p) /\ ~(UnlinkPointer(p) /\ pointer # Absent)
  <2>1. ~Crash(p)
    BY <1>1, <1>3 DEF Crash
  <2>2. crashes' = crashes
    BY <2>1 DEF DiskStep, Start, SweepLogs, ListReports, DeleteReport,
       MarkReports, ReadLedger, Truncate, WriteTemp, Replace,
       MarkLedger, FinishReport, Render,
       CheckPointer, UnlinkPointer, LinkPointer, AppendLedger
  <2>3. CASE LinkPointer(p)
    \* the report is there, so it leaves a pointer of one kind or the other
    <3>1. reports[my[p].at] # None
      BY <1>3, <2>3 DEF LinkPointer, PublishersHaveReports
    <3> QED
      BY <1>3, <2>3, <3>1 DEF LinkPointer, LinkTo, CopyOf, Absent
  <2>4. CASE ~LinkPointer(p)
    <3>1. pointer = Absent
      BY <1>3, <1>6, <2>1, <2>4 DEF DiskStep, Start, SweepLogs, ListReports,
         DeleteReport, MarkReports, ReadLedger, Truncate, WriteTemp,
         Replace, MarkLedger, FinishReport,
         CheckPointer, UnlinkPointer, AppendLedger
    <3>2. \E s \in Ticks : reports[s] # None
      <4>1. CASE DeleteReport(p)
        <5>1. PICK s \in my[p].victims :
                reports' = [reports EXCEPT ![s] = None] \/ reports' = reports
          BY <4>1 DEF DeleteReport
        <5> QED
          BY <1>1, <1>3, <5>1
      <4>2. CASE ~DeleteReport(p)
        <5>1. reports' = reports
          BY <1>6, <2>1, <2>4, <4>2 DEF DiskStep, Start, SweepLogs,
             ListReports, MarkReports, ReadLedger, Truncate, WriteTemp,
             Replace, MarkLedger, FinishReport,
             CheckPointer, UnlinkPointer, AppendLedger
        <5> QED
          BY <1>3, <5>1
      <4> QED
        BY <4>1, <4>2
    <3>3. PICK q \in Processes : pc[q] \in {"check", "link"}
      BY <1>3, <2>2, <3>1, <3>2 DEF PointerOrPublisher, NoneOld
    <3>4. CASE q # p
      BY <1>2, <3>3, <3>4
    <3>5. CASE q = p
      <4>1. CASE CheckPointer(p)
        <5>1. CASE \E r \in Processes \ {p} : pc[r] = "check"
          BY <1>2, <5>1
        <5>2. CASE ~ \E r \in Processes \ {p} : pc[r] = "check"
          <6>1. pc[p] = "check" /\ reports[my[p].at] # None
            BY <1>3, <4>1 DEF CheckPointer, PublishersHaveReports
          <6>2. pc'[p] = "link"
            BY <1>1, <3>1, <4>1, <5>2, <6>1 DEF CheckPointer, Goto
          <6> QED
            BY <6>2
        <5> QED
          BY <5>1, <5>2
      <4>2. CASE ~CheckPointer(p)
        BY <1>6, <2>1, <2>4, <3>3, <3>5, <4>2 DEF DiskStep, Start, SweepLogs,
           ListReports, DeleteReport, MarkReports, ReadLedger, Truncate,
           WriteTemp, Replace, MarkLedger, FinishReport,
           UnlinkPointer, AppendLedger
      <4> QED
        BY <4>1, <4>2
    <3> QED
      BY <3>4, <3>5
  <2> QED
    BY <2>3, <2>4
<1> QED
  BY <1>4, <1>5, <1>6

\* A second goes by: what is not old now was not old before.
LEMMA TickKeeps ==
  ASSUME ArtifactTypes, MemoryInv, PublishersHaveReports, PointerOrPublisher,
         Tick
  PROVE  /\ ArtifactTypes' /\ MemoryInv' /\ PublishersHaveReports' /\ PointerOrPublisher'
         /\ clock <= clock' /\ clock' \in Ticks
<1>1. /\ clock \in Ticks /\ clock \in Nat /\ clock' = clock + 1 /\ clock < LastTick
      /\ UNCHANGED <<reports, pointer, ledger, temp, markers, pc, my, runs, crashes>>
  BY DaysGrow DEF ArtifactTypes, Tick
<1>2. clock' \in Ticks /\ clock <= clock'
  BY <1>1, ArtifactsAssumption DEF Ticks
<1>3. ArtifactTypes'
  BY <1>1, <1>2 DEF ArtifactTypes
<1>4. MemoryInv'
  <2>1. \A p \in Processes : my[p].now \in Nat
    BY MemoryNow
  <2> QED
    BY <1>1, <2>1 DEF MemoryInv, Remembers
<1>5. NoneOld' => NoneOld
  <2> SUFFICES ASSUME NoneOld', NEW t \in DayLength .. clock, Old(t, clock)
               PROVE  FALSE
    BY DEF NoneOld
  <2>1. t \in Nat /\ t \in DayLength .. clock'
    BY <1>1, ArtifactsAssumption
  <2>2. Old(t, clock')
    BY <1>1, <1>2, <2>1, OldStays
  <2> QED
    BY <2>1, <2>2 DEF NoneOld
<1>6. PublishersHaveReports'
  BY <1>1, <1>5 DEF PublishersHaveReports
<1>7. PointerOrPublisher'
  BY <1>1, <1>5 DEF PointerOrPublisher, NoneOld
<1> QED
  BY <1>2, <1>3, <1>4, <1>6, <1>7

-----------------------------------------------------------------------------
(* The theorems *)

\* The inductive invariant: types, what the processes remember, the reports of those
\* that publish, and the pointer.
ArtifactInv ==
    ArtifactTypes /\ MemoryInv /\ PublishersHaveReports /\ PointerOrPublisher

LEMMA ArtifactInit == ASSUME DiskInit PROVE ArtifactInv
<1>1. \A p \in Processes : pc[p] = "idle"
  BY DEF DiskInit
<1>2. PublishersHaveReports
  BY <1>1 DEF PublishersHaveReports
<1>3. PointerOrPublisher
  BY DEF DiskInit, PointerOrPublisher
<1> QED
  BY <1>2, <1>3, TypesInit, MemoryInit DEF ArtifactInv

LEMMA ArtifactStep == ASSUME ArtifactInv, [DiskNext]_diskVars PROVE ArtifactInv'
<1>1. CASE Tick
  BY <1>1, TickKeeps DEF ArtifactInv
<1>2. ASSUME NEW p \in Processes, DiskStep(p) \/ Crash(p) PROVE ArtifactInv'
  BY <1>2, StepTypes, MemoryStep, PublishersStep, PublisherStep DEF ArtifactInv
<1>3. CASE UNCHANGED diskVars
  BY <1>3 DEF diskVars, ArtifactInv, ArtifactTypes, MemoryInv, Remembers,
     PublishersHaveReports, NoneOld, PointerOrPublisher
<1> QED
  BY <1>1, <1>2, <1>3 DEF DiskNext

LEMMA ArtifactsCorrect == DiskSpec => []ArtifactInv
<1>1. DiskInit => ArtifactInv
  BY ArtifactInit
<1>2. ArtifactInv /\ [DiskNext]_diskVars => ArtifactInv'
  BY ArtifactStep
<1> QED
  BY <1>1, <1>2, PTL DEF DiskSpec

\* RunArtifacts is type-correct: whatever processes start, sweep, publish or are
\* killed, no record has a run or a second that was not, and a process waits at a
\* label of its command.
THEOREM ArtifactTypesCorrect ==
  DiskSpec => []DiskTypeOK
<1>1. ArtifactInv => DiskTypeOK
  <2> SUFFICES ASSUME ArtifactInv PROVE DiskTypeOK
    OBVIOUS
  <2>2. temp.exists \in BOOLEAN /\ temp.lines \in Seq(Contents)
    BY DEF ArtifactInv, ArtifactTypes, Temps
  <2>3. \A p \in Processes :
           /\ my[p].run \in 0 .. MaxRuns /\ {my[p].now, my[p].at} \subseteq 0 .. LastTick
           /\ my[p].victims \subseteq Ticks /\ my[p].read \in Seq(Contents)
           /\ my[p].handle \in {"none", "temp", "ledger", "gone"}
    BY MemoryTyped DEF ArtifactInv
  <2> QED
    BY <2>2, <2>3 DEF ArtifactInv, ArtifactTypes, DiskTypeOK, Pointers
<1> QED
  BY <1>1, ArtifactsCorrect, PTL

\* latest.json is never lost between processes that publish at the same time
\* (LatestArtifactPointerPublisher.publish): as long as nobody was killed and no report was old
\* enough to be swept, a directory with a report and no pointer has a process that
\* is about to make one.
THEOREM PointerOrPublisherCorrect ==
  DiskSpec => []PointerOrPublisher
<1>1. ArtifactInv => PointerOrPublisher
  BY DEF ArtifactInv
<1> QED
  BY <1>1, ArtifactsCorrect, PTL

\* The two excuses of LoneSweepKeepsRecords: a handle to what has become the
\* ledger, and a replacement by something else than what was read and kept.
Excused(r) ==
    \E p \in Processes :
       \/ my[p].handle = "ledger"
       \/ /\ pc[p] = "replace"
          /\ \/ temp.lines # KeptLines(p)
             \/ \A k \in 1 .. Len(my[p].read) : my[p].read[k] # r

\* A record that a step loses, and that is of a day the ledger keeps, is excused.
LEMMA RecordsStay ==
  ASSUME ArtifactInv, [DiskNext]_diskVars, NEW CONSTANT i \in 1 .. Len(ledger),
         DayOf(ledger[i].at) + RetentionDays >= Today,
         \A j \in 1 .. Len(ledger') : ledger'[j] # ledger[i]
  PROVE  Excused(ledger[i])
<1>1. ledger \in Seq(Contents) /\ ledger' # ledger
  BY DEF ArtifactInv, ArtifactTypes
<1>2. PICK p \in Processes : DiskStep(p) \/ Crash(p)
  BY <1>1 DEF DiskNext, Tick, diskVars
<1>3. CASE WriteTemp(p)
  BY <1>1, <1>3 DEF WriteTemp, Excused
<1>4. CASE Replace(p)
  <2>1. pc[p] = "replace" /\ ledger' = temp.lines
    BY <1>1, <1>4 DEF Replace
  <2> SUFFICES ASSUME temp.lines = KeptLines(p),
                      NEW k \in 1 .. Len(my[p].read), my[p].read[k] = ledger[i]
               PROVE  FALSE
    BY <2>1 DEF Excused
  <2>2. Keeps(ledger[i], my[p].now)
    <3>1. /\ DayOf(my[p].now) \in Nat /\ Today \in Nat
          /\ DayOf(my[p].now) <= Today
      BY MemoryNow DEF ArtifactInv
    <3>2. DayOf(ledger[i].at) \in Nat /\ RetentionDays \in Nat
      <4>1. ledger[i].at \in Nat
        <5>1. ledger[i] \in Contents /\ LastTick \in Nat
          BY <1>1, ArtifactsAssumption
        <5> QED
          BY <5>1 DEF Contents
      <4> QED
        BY <4>1, DaysGrow, RetentionAssumption
    <3> QED
      BY <3>1, <3>2 DEF Keeps, BeforeCutoff
  <2>3. my[p].read \in Seq(Contents)
    BY MemoryTyped DEF ArtifactInv
  <2>4. \E j \in 1 .. Len(KeptLines(p)) : KeptLines(p)[j] = ledger[i]
    BY <2>2, <2>3, PruneKeeps
  <2> QED
    BY <2>1, <2>4
<1>5. CASE AppendLedger(p)
  <2>1. ledger' = Append(ledger, Report(p)) /\ Report(p) \in Contents
    BY <1>1, <1>5, MemoryTyped DEF AppendLedger, ArtifactInv
  <2>2. ledger'[i] = ledger[i] /\ i \in 1 .. Len(ledger')
    BY <1>1, <2>1
  <2> QED
    BY <2>2
<1> QED
  BY <1>1, <1>2, <1>3, <1>4, <1>5 DEF DiskStep, Start, SweepLogs, ListReports,
     DeleteReport, MarkReports, ReadLedger, Truncate, MarkLedger,
     FinishReport, Render, CheckPointer,
     UnlinkPointer, LinkPointer, Crash

\* A sweep of the ledger that meets no other keeps every record it has read that is
\* young enough (JsonlRunLedger.prune), however many processes append meanwhile.
THEOREM LoneSweepKeepsRecordsCorrect ==
  DiskSpec => LoneSweepKeepsRecords
<1>1. ArtifactInv /\ [DiskNext]_diskVars =>
        [\A i \in 1 .. Len(ledger) :
            LET r == ledger[i]
            IN  DayOf(r.at) + RetentionDays >= Today
                   /\ (\A j \in 1 .. Len(ledger') : ledger'[j] # r)
                => \E p \in Processes :
                      \/ my[p].handle = "ledger"
                      \/ /\ pc[p] = "replace"
                         /\ \/ temp.lines # KeptLines(p)
                            \/ \A k \in 1 .. Len(my[p].read) : my[p].read[k] # r]_diskVars
  BY RecordsStay DEF Excused
<1> QED
  BY <1>1, ArtifactsCorrect, PTL DEF DiskSpec, LoneSweepKeepsRecords

-----------------------------------------------------------------------------
(* The log that the processes of a component share: the theorems about     *)
(* DailyLog                                                                *)

Streams == [file : 0 .. MaxLines, day : Days \cup {0}, open : BOOLEAN]

LEMMA LogNumbers ==
  /\ Backups \in Nat /\ Overflow \in Slots /\ Overflow = Backups + 1 /\ 0 \in Slots
  /\ MaxLines \in Nat /\ MaxBytes \in Nat \ {0}
  /\ \A k \in Slots : k \in Nat /\ (k >= 1 => k - 1 \in Slots)
  /\ 1 \in Days /\ 0 \notin Days /\ \A d \in Days : d \in Nat
  BY LogAssumption DEF Overflow, Slots, Days

\* A rotation is of some day, and moves a name only where there is one below it.
RotationsKnown ==
    \A p \in Processes :
        /\ Rotating(p) => stream[p].day \in Days
        /\ at[p] = "shift" => left[p] >= 1

\* The lock: no two processes rotate the files of one day.
OneRotator ==
    \A p, q \in Processes :
        Rotating(p) /\ Rotating(q) /\ stream[p].day = stream[q].day => p = q

\* Files are numbered in the order they are made, and the next one is empty.
Numbered ==
    /\ \A d \in Days : \A i \in Slots : names[d][i] <= made
    /\ \A f \in Files : f > made => size[f] = 0

\* No file is named under two days.
FilesOfDay ==
    \A d, e \in Days : \A i, j \in Slots :
        names[d][i] # 0 /\ names[d][i] = names[e][j] => d = e

\* A process has its file open under the only day that names it.
StreamsOfDay ==
    \A p \in Processes :
        stream[p].file # 0 =>
            /\ stream[p].file <= made
            /\ \A d \in Days : \A i \in Slots : names[d][i] = stream[p].file => d = stream[p].day

\* Those that have lost their log, or are about to: the file beyond the last backup
\* has gone since they found it.
Victims ==
    ShutOut \cup {p \in Processes : at[p] = "drop" /\ names[stream[p].day][Overflow] = 0}

VictimsCounted == IsFiniteSet(Victims) /\ Cardinality(Victims) <= deleted + cuts

LogInv ==
    /\ LogTypeOK /\ RotationsKnown /\ OneRotator
    /\ Numbered /\ FilesOfDay /\ StreamsOfDay /\ ActiveFileBounded
    /\ VictimsCounted

LEMMA LogStart == ASSUME LogInit PROVE LogInv
<1>1. LogTypeOK
  BY LogAssumption, LogNumbers DEF LogInit, LogTypeOK, Closed
<1>2. RotationsKnown /\ OneRotator
  BY DEF LogInit, RotationsKnown, OneRotator, Rotating
<1>3. Numbered /\ FilesOfDay /\ StreamsOfDay /\ ActiveFileBounded
  <2>1. \A d \in Days : \A i \in Slots : names[d][i] = 0
    BY DEF LogInit
  <2>2. (\A f \in Files : size[f] = 0) /\ made = 0
    BY DEF LogInit
  <2>3. \A p \in Processes : stream[p].file = 0
    BY DEF LogInit, Closed
  <2> QED
    BY <2>1, <2>2, <2>3, LogNumbers
       DEF Numbered, FilesOfDay, StreamsOfDay, ActiveFileBounded
<1>4. VictimsCounted
  <2>1. Victims = {}
    BY DEF LogInit, Victims, ShutOut, Closed
  <2> QED
    BY <2>1, FS_EmptySet DEF LogInit, VictimsCounted
<1> QED
  BY <1>1, <1>2, <1>3, <1>4 DEF LogInv

\* What _ensure_stream leaves is a stream of today, to the file of today's name
\* unless the process has kept another.
LEMMA StreamEnsured ==
  ASSUME LogTypeOK, NEW p \in Processes, Created(p) => made < MaxLines
  PROVE  /\ Ensured(p) \in Streams /\ [Ensured(p) EXCEPT !.open = FALSE] \in Streams
         /\ Ensured(p).day = today
         /\ Kept(p) => Ensured(p) = stream[p]
         /\ ~Kept(p) => Ensured(p).open /\ Ensured(p).file = IF Created(p) THEN made + 1
                                                             ELSE names[today][0]
<1>1. /\ stream[p] \in Streams /\ today \in Days /\ made \in 0 .. MaxLines
      /\ names[today][0] \in 0 .. MaxLines
  BY LogNumbers DEF LogTypeOK, Streams
<1>2. Created(p) => made + 1 \in 0 .. MaxLines
  BY <1>1, LogNumbers
<1>3. CASE Kept(p)
  BY <1>1, <1>3 DEF Ensured, Kept, Streams
<1>4. CASE ~Kept(p)
  <2>1. Ensured(p) = [file |-> IF Created(p) THEN made + 1 ELSE names[today][0],
                      day |-> today, open |-> TRUE]
    BY <1>4 DEF Ensured
  <2> DEFINE f == IF Created(p) THEN made + 1 ELSE names[today][0]
  <2>2. f \in 0 .. MaxLines
    BY <1>1, <1>2
  <2> HIDE DEF f
  <2>3. Ensured(p) = [file |-> f, day |-> today, open |-> TRUE]
    BY <2>1 DEF f
  <2>4. Ensured(p) \in Streams
    BY <1>1, <2>2, <2>3 DEF Streams
  <2>5. [Ensured(p) EXCEPT !.open = FALSE] \in Streams
    BY <2>4 DEF Streams
  <2>6. Ensured(p).file = f /\ Ensured(p).day = today /\ Ensured(p).open
    BY <2>3
  <2> QED
    BY <1>4, <2>4, <2>5, <2>6 DEF f
<1> QED
  BY <1>3, <1>4

\* Every step keeps the types, and what is known of a rotation.
LEMMA LogTypesStep ==
  ASSUME LogTypeOK, RotationsKnown, NEW CONSTANT p \in Processes, LogStep(p)
  PROVE  LogTypeOK' /\ RotationsKnown'
<1>1. /\ stream \in [Processes -> Streams] /\ stream[p] \in Streams
      /\ names \in [Days -> [Slots -> 0 .. MaxLines]]
      /\ size \in [Files -> Nat] /\ made \in 0 .. MaxLines /\ written \in 0 .. MaxLines
      /\ left[p] \in Slots /\ today \in Days /\ deleted \in Nat /\ cuts \in Nat
      /\ Closed \in Streams
  BY LogNumbers DEF LogTypeOK, Streams, Closed
<1>2. written < MaxLines => written + 1 \in 0 .. MaxLines
  BY <1>1, LogNumbers
<1>3. made < MaxLines => made + 1 \in 0 .. MaxLines
  BY <1>1, LogNumbers
<1>4. \A f : [size EXCEPT ![f] = @ + 1] \in [Files -> Nat]
  <2> SUFFICES ASSUME NEW f PROVE [size EXCEPT ![f] = size[f] + 1] \in [Files -> Nat]
    OBVIOUS
  <2>1. CASE f \in Files
    BY <1>1, <2>1
  <2>2. CASE f \notin Files
    BY <1>1, <2>2
  <2> QED
    BY <2>1, <2>2
<1>5. \A d \in Days, i \in Slots, f \in 0 .. MaxLines :
         [names EXCEPT ![d][i] = f] \in [Days -> [Slots -> 0 .. MaxLines]]
  BY <1>1
<1>14. /\ 0 \in 0 .. MaxLines /\ left[p] \in Nat
       /\ at[p] \in {"find", "drop", "shift", "reopen"} => stream[p].day \in Days
  <2>1. 0 \in 0 .. MaxLines
    BY LogNumbers
  <2>2. left[p] \in Nat
    BY <1>1, LogAssumption DEF Slots, Overflow
  <2>3. at[p] \in {"find", "drop", "shift", "reopen"} => stream[p].day \in Days
    BY DEF RotationsKnown, Rotating
  <2> QED
    BY <2>1, <2>2, <2>3
<1> USE DEF Rotating
<1>6. CASE WriteLine(p)
  <2>1. Ensured(p) \in Streams
    BY <1>6, StreamEnsured DEF WriteLine
  <2>2. stream' \in [Processes -> Streams]
    BY <1>1, <1>6, <2>1 DEF WriteLine
  <2>3. names' \in [Days -> [Slots -> 0 .. MaxLines]] /\ made' \in 0 .. MaxLines
    <3>1. /\ \/ /\ names' = [names EXCEPT ![today][0] = made + 1]
                /\ made' = made + 1
             \/ UNCHANGED <<names, made>>
          /\ made < MaxLines
      BY <1>6 DEF WriteLine, MakeFile
    <3>2. made + 1 \in 0 .. MaxLines
      BY <1>3, <3>1
    <3>3. [names EXCEPT ![today][0] = made + 1] \in [Days -> [Slots -> 0 .. MaxLines]]
      BY <1>1, <1>5, <3>2, LogNumbers
    <3> QED
      BY <1>1, <3>1, <3>2, <3>3
  <2>4. size' \in [Files -> Nat]
    BY <1>1, <1>4, <1>6 DEF WriteLine
  <2>5. written' \in 0 .. MaxLines
    BY <1>2, <1>6 DEF WriteLine
  <2>6. UNCHANGED <<today, at, left, doomed, deleted, cuts>> /\ at[p] = "free"
        /\ stream' = [stream EXCEPT ![p] = Ensured(p)]
    BY <1>6 DEF WriteLine
  <2>7. LogTypeOK'
    BY <2>2, <2>3, <2>4, <2>5, <2>6 DEF LogTypeOK, Streams
  <2>8. RotationsKnown'
    BY <1>1, <2>6 DEF RotationsKnown
  <2> QED
    BY <2>7, <2>8
<1>7. CASE StartRotation(p)
  <2>1. /\ [Ensured(p) EXCEPT !.open = FALSE] \in Streams
        /\ [Ensured(p) EXCEPT !.open = FALSE].day = today
    <3>1. ~Created(p)
      BY <1>7 DEF StartRotation, Full, Created
    <3>2. Ensured(p) \in Streams /\ Ensured(p).day = today
          /\ [Ensured(p) EXCEPT !.open = FALSE] \in Streams
      BY <3>1, StreamEnsured
    <3> QED
      BY <3>2 DEF Streams
  <2>2. /\ stream' = [stream EXCEPT ![p] = [Ensured(p) EXCEPT !.open = FALSE]]
        /\ at' = [at EXCEPT ![p] = IF Backups = 0 THEN "shift" ELSE "find"]
        /\ left' = [left EXCEPT ![p] = Overflow]
        /\ UNCHANGED <<today, names, size, made, doomed, deleted, cuts>>
        /\ written' \in 0 .. MaxLines
    BY <1>2, <1>7 DEF StartRotation
  <2>3. stream' \in [Processes -> Streams]
    BY <1>1, <2>1, <2>2
  <2>4. LogTypeOK'
    BY <2>2, <2>3, LogNumbers DEF LogTypeOK, Streams
  <2>5. RotationsKnown'
    <3> SUFFICES ASSUME NEW q \in Processes
                 PROVE  /\ Rotating(q)' => stream'[q].day \in Days
                        /\ at'[q] = "shift" => left'[q] >= 1
      BY DEF RotationsKnown
    <3>1. CASE q = p
      BY <1>1, <2>1, <2>2, <3>1, LogNumbers DEF LogTypeOK
    <3>2. CASE q # p
      BY <2>2, <3>2 DEF LogTypeOK, RotationsKnown
    <3> QED
      BY <3>1, <3>2
  <2> QED
    BY <2>4, <2>5
<1>8. CASE FindOverflow(p) \/ DropOverflow(p)
  <2>1. /\ at' = [at EXCEPT ![p] = "drop"] \/ at' = [at EXCEPT ![p] = "reopen"]
           \/ (left[p] # 0 /\ at' = [at EXCEPT ![p] = "shift"])
        /\ Rotating(p)
        /\ names' = names \/ names' = [names EXCEPT ![stream[p].day][Overflow] = 0]
        /\ UNCHANGED <<today, size, made, stream, written, left, doomed, deleted, cuts>>
    BY <1>8, ZenonT(30) DEF FindOverflow, DropOverflow, PastOverflow
  <2>2. names' \in [Days -> [Slots -> 0 .. MaxLines]]
    <3>1. stream[p].day \in Days /\ Overflow \in Slots
      BY <1>14, <2>1, LogNumbers
    <3>2. [names EXCEPT ![stream[p].day][Overflow] = 0] \in [Days -> [Slots -> 0 .. MaxLines]]
      BY <1>5, <1>14, <3>1
    <3> QED
      BY <1>1, <2>1, <3>2
  <2>3. left[p] # 0 => left[p] >= 1
    BY <1>14
  <2>4. at' \in [Processes -> {"free", "find", "drop", "shift", "reopen", "sweep"}]
    BY <2>1 DEF LogTypeOK
  <2>5. LogTypeOK'
    BY <2>1, <2>2, <2>4 DEF LogTypeOK
  <2>6. RotationsKnown'
    BY <2>1, <2>3 DEF RotationsKnown, LogTypeOK
  <2> QED
    BY <2>5, <2>6
<1>9. CASE ShiftName(p)
  <2> DEFINE k == left[p]
             d == stream[p].day
             v == IF Backups = 0 THEN 0 ELSE names[d][k - 1]
  <2>1. /\ names' = [names EXCEPT ![d][k] = v, ![d][k - 1] = 0]
        /\ left' = [left EXCEPT ![p] = k - 1]
        /\ \/ k > 1 /\ at' = [at EXCEPT ![p] = "shift"]
           \/ at' = [at EXCEPT ![p] = "reopen"] \/ at' = [at EXCEPT ![p] = "find"]
        /\ at[p] = "shift"
        /\ UNCHANGED <<today, size, made, stream, written, doomed, deleted, cuts>>
    <3> DEFINE next == CASE k > 1 -> "shift"
                         [] k = 1 /\ Backups = 0 -> "reopen"
                         [] OTHER -> "find"
    <3>1. at' = [at EXCEPT ![p] = next]
      BY <1>9 DEF ShiftName
    <3>2. \/ k > 1 /\ at' = [at EXCEPT ![p] = "shift"]
          \/ at' = [at EXCEPT ![p] = "reopen"] \/ at' = [at EXCEPT ![p] = "find"]
      <4>1. (k > 1 /\ next = "shift") \/ next = "reopen" \/ next = "find"
        OBVIOUS
      <4> QED
        BY <3>1, <4>1
    <3> QED
      BY <1>9, <3>2 DEF ShiftName
  <2>2. d \in Days /\ k >= 1 /\ k - 1 \in Slots /\ k \in Slots /\ (k > 1 => k - 1 >= 1)
    <3>1. d \in Days /\ k \in Slots /\ k >= 1 /\ k \in Nat
      BY <1>1, <1>14, <2>1 DEF RotationsKnown
    <3>2. k - 1 \in Slots
      BY <3>1, LogNumbers
    <3> QED
      BY <3>1, <3>2
  <2>3. v \in 0 .. MaxLines
    <3>1. names[d] \in [Slots -> 0 .. MaxLines]
      BY <1>1, <2>2
    <3> QED
      BY <1>14, <2>2, <3>1
  <2> HIDE DEF v, d, k
  <2>4. names' \in [Days -> [Slots -> 0 .. MaxLines]]
    BY <1>1, <1>14, <2>1, <2>2, <2>3
  <2>5. at' \in [Processes -> {"free", "find", "drop", "shift", "reopen", "sweep"}]
    BY <2>1 DEF LogTypeOK
  <2>6. left' \in [Processes -> Slots]
    BY <2>1, <2>2 DEF LogTypeOK
  <2>7. LogTypeOK'
    BY <2>1, <2>4, <2>5, <2>6 DEF LogTypeOK
  <2>8. RotationsKnown'
    BY <2>1, <2>2 DEF RotationsKnown, LogTypeOK, d
  <2> QED
    BY <2>7, <2>8
<1>10. CASE ReopenLog(p)
  <2>1. /\ names' = [names EXCEPT ![stream[p].day][0] = made + 1]
        /\ made' = made + 1 /\ made < MaxLines
        /\ stream' = [stream EXCEPT ![p] = [stream[p] EXCEPT !.file = made + 1, !.open = TRUE]]
        /\ size' = [size EXCEPT ![made + 1] = @ + 1]
        /\ at' = [at EXCEPT ![p] = "free"]
        /\ UNCHANGED <<today, written, left, doomed, deleted, cuts>>
    BY <1>10 DEF ReopenLog, MakeFile
  <2>2. [stream[p] EXCEPT !.file = made + 1, !.open = TRUE] \in Streams
    BY <1>1, <1>3, <2>1 DEF Streams
  <2>3. LogTypeOK'
    BY <1>1, <1>3, <1>4, <1>5, <2>1, <2>2 DEF LogTypeOK, Streams
  <2>4. RotationsKnown'
    BY <1>1, <2>1 DEF RotationsKnown, LogTypeOK
  <2> QED
    BY <2>3, <2>4
<1>11. CASE CloseLog(p) \/ KillLogger(p) \/ InterruptLogger(p) \/ FailRotation(p) \/ EndSweep(p)
  <2>1. /\ stream' = [stream EXCEPT ![p] = Closed] \/ stream' = stream
        /\ at' = [at EXCEPT ![p] = "free"] \/ (at' = at /\ at[p] = "free")
        /\ doomed' = [doomed EXCEPT ![p] = {}] \/ doomed' = doomed
        /\ cuts' \in {cuts, cuts + 1}
        /\ UNCHANGED <<today, names, size, made, written, left, deleted>>
    BY <1>11 DEF CloseLog, KillLogger, InterruptLogger, FailRotation, EndSweep
  <2>2. stream' \in [Processes -> Streams]
    BY <1>1, <2>1
  <2>3. /\ at' \in [Processes -> {"free", "find", "drop", "shift", "reopen", "sweep"}]
        /\ doomed' \in [Processes -> SUBSET (Days \X Slots)] /\ cuts' \in Nat
    <3>1. /\ at \in [Processes -> {"free", "find", "drop", "shift", "reopen", "sweep"}]
          /\ doomed \in [Processes -> SUBSET (Days \X Slots)]
      BY DEF LogTypeOK
    <3> QED
      BY <1>1, <2>1, <3>1
  <2>4. LogTypeOK'
    BY <2>1, <2>2, <2>3 DEF LogTypeOK, Streams
  <2>5. RotationsKnown'
    BY <1>1, <2>1 DEF RotationsKnown, LogTypeOK
  <2> QED
    BY <2>4, <2>5
<1>12. CASE ListLogs(p)
  <2>1. PICK seen \in SUBSET Excess : doomed' = [doomed EXCEPT ![p] = ExpiredNames \cup seen]
    BY <1>12 DEF ListLogs
  <2>2. ExpiredNames \cup seen \in SUBSET (Days \X Slots)
    BY LogNumbers DEF ExpiredNames, Excess
  <2>3. /\ at' = [at EXCEPT ![p] = "sweep"]
        /\ UNCHANGED <<today, names, size, made, stream, written, left, deleted, cuts>>
    BY <1>12 DEF ListLogs
  <2>4. LogTypeOK'
    BY <2>1, <2>2, <2>3 DEF LogTypeOK
  <2>5. RotationsKnown'
    BY <2>3 DEF RotationsKnown, LogTypeOK
  <2> QED
    BY <2>4, <2>5
<1>13. CASE UnlinkLog(p) \/ PassOver(p)
  <2>1. PICK n : /\ names' = [names EXCEPT ![n[1]][n[2]] = 0] \/ names' = names
                 /\ doomed' = [doomed EXCEPT ![p] = @ \ {n}]
    BY <1>13 DEF UnlinkLog, PassOver
  <2>2. /\ deleted' \in {deleted, deleted + 1}
        /\ UNCHANGED <<today, size, made, stream, written, at, left, cuts>>
    BY <1>13 DEF UnlinkLog, PassOver
  <2>3. names' \in [Days -> [Slots -> 0 .. MaxLines]]
    BY <1>1, <2>1, LogNumbers
  <2>4. LogTypeOK'
    BY <1>1, <2>1, <2>2, <2>3 DEF LogTypeOK
  <2>5. RotationsKnown'
    BY <2>2 DEF RotationsKnown
  <2> QED
    BY <2>4, <2>5
<1> QED
  BY <1>6, <1>7, <1>8, <1>9, <1>10, <1>11, <1>12, <1>13 DEF LogStep

\* The invariants of the files.
FilesInv == Numbered /\ FilesOfDay /\ StreamsOfDay /\ ActiveFileBounded

\* Steps that make no file and write no line: a name is given up or goes to a file
\* of the same day, the active name to none, and a process that opens a file opens
\* one that has a name of its day.
LEMMA FilesKept ==
  ASSUME LogTypeOK, FilesInv, UNCHANGED <<size, made>>,
         \A d \in Days : \A i \in Slots :
             names'[d][i] = 0 \/ \E j \in Slots : names'[d][i] = names[d][j],
         \A d \in Days : names'[d][0] = 0 \/ names'[d][0] = names[d][0],
         \A q \in Processes :
             \/ stream'[q].file = 0
             \/ stream'[q].file = stream[q].file /\ stream'[q].day = stream[q].day
             \/ \E d \in Days : \E i \in Slots :
                   stream'[q].file = names[d][i] /\ stream'[q].day = d
  PROVE  FilesInv'
<1>1. Numbered'
  <2>1. made \in Nat
    BY LogNumbers DEF LogTypeOK
  <2> QED
    BY <2>1 DEF FilesInv, Numbered
<1>2. FilesOfDay'
  <2> SUFFICES ASSUME NEW d \in Days, NEW e \in Days, NEW i \in Slots, NEW j \in Slots,
                      names'[d][i] # 0, names'[d][i] = names'[e][j]
               PROVE  d = e
    BY DEF FilesOfDay
  <2>1. PICK k \in Slots : names'[d][i] = names[d][k]
    OBVIOUS
  <2>2. PICK l \in Slots : names'[e][j] = names[e][l]
    OBVIOUS
  <2>3. names[d][k] # 0 /\ names[d][k] = names[e][l]
    BY <2>1, <2>2
  <2>4. FilesOfDay
    BY DEF FilesInv
  <2> QED
    BY <2>1, <2>2, <2>3, <2>4 DEF FilesOfDay
<1>3. StreamsOfDay'
  <2> SUFFICES ASSUME NEW q \in Processes, stream'[q].file # 0
               PROVE  /\ stream'[q].file <= made
                      /\ \A d \in Days : \A i \in Slots :
                            names'[d][i] = stream'[q].file => d = stream'[q].day
    BY DEF StreamsOfDay
  <2>1. ASSUME NEW d \in Days, NEW i \in Slots, names'[d][i] = stream'[q].file
        PROVE  \E j \in Slots : names[d][j] = stream'[q].file
    BY <2>1
  <2>2. CASE stream'[q].file = stream[q].file /\ stream'[q].day = stream[q].day
    BY <2>1, <2>2 DEF FilesInv, StreamsOfDay
  <2>3. CASE \E d \in Days : \E i \in Slots :
                stream'[q].file = names[d][i] /\ stream'[q].day = d
    BY <2>1, <2>3 DEF FilesInv, FilesOfDay, Numbered
  <2> QED
    BY <2>2, <2>3
<1>4. ActiveFileBounded'
  BY DEF FilesInv, ActiveFileBounded
<1> QED
  BY <1>1, <1>2, <1>3, <1>4 DEF FilesInv

\* Steps that write a line: to a file made for it, or to one that has a name of its
\* day or none, and that is not full if this is the active name.
LEMMA LineAdded ==
  ASSUME LogTypeOK, FilesInv, NEW p \in Processes, NEW d \in Days, NEW f \in Files,
         \/ size' = [size EXCEPT ![f] = @ + 1]
         \/ UNCHANGED size /\ f <= made,
         stream'[p].file = f, stream'[p].day = d,
         \A q \in Processes : q # p => stream'[q] = stream[q],
         \/ /\ names' = [names EXCEPT ![d][0] = f]
            /\ f = made + 1 /\ made' = made + 1
         \/ /\ UNCHANGED <<names, made>>
            /\ f <= made
            /\ \A e \in Days : \A i \in Slots : names[e][i] = f => e = d
            /\ names[d][0] = f => ~Rolls(size[f])
  PROVE  FilesInv'
<1>1. /\ made \in Nat /\ f \in Nat /\ f # 0 /\ size \in [Files -> Nat]
      /\ names \in [Days -> [Slots -> 0 .. MaxLines]]
      /\ \A e \in Days : \A i \in Slots : names[e][i] \in Nat
      /\ MaxBytes \in Nat \ {0} /\ 0 \in Slots
  <2>1. MaxLines \in Nat /\ f \in 1 .. MaxLines
    BY LogNumbers DEF Files
  <2>2. names \in [Days -> [Slots -> 0 .. MaxLines]] /\ size \in [Files -> Nat]
        /\ made \in 0 .. MaxLines
    BY DEF LogTypeOK
  <2>3. \A e \in Days : \A i \in Slots : names[e][i] \in Nat
    BY <2>1, <2>2
  <2> QED
    BY <2>1, <2>2, <2>3, LogNumbers
<1>2. \A e \in Days : \A i \in Slots :
         /\ names'[e][i] = names[e][i] \/ (e = d /\ i = 0 /\ names'[e][i] = f /\ f = made + 1)
         /\ names'[e][i] = names[e][i] => names'[e][i] # f \/ e = d
  <2> SUFFICES ASSUME NEW e \in Days, NEW i \in Slots
               PROVE  /\ names'[e][i] = names[e][i]
                            \/ (e = d /\ i = 0 /\ names'[e][i] = f /\ f = made + 1)
                      /\ names'[e][i] = names[e][i] => names'[e][i] # f \/ e = d
    OBVIOUS
  <2>1. names[e][i] <= made
    BY DEF FilesInv, Numbered
  <2> QED
    BY <1>1, <2>1
<1>3. made' \in Nat /\ made <= made' /\ f <= made' /\ \A e \in Days : \A i \in Slots :
                                                        names[e][i] <= made
  BY <1>1 DEF FilesInv, Numbered
<1>4. \A g \in Files : g # f => size'[g] = size[g]
  BY <1>1
<1>5. Numbered'
  <2>1. \A e \in Days : \A i \in Slots : names'[e][i] <= made'
    BY <1>1, <1>2, <1>3
  <2>2. \A g \in Files : g > made' => size'[g] = 0
    <3> SUFFICES ASSUME NEW g \in Files, g > made' PROVE size'[g] = 0
      OBVIOUS
    <3>1. g \in Nat
      BY DEF Files
    <3>2. g # f /\ g > made
      BY <1>1, <1>3, <3>1
    <3> QED
      BY <1>4, <3>2 DEF FilesInv, Numbered
  <2> QED
    BY <2>1, <2>2 DEF Numbered
<1>6. FilesOfDay'
  BY <1>1, <1>2, <1>3 DEF FilesInv, FilesOfDay
<1>7. StreamsOfDay'
  <2> SUFFICES ASSUME NEW q \in Processes, stream'[q].file # 0
               PROVE  /\ stream'[q].file <= made'
                      /\ \A e \in Days : \A i \in Slots :
                            names'[e][i] = stream'[q].file => e = stream'[q].day
    BY DEF StreamsOfDay
  <2>1. CASE q = p
    BY <1>2, <1>3, <2>1
  <2>2. CASE q # p
    <3>1. /\ stream[q].file # 0 /\ stream[q].file <= made /\ stream[q].file \in Nat
          /\ \A e \in Days : \A i \in Slots :
                names[e][i] = stream[q].file => e = stream[q].day
      BY <2>2, LogNumbers DEF FilesInv, StreamsOfDay, LogTypeOK
    <3> QED
      BY <1>1, <1>2, <1>3, <2>2, <3>1
  <2> QED
    BY <2>1, <2>2
<1>8. ActiveFileBounded'
  <2> SUFFICES ASSUME NEW e \in Days, names'[e][0] # 0
               PROVE  size'[names'[e][0]] <= MaxBytes
    BY DEF ActiveFileBounded
  <2>1. CASE names'[e][0] # f
    <3>1. names'[e][0] = names[e][0] /\ names[e][0] \in Files
      BY <1>1, <1>2, <2>1 DEF Files, LogTypeOK
    <3> QED
      BY <1>4, <2>1, <3>1 DEF FilesInv, ActiveFileBounded
  <2>2. CASE names'[e][0] = f
    <3>1. size[f] \in Nat /\ size'[f] \in {size[f], size[f] + 1}
      BY <1>1
    <3>2. size[f] = 0 \/ size[f] + 1 <= MaxBytes
      <4>1. CASE f = made + 1
        <5>1. f > made
          BY <1>1, <4>1
        <5> QED
          BY <5>1 DEF FilesInv, Numbered
      <4>2. CASE f # made + 1
        <5>1. names[d][0] = f /\ ~Rolls(size[f])
          BY <1>1, <1>2, <2>2, <4>2
        <5> QED
          BY <1>1, <3>1, <5>1 DEF Rolls
      <4> QED
        BY <4>1, <4>2
    <3> QED
      BY <1>1, <2>2, <3>1, <3>2
  <2> QED
    BY <2>1, <2>2
<1> QED
  BY <1>5, <1>6, <1>7, <1>8 DEF FilesInv

LEMMA FilesStep ==
  ASSUME LogTypeOK, RotationsKnown, FilesInv, NEW CONSTANT p \in Processes, LogStep(p)
  PROVE  FilesInv'
<1>1. /\ stream \in [Processes -> Streams] /\ stream[p] \in Streams
      /\ names \in [Days -> [Slots -> 0 .. MaxLines]]
      /\ made \in Nat /\ made \in 0 .. MaxLines /\ today \in Days /\ 0 \in Slots
      /\ \A d \in Days : \A i \in Slots : names[d][i] \in 0 .. MaxLines
      /\ MaxLines \in Nat
  BY LogNumbers DEF LogTypeOK, Streams
<1>2. at[p] \in {"find", "drop", "shift", "reopen"} => stream[p].day \in Days
  BY DEF RotationsKnown, Rotating
<1>3. CASE WriteLine(p)
  <2> DEFINE st == Ensured(p)
  <2>1. /\ Created(p) => made < MaxLines
        /\ stream' = [stream EXCEPT ![p] = st]
        /\ size' = IF st.open THEN [size EXCEPT ![st.file] = @ + 1] ELSE size
        /\ IF Created(p) THEN MakeFile(today) ELSE UNCHANGED <<names, made>>
        /\ ~Full
    BY <1>3 DEF WriteLine
  <2>2. /\ st \in Streams /\ st.day = today /\ (Kept(p) => st = stream[p])
        /\ ~Kept(p) => st.open /\ st.file = IF Created(p) THEN made + 1 ELSE names[today][0]
    BY <2>1, StreamEnsured
  <2> HIDE DEF st
  <2>3. stream'[p] = st /\ \A q \in Processes : q # p => stream'[q] = stream[q]
    BY <1>1, <2>1
  <2>4. names[today][0] # 0 => ~Rolls(size[names[today][0]])
    BY <2>1 DEF Full
  <2>5. CASE Created(p)
    <3>1. st.file = made + 1 /\ st.open /\ st.file \in Files
      BY <1>1, <2>1, <2>2, <2>5 DEF Created, Files
    <3>2. names' = [names EXCEPT ![today][0] = st.file] /\ made' = made + 1
      BY <2>1, <2>5, <3>1 DEF MakeFile
    <3>3. size' = [size EXCEPT ![st.file] = @ + 1]
      BY <2>1, <3>1
    <3> QED
      BY <1>1, <2>2, <2>3, <3>1, <3>2, <3>3, LineAdded
  <2>6. CASE ~Created(p)
    <3>1. /\ st.file # 0 /\ st.file <= made
          /\ \A e \in Days : \A i \in Slots : names[e][i] = st.file => e = today
      <4>1. CASE Kept(p)
        BY <2>2, <4>1 DEF Kept, FilesInv, StreamsOfDay
      <4>2. CASE ~Kept(p)
        <5>1. st.file = names[today][0] /\ names[today][0] # 0
          BY <2>2, <2>6, <4>2 DEF Created
        <5> QED
          BY <1>1, <5>1 DEF FilesInv, FilesOfDay, Numbered
      <4> QED
        BY <4>1, <4>2
    <3>2. st.file \in Files
      BY <1>1, <2>2, <3>1 DEF Streams, Files
    <3>3. UNCHANGED <<names, made>>
      BY <2>1, <2>6
    <3>4. names[today][0] = st.file => ~Rolls(size[st.file])
      BY <2>4, <3>1
    <3>5. size' = [size EXCEPT ![st.file] = @ + 1] \/ UNCHANGED size
      BY <2>1
    <3> QED
      BY <1>1, <2>2, <2>3, <3>1, <3>2, <3>3, <3>4, <3>5, LineAdded
  <2> QED
    BY <2>5, <2>6
<1>4. CASE ReopenLog(p)
  <2>1. /\ names' = [names EXCEPT ![stream[p].day][0] = made + 1]
        /\ made' = made + 1 /\ made < MaxLines /\ stream[p].day \in Days
        /\ stream' = [stream EXCEPT ![p] = [stream[p] EXCEPT !.file = made + 1, !.open = TRUE]]
        /\ size' = [size EXCEPT ![made + 1] = @ + 1]
    BY <1>2, <1>4 DEF ReopenLog, MakeFile
  <2>2. /\ stream'[p].file = made + 1 /\ stream'[p].day = stream[p].day
        /\ \A q \in Processes : q # p => stream'[q] = stream[q]
    BY <1>1, <2>1 DEF Streams
  <2>3. made + 1 \in Files
    BY <1>1, <2>1 DEF Files
  <2> QED
    BY <1>1, <2>1, <2>2, <2>3, LineAdded
<1>5. CASE StartRotation(p)
  <2> DEFINE st == Ensured(p)
  <2>1. /\ stream' = [stream EXCEPT ![p] = [st EXCEPT !.open = FALSE]]
        /\ UNCHANGED <<names, size, made>>
        /\ names[today][0] # 0
    BY <1>5 DEF StartRotation, Full
  <2>2. /\ st \in Streams /\ st.day = today /\ (Kept(p) => st = stream[p])
        /\ ~Kept(p) => st.file = names[today][0]
    BY <2>1, StreamEnsured DEF Created
  <2> HIDE DEF st
  <2>3. /\ stream'[p].file = st.file /\ stream'[p].day = st.day
        /\ \A q \in Processes : q # p => stream'[q] = stream[q]
    BY <1>1, <2>1, <2>2 DEF Streams
  <2>4. \A q \in Processes :
           \/ stream'[q].file = stream[q].file /\ stream'[q].day = stream[q].day
           \/ stream'[q].file = names[today][0] /\ stream'[q].day = today
    BY <2>2, <2>3
  <2> QED
    BY <1>1, <2>1, <2>4, FilesKept
<1>6. CASE ShiftName(p)
  <2> DEFINE k == left[p]
             d == stream[p].day
             v == IF Backups = 0 THEN 0 ELSE names[d][k - 1]
  <2>1. /\ names' = [names EXCEPT ![d][k] = v, ![d][k - 1] = 0]
        /\ d \in Days /\ k \in Slots /\ k >= 1
        /\ UNCHANGED <<size, made, stream>>
    BY <1>2, <1>6 DEF ShiftName, RotationsKnown, LogTypeOK
  <2>2. k \in Nat /\ k - 1 \in Slots
    BY <2>1, LogNumbers
  <2> HIDE DEF d, k
  <2>3. /\ \A e \in Days : \A i \in Slots :
              names'[e][i] \in {0, names[e][i]} \/ (names'[e][i] = v /\ e = d)
        /\ \A e \in Days : names'[e][0] \in {0, names[e][0]}
    BY <1>1, <2>1, <2>2
  <2>4. v = 0 \/ v = names[d][k - 1]
    OBVIOUS
  <2> HIDE DEF v
  <2> QED
    BY <2>1, <2>2, <2>3, <2>4, FilesKept
<1>7. CASE \/ FindOverflow(p) \/ DropOverflow(p) \/ FailRotation(p) \/ CloseLog(p)
           \/ ListLogs(p) \/ UnlinkLog(p) \/ PassOver(p) \/ EndSweep(p)
           \/ KillLogger(p) \/ InterruptLogger(p)
  <2>1. /\ names' = names \/ \E e, j : names' = [names EXCEPT ![e][j] = 0]
        /\ UNCHANGED <<size, made>>
        /\ stream' = stream \/ stream' = [stream EXCEPT ![p] = Closed]
    BY <1>7 DEF FindOverflow, DropOverflow, FailRotation, CloseLog, ListLogs, UnlinkLog,
                PassOver, EndSweep, KillLogger, InterruptLogger
  <2>2. \A d \in Days : \A i \in Slots : names'[d][i] = 0 \/ names'[d][i] = names[d][i]
    BY <1>1, <2>1
  <2>3. \A q \in Processes : stream'[q] = stream[q] \/ stream'[q].file = 0
    BY <1>1, <2>1 DEF Closed
  <2> QED
    BY <1>1, <2>1, <2>2, <2>3, FilesKept
<1> QED
  BY <1>3, <1>4, <1>5, <1>6, <1>7 DEF LogStep

\* A rotation starts where none of its day is under way.
LEMMA RotatorStep ==
  ASSUME LogTypeOK, OneRotator, NEW CONSTANT p \in Processes, LogStep(p)
  PROVE  OneRotator'
<1>1. stream \in [Processes -> Streams] /\ DOMAIN at = Processes /\ stream[p] \in Streams
  BY DEF LogTypeOK, Streams
<1>2. CASE StartRotation(p)
  <2>1. /\ stream' = [stream EXCEPT ![p] = [Ensured(p) EXCEPT !.open = FALSE]]
        /\ \E label : at' = [at EXCEPT ![p] = label]
        /\ at[p] = "free" /\ ~Locked(today) /\ ~Created(p)
    BY <1>2 DEF StartRotation, Full, Created
  <2>2. Ensured(p) \in Streams /\ Ensured(p).day = today
    BY <2>1, StreamEnsured
  <2>3. stream'[p].day = today
    BY <1>1, <2>1, <2>2 DEF Streams
  <2>4. \A q \in Processes \ {p} : stream'[q] = stream[q] /\ at'[q] = at[q]
    BY <1>1, <2>1
  <2>5. \A q \in Processes \ {p} : Rotating(q)' => stream'[q].day # today
    BY <2>1, <2>4 DEF Locked, Rotating
  <2> QED
    BY <2>3, <2>4, <2>5 DEF OneRotator, Rotating
<1>3. CASE ~StartRotation(p)
  <2>1. \A q \in Processes \ {p} : stream'[q] = stream[q] /\ at'[q] = at[q]
    BY <1>1, <1>3 DEF LogStep, WriteLine, FindOverflow, DropOverflow, FailRotation,
       ShiftName, ReopenLog, CloseLog, ListLogs, UnlinkLog, PassOver, EndSweep, KillLogger,
       InterruptLogger
  <2>2. Rotating(p)' => Rotating(p) /\ stream'[p].day = stream[p].day
    BY <1>1, <1>3 DEF Rotating, LogStep, WriteLine, FindOverflow, DropOverflow, FailRotation,
       ShiftName, ReopenLog, CloseLog, ListLogs, UnlinkLog, PassOver, EndSweep, KillLogger,
       InterruptLogger
  <2> QED
    BY <2>1, <2>2 DEF OneRotator, Rotating
<1> QED
  BY <1>2, <1>3

\* One more victim is counted by the step that makes it.
LEMMA OneMore ==
  ASSUME VictimsCounted, deleted \in Nat, cuts \in Nat, NEW q,
         \/ Victims' \subseteq Victims /\ deleted' + cuts' = deleted + cuts
         \/ Victims' \subseteq Victims /\ deleted' + cuts' = deleted + cuts + 1
         \/ Victims' \subseteq Victims \cup {q} /\ deleted' + cuts' = deleted + cuts + 1
  PROVE  VictimsCounted'
<1>1. IsFiniteSet(Victims) /\ Cardinality(Victims) \in Nat
      /\ Cardinality(Victims) <= deleted + cuts
  BY FS_CardinalityType DEF VictimsCounted
<1>2. CASE Victims' \subseteq Victims
  <2>1. IsFiniteSet(Victims') /\ Cardinality(Victims') <= Cardinality(Victims)
        /\ Cardinality(Victims') \in Nat
    BY <1>1, <1>2, FS_Subset, FS_CardinalityType
  <2> QED
    BY <1>1, <2>1 DEF VictimsCounted
<1>3. CASE Victims' \subseteq Victims \cup {q} /\ deleted' + cuts' = deleted + cuts + 1
  <2>1. IsFiniteSet(Victims \cup {q}) /\ Cardinality(Victims \cup {q}) <= Cardinality(Victims) + 1
        /\ Cardinality(Victims \cup {q}) \in Nat
    BY <1>1, FS_AddElement, FS_CardinalityType
  <2>2. IsFiniteSet(Victims') /\ Cardinality(Victims') <= Cardinality(Victims \cup {q})
        /\ Cardinality(Victims') \in Nat
    BY <1>3, <2>1, FS_Subset, FS_CardinalityType
  <2> QED
    BY <1>1, <1>3, <2>1, <2>2 DEF VictimsCounted
<1> QED
  BY <1>2, <1>3

\* A process loses its log to a sweep that unlinks the file its rotation has found, or
\* to an interrupt of its rotation; its rotation failing only makes it known, and no
\* other rotation takes part in it.
LEMMA VictimsStep ==
  ASSUME LogInv, NEW CONSTANT p \in Processes, LogStep(p)
  PROVE  VictimsCounted'
<1>1. /\ LogTypeOK /\ RotationsKnown /\ OneRotator /\ VictimsCounted
      /\ stream \in [Processes -> Streams] /\ stream[p] \in Streams
      /\ names \in [Days -> [Slots -> 0 .. MaxLines]]
      /\ DOMAIN at = Processes
      /\ deleted \in Nat /\ cuts \in Nat
      /\ Overflow \in Slots /\ Overflow # 0
  BY LogNumbers DEF LogInv, LogTypeOK, Streams
<1>a. /\ \A q \in Processes :
             q \in Victims <=> \/ /\ at[q] \notin {"find", "drop", "shift", "reopen"}
                                  /\ stream[q].file # 0 /\ ~stream[q].open
                               \/ at[q] = "drop" /\ names[stream[q].day][Overflow] = 0
      /\ \A q \in Processes :
             q \in Victims' <=> \/ /\ at'[q] \notin {"find", "drop", "shift", "reopen"}
                                   /\ stream'[q].file # 0 /\ ~stream'[q].open
                                \/ at'[q] = "drop" /\ names'[stream'[q].day][Overflow] = 0
      /\ Victims' \subseteq Processes
  BY DEF Victims, ShutOut, Rotating
<1>b. \A q \in Processes : at[q] = "drop" => stream[q].day \in Days
  BY <1>1 DEF RotationsKnown, Rotating
\* the others stay where they are, and only the names of a rotation's own day change
<1>c. ASSUME \A q \in Processes \ {p} : stream'[q] = stream[q] /\ at'[q] = at[q],
             \A q \in Processes \ {p} : at[q] = "drop" =>
                names'[stream[q].day][Overflow] = names[stream[q].day][Overflow],
             p \in Victims' => p \in Victims
      PROVE  Victims' \subseteq Victims
  BY <1>a, <1>c
<1>d. ASSUME NEW q \in Processes \ {p}, at[q] = "drop",
             at[p] \in {"find", "drop", "shift", "reopen"}
      PROVE  stream[q].day \in Days /\ stream[p].day \in Days /\ stream[q].day # stream[p].day
  BY <1>1, <1>d DEF RotationsKnown, OneRotator, Rotating
<1>2. CASE WriteLine(p)
  <2>1. /\ at' = at /\ at[p] = "free" /\ stream' = [stream EXCEPT ![p] = Ensured(p)]
        /\ names' = names \/ names' = [names EXCEPT ![today][0] = made + 1]
        /\ Created(p) => made < MaxLines
        /\ UNCHANGED <<deleted, cuts>>
    BY <1>2 DEF WriteLine, MakeFile
  <2>2. (Kept(p) => Ensured(p) = stream[p]) /\ (~Kept(p) => Ensured(p).open)
    BY <1>1, <2>1, StreamEnsured
  <2>3. p \in Victims' => p \in Victims
    BY <1>1, <1>a, <2>1, <2>2
  <2>4. \A q \in Processes \ {p} : at[q] = "drop" =>
           names'[stream[q].day][Overflow] = names[stream[q].day][Overflow]
    BY <1>1, <1>b, <2>1
  <2>5. \A q \in Processes \ {p} : stream'[q] = stream[q] /\ at'[q] = at[q]
    BY <1>1, <2>1
  <2>6. Victims' \subseteq Victims
    BY <1>c, <2>3, <2>4, <2>5
  <2> QED
    BY <1>1, <2>1, <2>6, OneMore
<1>3. CASE StartRotation(p)
  <2>1. /\ \E st : stream' = [stream EXCEPT ![p] = st]
        /\ \E label \in {"shift", "find"} : at' = [at EXCEPT ![p] = label]
        /\ names' = names /\ UNCHANGED <<deleted, cuts>>
    BY <1>3 DEF StartRotation
  <2>2. p \notin Victims' /\ \A q \in Processes \ {p} : stream'[q] = stream[q] /\ at'[q] = at[q]
    BY <1>1, <1>a, <2>1
  <2>3. Victims' \subseteq Victims
    BY <1>c, <2>1, <2>2
  <2> QED
    BY <1>1, <2>1, <2>3, OneMore
<1>4. CASE FindOverflow(p)
  <2>1. /\ at' = [at EXCEPT ![p] = IF names[stream[p].day][Overflow] # 0 THEN "drop"
                                   ELSE PastOverflow(p)]
        /\ PastOverflow(p) \in {"shift", "reopen"}
        /\ UNCHANGED <<stream, names, deleted, cuts>>
    BY <1>4 DEF FindOverflow, PastOverflow
  <2>2. p \notin Victims' /\ \A q \in Processes \ {p} : stream'[q] = stream[q] /\ at'[q] = at[q]
    BY <1>1, <1>a, <2>1
  <2>3. Victims' \subseteq Victims
    BY <1>c, <2>1, <2>2
  <2> QED
    BY <1>1, <2>1, <2>3, OneMore
<1>5. CASE DropOverflow(p) \/ ShiftName(p)
  <2>1. /\ at[p] \in {"drop", "shift"}
        /\ \E label \in {"find", "shift", "reopen"} : at' = [at EXCEPT ![p] = label]
        /\ \/ names' = [names EXCEPT ![stream[p].day][Overflow] = 0]
           \/ \E k, v : names' = [names EXCEPT ![stream[p].day][k] = v,
                                               ![stream[p].day][k - 1] = 0]
        /\ UNCHANGED <<stream, deleted, cuts>>
    <3>1. CASE DropOverflow(p)
      BY <3>1 DEF DropOverflow, PastOverflow
    <3>2. CASE ShiftName(p)
      <4> DEFINE next == CASE left[p] > 1 -> "shift"
                           [] left[p] = 1 /\ Backups = 0 -> "reopen"
                           [] OTHER -> "find"
      <4>1. next \in {"find", "shift", "reopen"}
        OBVIOUS
      <4>2. at' = [at EXCEPT ![p] = next]
        BY <3>2 DEF ShiftName
      <4> HIDE DEF next
      <4> QED
        BY <3>2, <4>1, <4>2 DEF ShiftName
    <3> QED
      BY <1>5, <3>1, <3>2
  <2>2. p \notin Victims' /\ \A q \in Processes \ {p} : stream'[q] = stream[q] /\ at'[q] = at[q]
    BY <1>1, <1>a, <2>1
  <2>3. \A d \in Days : d # stream[p].day => names'[d] = names[d]
    BY <1>1, <2>1
  <2>4. Victims' \subseteq Victims
    BY <1>c, <1>d, <2>1, <2>2, <2>3
  <2> QED
    BY <1>1, <2>1, <2>4, OneMore
<1>6. CASE FailRotation(p)
  <2>1. /\ at[p] = "drop" /\ names[stream[p].day][Overflow] = 0
        /\ at' = [at EXCEPT ![p] = "free"]
        /\ UNCHANGED <<names, stream, deleted, cuts>>
    BY <1>6 DEF FailRotation
  <2>2. p \in Victims /\ \A q \in Processes \ {p} : stream'[q] = stream[q] /\ at'[q] = at[q]
    BY <1>1, <1>a, <2>1
  <2>3. Victims' \subseteq Victims
    BY <1>c, <2>1, <2>2
  <2> QED
    BY <1>1, <2>1, <2>3, OneMore
<1>7. CASE ReopenLog(p)
  <2>1. /\ at' = [at EXCEPT ![p] = "free"]
        /\ stream' = [stream EXCEPT ![p] = [stream[p] EXCEPT !.file = made + 1, !.open = TRUE]]
        /\ names' = [names EXCEPT ![stream[p].day][0] = made + 1]
        /\ UNCHANGED <<deleted, cuts>>
    BY <1>7 DEF ReopenLog, MakeFile
  <2>2. p \notin Victims' /\ \A q \in Processes \ {p} : stream'[q] = stream[q] /\ at'[q] = at[q]
    BY <1>1, <1>a, <2>1 DEF Streams
  <2>3. \A d \in Days : names'[d][Overflow] = names[d][Overflow]
    BY <1>1, <2>1
  <2>4. Victims' \subseteq Victims
    BY <1>b, <1>c, <2>2, <2>3
  <2> QED
    BY <1>1, <2>1, <2>4, OneMore
<1>8. CASE CloseLog(p) \/ KillLogger(p)
  <2>1. /\ at' = [at EXCEPT ![p] = "free"] \/ (at' = at /\ at[p] = "free")
        /\ stream' = [stream EXCEPT ![p] = Closed]
        /\ names' = names /\ deleted' = deleted
        /\ cuts' = cuts \/ cuts' = cuts + 1
    BY <1>8 DEF CloseLog, KillLogger
  <2>2. p \notin Victims' /\ \A q \in Processes \ {p} : stream'[q] = stream[q] /\ at'[q] = at[q]
    BY <1>1, <1>a, <2>1 DEF Closed
  <2>3. Victims' \subseteq Victims
    BY <1>c, <2>1, <2>2
  <2>4. deleted' + cuts' = deleted + cuts \/ deleted' + cuts' = deleted + cuts + 1
    <3>1. deleted + (cuts + 1) = deleted + cuts + 1
      BY <1>1
    <3> QED
      BY <2>1, <3>1
  <2> QED
    BY <1>1, <2>3, <2>4, OneMore
<1>9. CASE ListLogs(p) \/ PassOver(p) \/ EndSweep(p)
  <2>1. /\ at[p] \in {"free", "sweep"}
        /\ \E label \in {"free", "sweep"} : at' = [at EXCEPT ![p] = label]
        /\ UNCHANGED <<stream, names, deleted, cuts>>
    BY <1>1, <1>9 DEF ListLogs, PassOver, EndSweep, LogTypeOK
  <2>2. /\ p \in Victims' => p \in Victims
        /\ \A q \in Processes \ {p} : stream'[q] = stream[q] /\ at'[q] = at[q]
    BY <1>1, <1>a, <2>1
  <2>3. Victims' \subseteq Victims
    BY <1>c, <2>1, <2>2
  <2> QED
    BY <1>1, <2>1, <2>3, OneMore
<1>10. CASE UnlinkLog(p)
  <2>1. PICK n : /\ names' = [names EXCEPT ![n[1]][n[2]] = 0]
                 /\ deleted' = deleted + 1
                 /\ UNCHANGED <<stream, at, cuts>>
    BY <1>10 DEF UnlinkLog
  <2>2. \A d \in Days \ {n[1]} : names'[d] = names[d]
    BY <1>1, <2>1
  <2>3. \A q, r \in Processes :
           at[q] = "drop" /\ at[r] = "drop" /\ stream[q].day = n[1] /\ stream[r].day = n[1]
              => q = r
    BY <1>1 DEF OneRotator, Rotating
  <2>4. \E q : Victims' \subseteq Victims \cup {q}
    <3>1. CASE \E q \in Processes : at[q] = "drop" /\ stream[q].day = n[1]
      <4>1. PICK q \in Processes : at[q] = "drop" /\ stream[q].day = n[1]
        BY <3>1
      <4>2. Victims' \subseteq Victims \cup {q}
        BY <1>a, <1>b, <2>1, <2>2, <2>3, <4>1
      <4> QED
        BY <4>2
    <3>2. CASE ~ \E q \in Processes : at[q] = "drop" /\ stream[q].day = n[1]
      <4>1. Victims' \subseteq Victims
        BY <1>a, <1>b, <2>1, <2>2, <3>2
      <4> QED
        BY <4>1
    <3> QED
      BY <3>1, <3>2
  <2>5. deleted' + cuts' = deleted + cuts + 1
    BY <1>1, <2>1
  <2> QED
    BY <1>1, <2>4, <2>5, OneMore
<1>11. CASE InterruptLogger(p)
  <2>1. /\ at' = [at EXCEPT ![p] = "free"] /\ cuts' = cuts + 1
        /\ UNCHANGED <<stream, names, deleted>>
    BY <1>11 DEF InterruptLogger
  <2>2. Victims' \subseteq Victims \cup {p}
    BY <1>1, <1>a, <2>1
  <2>3. deleted' + cuts' = deleted + cuts + 1
    BY <1>1, <2>1
  <2> QED
    BY <1>1, <2>2, <2>3, OneMore
<1> QED
  BY <1>2, <1>3, <1>4, <1>5, <1>6, <1>7, <1>8, <1>9, <1>10, <1>11 DEF LogStep

LEMMA LogInductive == ASSUME LogInv, [LogNext]_logVars PROVE LogInv'
<1>1. ASSUME NEW p \in Processes, LogStep(p) PROVE LogInv'
  <2>1. FilesInv
    BY DEF LogInv, FilesInv
  <2> QED
    BY <1>1, <2>1, LogTypesStep, FilesStep, RotatorStep, VictimsStep DEF LogInv, FilesInv
<1>2. CASE NextDay
  <2>1. today' \in Days /\ UNCHANGED <<names, size, made, stream, written, at, left, doomed,
                                       deleted, cuts>>
    BY <1>2, LogAssumption DEF NextDay, LogInv, LogTypeOK, Days
  <2>2. Victims' = Victims
    BY <2>1 DEF Victims, ShutOut, Rotating
  <2> QED
    BY <2>1, <2>2 DEF LogInv, LogTypeOK, RotationsKnown, OneRotator, Rotating, Numbered,
       FilesOfDay, StreamsOfDay, ActiveFileBounded, VictimsCounted
<1>3. CASE UNCHANGED logVars
  <2>1. Victims' = Victims
    BY <1>3 DEF logVars, Victims, ShutOut, Rotating
  <2> QED
    BY <1>3, <2>1 DEF logVars, LogInv, LogTypeOK, RotationsKnown, OneRotator, Rotating,
       Numbered, FilesOfDay, StreamsOfDay, ActiveFileBounded, VictimsCounted
<1> QED
  BY <1>1, <1>2, <1>3 DEF LogNext

LEMMA LogCorrect == LogSpec => []LogInv
<1>1. LogInit => LogInv
  BY LogStart
<1>2. LogInv /\ [LogNext]_logVars => LogInv'
  BY LogInductive
<1> QED
  BY <1>1, <1>2, PTL DEF LogSpec

\* The active file of a day stays within the limit for any number of processes, days
\* and backups, although processes whose file was rolled away judge it by a file they
\* do not write to (DailySizeRotatingFileHandler._maybe_roll_by_size).
THEOREM ActiveFileBoundedCorrect == LogSpec => []ActiveFileBounded
<1>1. LogInv => ActiveFileBounded
  BY DEF LogInv
<1> QED
  BY <1>1, LogCorrect, PTL

\* The processes that have lost their log, their rotation having failed halfway, are
\* never more than the files that sweeps have unlinked and the processes that were
\* interrupted: two rotations never do it to each other, and neither does what an
\* earlier one has left behind (emit, _rotate_size, sweep_logs).
THEOREM LossesHaveACauseCorrect == LogSpec => []LossesHaveACause
<1>1. LogInv => LossesHaveACause
  <2> SUFFICES ASSUME LogInv PROVE Cardinality(ShutOut) <= deleted + cuts
    BY DEF LossesHaveACause
  <2>1. ShutOut \subseteq Victims /\ IsFiniteSet(Victims)
        /\ Cardinality(Victims) <= deleted + cuts /\ deleted + cuts \in Nat
    BY DEF Victims, LogInv, VictimsCounted, LogTypeOK
  <2>2. IsFiniteSet(ShutOut) /\ Cardinality(ShutOut) <= Cardinality(Victims)
    BY <2>1, FS_Subset
  <2> QED
    BY <2>1, <2>2, FS_CardinalityType
<1> QED
  BY <1>1, LogCorrect, PTL

=============================================================================
