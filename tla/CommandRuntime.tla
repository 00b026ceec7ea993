--------------------------- MODULE CommandRuntime ---------------------------
(***************************************************************************)
(* One process of the command line, from the bootstrap of its container to *)
(* its exit code: orchestrator.run_with_report and run_without_report, the *)
(* resources of the container, the events a handler sends to the report,   *)
(* and the result that decides report status, ledger status and exit code. *)
(*                                                                         *)
(* The rows a handler sees and the point where anything fails are chosen   *)
(* freely; a keyboard interrupt may fall between any two steps.            *)
(***************************************************************************)
EXTENDS Naturals, Sequences

CONSTANTS
    Commands,        \* the commands an instance looks at, part of CommandTable
    MaxRows,         \* bound on the rows or plan items of one command
    MaxInterrupts    \* bound on the keyboard interrupts of one command

VARIABLES
    cmd,             \* the command, a record of CommandTable
    phase,           \* where run_with_report / run_without_report is
    todo,            \* resources still to initialise
    result,          \* exit_result
    opened,          \* resources whose initialiser has yielded
    broken,          \* resources, and the logging, whose own shutdown failed or was skipped
    closing,         \* subcontainers still to shut down
    run,             \* what the handler has counted: rows, passed, failed, codes ...
    rep,             \* the report context: counters, explicit status, finished
    disk,            \* what the run leaves: report file, ledger status, plan file
    env,             \* captured streams, bound log context, open log runtime
    interrupts,      \* keyboard interrupts so far
    cut,             \* how far an interrupt fell into the finally blocks
    exit             \* exit code of the process

vars == <<cmd, phase, todo, result, opened, broken, closing, run, rep, disk, env,
          interrupts, cut, exit>>

-----------------------------------------------------------------------------
(* Commands *)

CacheReady == <<"cache", "identity", "gateway">>

\* A command: what its handler feeds to the report, whether every exception of
\* its work is caught by the handler itself, and the resources it requires.
Cmd(name, feeds, guarded, needs) ==
    [name |-> name, feeds |-> feeds, guarded |-> guarded, needs |-> needs]

PipelineCommands ==
    {Cmd(n, "rows", FALSE, CacheReady) : n \in {"mapping", "match", "normalize", "resolve"}}
        \cup {Cmd("enrich", "rows", FALSE, Append(CacheReady, "dictionary"))}

ImportCommands ==
    {Cmd("import-plan", "plan", TRUE, Append(CacheReady, "dictionary")),
     Cmd("import-apply", "apply", FALSE, Append(CacheReady, "target"))}

CacheCommands ==
    {Cmd("cache-refresh", "rows", TRUE, Append(CacheReady, "target")),
     Cmd("cache-status", "none", FALSE, CacheReady),
     Cmd("cache-clear", "none", FALSE, CacheReady),
     Cmd("check-api", "none", FALSE, <<"target">>)}

VaultCommands ==
    {Cmd(n, "none", TRUE, <<"vault">>) :
        n \in {"vault-management-init", "vault-management-status",
               "vault-management-rotate", "vault-management-rewrap"}}

MaintenanceCommands ==
    {Cmd(n, "none", FALSE, <<>>) : n \in {"maintenance-prune", "obs-latest", "obs-tail"}}

CommandTable == PipelineCommands \cup ImportCommands \cup CacheCommands
                    \cup VaultCommands \cup MaintenanceCommands

ASSUME CommandsAssumption == Commands \subseteq CommandTable
ASSUME BoundsAssumption == MaxRows \in Nat /\ MaxInterrupts \in Nat

Reported(c) == c \notin VaultCommands

TopologyCommands == {"mapping", "normalize", "enrich", "match", "resolve", "import-plan"}

Resources == {"cache", "identity", "gateway", "vault", "target", "dictionary"}

\* The subcontainer that owns a resource.
Owner(r) == CASE r = "target" -> "target"
              [] r = "dictionary" -> "dictionary"
              [] r = "gateway" -> "cache"
              [] OTHER -> "sqlite"

\* (mutant) the dictionaries are opened and not closed.
ShutdownWithoutDictionary == <<"target", "cache", "sqlite">>

ShutdownOrder == <<"target", "dictionary", "cache", "sqlite">>

-----------------------------------------------------------------------------
(* Results and exit codes *)

\* Codes by the rank resolve_primary_code gives them: the fatal ones, invalid
\* data, conflicts, then the rest by name.
CodeRank == <<"INTERNAL_ERROR", "AUTH_UNAUTHORIZED", "AUTH_FORBIDDEN", "DATA_INVALID",
              "CONFLICT", "CACHE_ERROR", "INFRA_TIMEOUT", "INFRA_UNAVAILABLE",
              "IO_ERROR", "OK", "UNKNOWN_CODE">>

Codes == {CodeRank[i] : i \in DOMAIN CodeRank}

PrimaryCode(codes) ==
    IF codes = {} THEN "OK"
    ELSE CodeRank[CHOOSE i \in DOMAIN CodeRank :
                     CodeRank[i] \in codes /\ \A j \in 1 .. i - 1 : CodeRank[j] \notin codes]

ExitCode(codes) ==
    CASE PrimaryCode(codes) = "OK" -> "0"
      [] PrimaryCode(codes) \in {"DATA_INVALID", "CONFLICT"} -> "1"
      [] OTHER -> "2"

NoResult == [codes |-> {}, diagnostics |-> "absent"]

Result(codes) == [codes |-> codes, diagnostics |-> "none"]
Diagnosed(code) == [codes |-> {code}, diagnostics |-> "error"]

IsOk(res) == res.codes \subseteq {"OK"}

ExitOf(res) == IF res = NoResult THEN "0" ELSE ExitCode(res.codes)

-----------------------------------------------------------------------------
(* The report context *)

NewReport == [passed |-> 0, blocked |-> 0, errors |-> 0, status |-> "unset"]

DeriveStatus(r) ==
    CASE r.blocked = 0 -> "SUCCESS"
      [] r.blocked > 0 /\ r.passed > 0 -> "PARTIAL"
      [] OTHER -> "FAILED"

Status(r) == IF r.status = "unset" THEN DeriveStatus(r) ELSE r.status

\* AddItemEvent: an aggregated item only adds its diagnostics.
AddItem(r, status, errors, preaggregated) ==
    [r EXCEPT !.passed = @ + (IF status = "OK" /\ ~preaggregated THEN 1 ELSE 0),
              !.blocked = @ + (IF status = "FAILED" /\ ~preaggregated THEN 1 ELSE 0),
              !.errors = @ + errors]

SetCounters(r, passed, blocked) == [r EXCEPT !.passed = passed, !.blocked = blocked]

\* ApplyReportPresenter.present: counters, diagnostics of the items, explicit status.
PresentApply(r, passed, failed) ==
    [r EXCEPT !.passed = passed, !.blocked = failed, !.errors = failed,
              !.status = DeriveStatus([r EXCEPT !.passed = passed, !.blocked = failed])]

\* A result without diagnostics gets a synthetic one, unless the report shows
\* a failure already.
NeedsSynthetic(r, secondary) == secondary \/ (r.blocked = 0 /\ r.errors = 0)

\* (mutant) only results that carry diagnostics reach the report.
ApplyDiagnosedOnly(r, res, secondary) ==
    CASE res.diagnostics # "error" -> r
      [] res.diagnostics = "error" /\ secondary -> AddItem(r, "OK", 0, FALSE)
      [] OTHER -> AddItem(r, "FAILED", 1, FALSE)

\* apply_runtime_result_to_report: an error of a secondary result is a warning.
ApplyResult(r, res, secondary) ==
    LET hasError == \/ res.diagnostics = "error"
                    \/ res.diagnostics = "none" /\ ~IsOk(res) /\ NeedsSynthetic(r, secondary)
    IN  CASE ~hasError -> r
          [] hasError /\ secondary -> AddItem(r, "OK", 0, FALSE)
          [] OTHER -> AddItem(r, "FAILED", 1, FALSE)

-----------------------------------------------------------------------------
(* The body of the try block *)

Init ==
    /\ cmd \in Commands
    /\ phase = "boot"
    /\ todo = cmd.needs
    /\ result = NoResult
    /\ opened = {} /\ broken = {}
    /\ closing = <<>>
    /\ run = [rows |-> 0, passed |-> 0, failed |-> 0, expired |-> FALSE, codes |-> {}]
    /\ rep = NewReport
    /\ disk = [report |-> "absent", ledger |-> "absent", plan |-> FALSE]
    /\ env = [container |-> FALSE, captured |-> FALSE, bound |-> FALSE, logging |-> FALSE]
    /\ interrupts = 0
    /\ cut = "no"
    /\ exit = "running"

\* The body has a result, still to be put into the report.
Settle(res) ==
    /\ result' = res
    /\ phase' = "apply"

\* An exception that the body's own except clauses turn into a result.
Raised == \E code \in {"INTERNAL_ERROR", "DATA_INVALID"} : Settle(Diagnosed(code))

\* Create the container, open the log runtime, bind the context, sweep (a
\* failure of which is swallowed) and capture the streams.
Bootstrap ==
    /\ phase = "boot"
    /\ env' = [container |-> TRUE, captured |-> TRUE, bound |-> TRUE, logging |-> TRUE]
    /\ phase' = "validate"
    /\ UNCHANGED <<cmd, todo, result, opened, broken, closing, run, rep, disk, interrupts,
                   cut, exit>>

\* What a bootstrap that breaks off leaves, from container to captured streams.
HalfBooted ==
    {e \in [container : BOOLEAN, logging : BOOLEAN, bound : BOOLEAN, captured : BOOLEAN] :
        /\ e.captured => e.bound
        /\ e.bound => e.logging
        /\ e.logging => e.container}

\* The container, the log runtime or what is made of them cannot be built; the
\* streams are captured last.
BootstrapFails ==
    /\ phase = "boot"
    /\ \E e \in HalfBooted : ~e.captured /\ env' = e
    /\ Settle(Diagnosed("INTERNAL_ERROR"))
    /\ UNCHANGED <<cmd, todo, opened, broken, closing, run, rep, disk, interrupts, cut, exit>>

\* validate_requirements: API settings, dataset, source, cache directory.
Validate ==
    /\ phase = "validate"
    /\ \/ phase' = "init" /\ UNCHANGED result
       \/ Settle(Diagnosed("INTERNAL_ERROR"))
    /\ UNCHANGED <<cmd, todo, opened, broken, closing, run, rep, disk, env, interrupts,
                   cut, exit>>

\* Initialise the next required resource, in the order of
\* _init_container_for_requirements.
InitResource ==
    /\ phase = "init" /\ todo # <<>>
    /\ opened' = opened \cup {Head(todo)}
    /\ todo' = Tail(todo)
    /\ UNCHANGED <<cmd, phase, result, broken, closing, run, rep, disk, env, interrupts,
                   cut, exit>>

\* An initialiser raises: initialize_container_resources returns a result, and
\* lets a DSL error through to the except clauses.
InitFails ==
    /\ phase = "init" /\ todo # <<>>
    /\ \/ \E code \in {"CACHE_ERROR", "INTERNAL_ERROR"} : Settle(Result({code}))
       \/ Raised
    /\ UNCHANGED <<cmd, todo, opened, broken, closing, run, rep, disk, env, interrupts,
                   cut, exit>>

InitDone ==
    /\ phase = "init" /\ todo = <<>>
    /\ phase' = IF cmd.name \in TopologyCommands THEN "topology" ELSE "handler"
    /\ UNCHANGED <<cmd, todo, result, opened, broken, closing, run, rep, disk, env,
                   interrupts, cut, exit>>

\* The topology step: inactive, skipped or built; a disabled capability, a
\* configuration error or errors of the build end the command.
TopologyStep ==
    /\ phase = "topology"
    /\ \/ phase' = "handler" /\ UNCHANGED result
       \/ Raised
    /\ UNCHANGED <<cmd, todo, opened, broken, closing, run, rep, disk, env, interrupts,
                   cut, exit>>

-----------------------------------------------------------------------------
(* The handler *)

VaultUsers == {"enrich", "import-plan", "import-apply"}

\* A handler that needs secrets opens the vault before it touches a row.
OpenVault ==
    /\ phase = "handler" /\ run.rows = 0
    /\ cmd.name \in VaultUsers /\ "vault" \notin opened
    /\ opened' = opened \cup {"vault"}
    /\ UNCHANGED <<cmd, phase, todo, result, broken, closing, run, rep, disk, env,
                   interrupts, cut, exit>>

\* StageResultReporter.process, or an item of a cache refresh: a failed row may
\* come without an error of the reported stage.
ReportRow ==
    /\ phase = "handler" /\ cmd.feeds = "rows" /\ run.rows < MaxRows
    /\ \/ /\ run' = [run EXCEPT !.rows = @ + 1, !.passed = @ + 1]
          /\ rep' = AddItem(rep, "OK", 0, FALSE)
       \/ /\ run' = [run EXCEPT !.rows = @ + 1, !.failed = @ + 1]
          /\ \E errors \in 0 .. 1 : rep' = AddItem(rep, "FAILED", errors, FALSE)
    /\ UNCHANGED <<cmd, phase, todo, result, opened, broken, closing, disk, env,
                   interrupts, cut, exit>>

\* An expired pending link is reported as a failed item beside the rows.
ReportExpired ==
    /\ phase = "handler" /\ cmd.name = "resolve" /\ run.rows < MaxRows
    /\ run' = [run EXCEPT !.rows = @ + 1, !.expired = TRUE]
    /\ rep' = AddItem(rep, "FAILED", 1, FALSE)
    /\ UNCHANGED <<cmd, phase, todo, result, opened, broken, closing, disk, env,
                   interrupts, cut, exit>>

\* StageCommandResultResolver: a conflict beside the code of the rows.
StageDone ==
    /\ phase = "handler" /\ cmd.feeds = "rows"
    /\ LET conflict == \/ cmd.name \in {"match", "resolve"} /\ run.failed > 0
                       \/ run.expired
       IN  Settle(Result({IF run.failed > 0 THEN "DATA_INVALID" ELSE "OK"}
                            \cup (IF conflict THEN {"CONFLICT"} ELSE {})))
    /\ UNCHANGED <<cmd, todo, opened, broken, closing, run, rep, disk, env, interrupts,
                   cut, exit>>

\* PlanBuilder.build_from_stream and its callbacks: a failed row is an item that
\* is counted only with the final counters, a skipped one counts for neither.
PlanRow ==
    /\ phase = "handler" /\ cmd.feeds = "plan" /\ run.rows < MaxRows
    /\ \/ run' = [run EXCEPT !.rows = @ + 1, !.passed = @ + 1] /\ UNCHANGED rep
       \/ run' = [run EXCEPT !.rows = @ + 1] /\ rep' = AddItem(rep, "SKIPPED", 0, TRUE)
       \/ /\ run' = [run EXCEPT !.rows = @ + 1, !.failed = @ + 1]
          /\ \E errors \in 0 .. 1 : rep' = AddItem(rep, "FAILED", errors, TRUE)
    /\ UNCHANGED <<cmd, phase, todo, result, opened, broken, closing, disk, env,
                   interrupts, cut, exit>>

\* The stream ends: the counters of the plan become those of the report.
PlanBuilt ==
    /\ phase = "handler" /\ cmd.feeds = "plan"
    /\ rep' = SetCounters(rep, run.passed, run.failed)
    /\ phase' = "planned"
    /\ UNCHANGED <<cmd, todo, result, opened, broken, closing, run, disk, env, interrupts,
                   cut, exit>>

\* The plan file is written and its path remembered for the ledger.
WritePlan ==
    /\ phase = "planned" /\ ~disk.plan
    /\ disk' = [disk EXCEPT !.plan = TRUE]
    /\ UNCHANGED <<cmd, phase, todo, result, opened, broken, closing, run, rep, env,
                   interrupts, cut, exit>>

PlanDone ==
    /\ phase = "planned" /\ disk.plan
    /\ Settle(Result({"OK"}))
    /\ UNCHANGED <<cmd, todo, opened, broken, closing, run, rep, disk, env, interrupts,
                   cut, exit>>

\* One plan item of ImportApplyService.apply_plan, with the code of its failure.
ApplyItem ==
    /\ phase = "handler" /\ cmd.feeds = "apply" /\ run.rows < MaxRows
    /\ \/ run' = [run EXCEPT !.rows = @ + 1, !.passed = @ + 1]
       \/ \E code \in {"DATA_INVALID", "CONFLICT", "AUTH_FORBIDDEN", "INFRA_UNAVAILABLE"} :
            run' = [run EXCEPT !.rows = @ + 1, !.failed = @ + 1, !.codes = @ \cup {code}]
    /\ UNCHANGED <<cmd, phase, todo, result, opened, broken, closing, rep, disk, env,
                   interrupts, cut, exit>>

ApplyDone ==
    /\ phase = "handler" /\ cmd.feeds = "apply"
    /\ rep' = PresentApply(rep, run.passed, run.failed)
    /\ Settle(Result(IF run.codes = {} THEN {"OK"} ELSE run.codes))
    /\ UNCHANGED <<cmd, todo, opened, broken, closing, run, disk, env, interrupts, cut, exit>>

PlainDone ==
    /\ phase = "handler" /\ cmd.feeds = "none"
    /\ Settle(Result({"OK"}))
    /\ UNCHANGED <<cmd, todo, opened, broken, closing, run, rep, disk, env, interrupts,
                   cut, exit>>

\* Failures a handler answers with a bare code.
FailureCodes ==
    CASE cmd.feeds = "plan" -> {"INTERNAL_ERROR", "CACHE_ERROR"}
      [] cmd.feeds = "rows" ->
            IF cmd.guarded \/ cmd.name \in VaultUsers THEN {"INTERNAL_ERROR", "CACHE_ERROR"}
                                                 ELSE {"CACHE_ERROR"}
      [] cmd.feeds = "apply" -> IF run.rows = 0 THEN {"IO_ERROR", "INTERNAL_ERROR"} ELSE {}
      [] cmd \in VaultCommands -> {"DATA_INVALID", "AUTH_FORBIDDEN", "INTERNAL_ERROR"}
      [] cmd \in MaintenanceCommands -> {"IO_ERROR"}
      [] cmd.name = "check-api" -> {"AUTH_UNAUTHORIZED", "INFRA_UNAVAILABLE", "INFRA_TIMEOUT"}
      [] OTHER -> {"CACHE_ERROR"}

HandlerFails ==
    /\ phase \in {"handler", "planned"}
    /\ \E code \in FailureCodes : Settle(Result({code}))
    /\ UNCHANGED <<cmd, todo, opened, broken, closing, run, rep, disk, env, interrupts,
                   cut, exit>>

HandlerRaises ==
    /\ phase = "handler" /\ ~cmd.guarded
    /\ Raised
    /\ UNCHANGED <<cmd, todo, opened, broken, closing, run, rep, disk, env, interrupts,
                   cut, exit>>

\* apply_result_to_report; without a report there is nothing to do.
ApplyToReport ==
    /\ phase = "apply"
    /\ rep' = IF Reported(cmd) THEN ApplyResult(rep, result, FALSE) ELSE rep
    /\ phase' = "restore"
    /\ UNCHANGED <<cmd, todo, result, opened, broken, closing, run, disk, env, interrupts,
                   cut, exit>>

-----------------------------------------------------------------------------
(* The finally block *)

\* A failure of the finally block is secondary as soon as there is a result.
Absorb(failure) ==
    /\ result' = IF result = NoResult THEN failure ELSE result
    /\ rep' = IF Reported(cmd) THEN ApplyResult(rep, failure, result # NoResult) ELSE rep

RestoreStreams ==
    /\ phase = "restore"
    /\ env' = [env EXCEPT !.captured = FALSE]
    /\ closing' = IF env.container THEN ShutdownOrder ELSE <<>>
    /\ phase' = "shutdown"
    /\ UNCHANGED <<cmd, todo, result, opened, broken, run, rep, disk, interrupts, cut, exit>>

\* shutdown_resources of one subcontainer: a resource that fails to close takes
\* along those of its subcontainer that were still to be closed.
ShutdownContainer ==
    /\ phase = "shutdown" /\ closing # <<>>
    /\ LET own == {r \in opened : Owner(r) = Head(closing)}
       IN  \/ opened' = opened \ own /\ UNCHANGED broken
           \/ \E failing \in own : \E closed \in SUBSET (own \ {failing}) :
                  /\ opened' = opened \ closed
                  /\ broken' = broken \cup (own \ closed)
    /\ closing' = Tail(closing)
    /\ UNCHANGED <<cmd, phase, todo, result, run, rep, disk, env, interrupts, cut, exit>>

ShutdownDone ==
    /\ phase = "shutdown" /\ closing = <<>>
    /\ IF broken = {} THEN UNCHANGED <<result, rep>>
                      ELSE Absorb(Result({"INTERNAL_ERROR"}))
    /\ phase' = IF Reported(cmd) THEN "finalize" ELSE "ledger"
    /\ UNCHANGED <<cmd, todo, opened, broken, closing, run, disk, env, interrupts, cut, exit>>

\* FinishEvent fixes the status unless a presenter has set one.
Finish(r) == [r EXCEPT !.status = Status(r)]

Finalize ==
    /\ phase = "finalize"
    /\ rep' = Finish(rep)
    /\ disk' = [disk EXCEPT !.report = Status(rep)]
    /\ phase' = "ledger"
    /\ UNCHANGED <<cmd, todo, result, opened, broken, closing, run, env, interrupts, cut, exit>>

\* The report cannot be finished or rendered: no file.
FinalizeFails ==
    /\ phase = "finalize"
    /\ LET failure == Result({"INTERNAL_ERROR"})
       IN  /\ result' = IF result = NoResult THEN failure ELSE result
           /\ \E finished \in BOOLEAN :
                rep' = ApplyResult(IF finished THEN Finish(rep) ELSE rep, failure,
                                   result # NoResult)
    /\ phase' = "ledger"
    /\ UNCHANGED <<cmd, todo, opened, broken, closing, run, disk, env, interrupts, cut, exit>>

\* (mutant) the ledger takes the status of the report whenever there is one.
LedgerFromReport ==
    CASE Reported(cmd) -> Status(rep)
      [] result # NoResult -> IF ExitOf(result) = "0" THEN "SUCCESS" ELSE "FAILED"
      [] OTHER -> "SUCCESS"

\* _resolve_ledger_status
LedgerStatus ==
    CASE result # NoResult -> IF ExitOf(result) = "0" THEN "SUCCESS" ELSE "FAILED"
      [] result = NoResult /\ Reported(cmd) -> Status(rep)
      [] OTHER -> "SUCCESS"

\* The record is written if there is a container, the ledger is enabled and the
\* append does not fail; the run goes on either way.
RecordLedger ==
    /\ phase = "ledger"
    /\ \/ UNCHANGED disk
       \/ env.container /\ disk' = [disk EXCEPT !.ledger = LedgerStatus]
    /\ phase' = "close"
    /\ UNCHANGED <<cmd, todo, result, opened, broken, closing, run, rep, env, interrupts,
                   cut, exit>>

\* (mutant) a shutdown that fails leaves the context as it is.
CloseAll ==
    /\ phase = "close"
    /\ \/ env' = [env EXCEPT !.logging = FALSE] /\ phase' = "clear" /\ UNCHANGED broken
       \/ /\ env.logging /\ broken' = broken \cup {"logging"}
          /\ phase' = "exit" /\ UNCHANGED env
    /\ UNCHANGED <<cmd, todo, result, opened, closing, run, rep, disk, interrupts, cut, exit>>

\* close_observability_runtime: a shutdown that raises is swallowed, as there is
\* nowhere left to log it.
CloseObservability ==
    /\ phase = "close"
    /\ \/ env' = [env EXCEPT !.logging = FALSE] /\ UNCHANGED broken
       \/ env.logging /\ broken' = broken \cup {"logging"} /\ UNCHANGED env
    /\ phase' = "clear"
    /\ UNCHANGED <<cmd, todo, result, opened, closing, run, rep, disk, interrupts, cut, exit>>

\* clear_observability_context
ClearContext ==
    /\ phase = "clear"
    /\ env' = [env EXCEPT !.bound = FALSE]
    /\ phase' = "exit"
    /\ UNCHANGED <<cmd, todo, result, opened, broken, closing, run, rep, disk, interrupts,
                   cut, exit>>

\* A result raises typer.Exit with its code, also over an interrupt of the body;
\* an interrupt of the finally block goes on.
ExitProcess ==
    /\ phase = "exit"
    /\ exit' = CASE cut # "no" -> "interrupted"
                 [] cut = "no" /\ result # NoResult -> ExitOf(result)
                 [] OTHER -> IF interrupts > 0 THEN "interrupted" ELSE "0"
    /\ phase' = "done"
    /\ UNCHANGED <<cmd, todo, result, opened, broken, closing, run, rep, disk, env,
                   interrupts, cut>>

BodyPhases == {"boot", "validate", "init", "topology", "handler", "planned", "apply"}
FinallyPhases == {"restore", "shutdown", "finalize", "ledger"}
ClosingPhases == {"close", "clear", "exit"}

\* KeyboardInterrupt is no Exception: no except clause sees it.  The body goes on
\* to its finally block, that block to the inner one that closes the logging, and
\* out of the inner one there is nothing more to run.
Interrupt ==
    /\ interrupts < MaxInterrupts
    /\ interrupts' = interrupts + 1
    /\ \/ /\ phase \in BodyPhases /\ phase' = "restore" /\ UNCHANGED cut
          /\ IF phase = "boot" THEN env' \in HalfBooted ELSE UNCHANGED env
       \/ phase \in FinallyPhases /\ phase' = "close" /\ cut' = "finally" /\ UNCHANGED env
       \/ phase \in ClosingPhases /\ phase' = "exit" /\ cut' = "closing" /\ UNCHANGED env
    /\ UNCHANGED <<cmd, todo, result, opened, broken, closing, run, rep, disk, exit>>

Step ==
    \/ Bootstrap \/ BootstrapFails \/ Validate \/ InitResource \/ InitFails \/ InitDone
    \/ TopologyStep \/ OpenVault
    \/ ReportRow \/ ReportExpired \/ StageDone \/ PlanRow \/ PlanBuilt \/ WritePlan \/ PlanDone
    \/ ApplyItem \/ ApplyDone \/ PlainDone \/ HandlerFails \/ HandlerRaises \/ ApplyToReport
    \/ RestoreStreams \/ ShutdownContainer \/ ShutdownDone \/ Finalize \/ FinalizeFails
    \/ RecordLedger \/ CloseObservability \/ ClearContext \/ ExitProcess

Next == Step \/ Interrupt

Spec == Init /\ [][Next]_vars

-----------------------------------------------------------------------------
(* Properties *)

Phases == {"boot", "validate", "init", "topology", "handler", "planned", "apply", "restore",
           "shutdown", "finalize", "ledger", "close", "clear", "exit", "done"}

\* The state of one run_with_report / run_without_report call.
TypeOK ==
    /\ cmd \in CommandTable
    /\ phase \in Phases
    /\ todo \in Seq(Resources)
    /\ result \in [codes : SUBSET Codes, diagnostics : {"absent", "none", "error"}]
    /\ opened \subseteq Resources /\ broken \subseteq Resources \cup {"logging"}
    /\ closing \in Seq({"target", "dictionary", "cache", "sqlite"})
    /\ run \in [rows : Nat, passed : Nat, failed : Nat, expired : BOOLEAN, codes : SUBSET Codes]
    /\ rep \in [passed : Nat, blocked : Nat, errors : Nat,
                status : {"unset", "SUCCESS", "PARTIAL", "FAILED"}]
    /\ disk \in [report : {"absent", "SUCCESS", "PARTIAL", "FAILED"},
                 ledger : {"absent", "SUCCESS", "PARTIAL", "FAILED"}, plan : BOOLEAN]
    /\ env \in [container : BOOLEAN, captured : BOOLEAN, bound : BOOLEAN, logging : BOOLEAN]
    /\ interrupts \in Nat
    /\ cut \in {"no", "finally", "closing"}
    /\ exit \in {"running", "interrupted", "0", "1", "2"}

\* The run ledger and the shell are told the same: the record of a run that
\* nobody interrupted says SUCCESS exactly when the exit code is 0
\* (_resolve_ledger_status, written before the exit code is raised).
ExitAgreesWithLedger ==
    phase = "done" /\ interrupts = 0 /\ disk.ledger # "absent"
        => (disk.ledger = "SUCCESS" <=> exit = "0")

\* A run that fails without interrupt and still writes a report writes one that
\* shows the failure. The exceptions are an import-plan whose rows had failed
\* before the planner broke off: its rows enter the counters only at the end
\* of the stream and their diagnostics suppress the synthetic item
\* (result_mapper.py:229).
FailureReachesReport ==
    phase = "done" /\ interrupts = 0 /\ exit # "0" /\ disk.report = "SUCCESS"
        => cmd.feeds = "plan" /\ ~disk.plan /\ rep.errors > 0

\* What the finally blocks are for, whatever failed and wherever an interrupt
\* fell: unless one fell into them, a process that ends has restored its streams,
\* and of its resources only those of a subcontainer whose own shutdown failed
\* are still open; unless one fell into the closing of the logging itself, the
\* log context is cleared, and the log runtime open only if its shutdown failed.
NothingLeftOpen ==
    phase = "done"
        => /\ cut = "no" => ~env.captured /\ opened \subseteq broken
           /\ cut # "closing" => ~env.bound /\ (env.logging => "logging" \in broken)

\* The first result is the one the exit code is computed from: failures of
\* shutdown and of the report writer never replace it
\* (report-delivery.md:652, the secondary flag of apply_result_to_report).
PrimaryResultSurvives == [][result # NoResult => result' = result]_vars

=============================================================================
