----------------------------- MODULE Retention ------------------------------
(***************************************************************************)
(* What the processes of one component and its retention sweeps share:     *)
(* ObservabilityRetentionSweeper and the settings it is called with.       *)
(***************************************************************************)
EXTENDS Naturals

CONSTANTS
    Processes,         \* processes that may run at the same time
    RetentionDays      \* retention_days of the log, and of the ledger beside it

ASSUME RetentionAssumption == RetentionDays \in Nat

\* _delete_expired_files: the day of a name is strictly before the cutoff.
BeforeCutoff(day, today, days) == day + days < today

=============================================================================
