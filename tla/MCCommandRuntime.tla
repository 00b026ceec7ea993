-------------------------- MODULE MCCommandRuntime --------------------------
(* Instances of CommandRuntime for TLC.                                      *)
EXTENDS CommandRuntime

\* One command of each way to feed the report, with all kinds of resources.
Representatives ==
    {c \in CommandTable : c.name \in {"import-plan", "import-apply", "resolve", "enrich",
                                       "cache-refresh", "check-api",
                                       "vault-management-rotate", "maintenance-prune"}}

=============================================================================
