-------------------------- MODULE MCVaultLifecycle --------------------------
(* Instances of VaultLifecycle for TLC.                                     *)
EXTENDS VaultLifecycle, TLC

Processes == Permutations(Procs)
=============================================================================
