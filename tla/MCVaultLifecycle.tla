-------------------------- MODULE MCVaultLifecycle --------------------------
(* VaultLifecycle for TLC: the devices are interchangeable. *)
EXTENDS VaultLifecycle, TLC

Symmetry == Permutations(Device)
=============================================================================
