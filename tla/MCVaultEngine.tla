--------------------------- MODULE MCVaultEngine ---------------------------
(* VaultEngine and the versions its commits stand for, for TLC. *)
EXTENDS VaultVersions, TLC

Symmetry == Permutations(Device) \cup Permutations(Name)
=============================================================================
