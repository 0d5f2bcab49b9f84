---------------------------- MODULE MCVaultScan ----------------------------
(* VaultScan for TLC. *)
EXTENDS VaultScan, TLC

(* Bound: reads overlap the last command only, the ones before it build what is read. *)
ReadLast == cmds < MaxCmds => rd.pc = "idle"

Symmetry == Permutations(Device) \cup Permutations(Name)
=============================================================================
