--------------------------- MODULE VaultVersions ---------------------------
(***************************************************************************)
(* The version of the vault a commit stands for: the paths that resolve    *)
(* from its root tree, and what each of them shows to the user.  With it,  *)
(* VaultEngine is compared with what VaultFS promises.  The definitions    *)
(* take the store as a parameter, because the objects a version is made of *)
(* stay in the store whatever else joins it.                               *)
(***************************************************************************)
EXTENDS VaultEngine

(* A HEAD file that is missing or torn is no version. *)
ASSUME HeadAssumption == \A S \in SUBSET Path : {NoHead, TornHead} \cap [S -> Nat] = {}

(* The entry n of the tree h; 0 when there is none, or when h is no tree *)
Follow(o, h, n) == IF h # 0 /\ o[h].kind = "tree" THEN o[h].dir[n] ELSE 0

(* resolve_path: what is met on the way from the root tree, component by component *)
Trail(o, root, p) ==
  LET at[k \in 0..Len(p)] == IF k = 0 THEN root ELSE Follow(o, at[k - 1], p[k])
  IN  at

ResolvePath(o, root, p) == Trail(o, root, p)[Len(p)]

(* PathResult: a directory, or the file its blob is *)
Shown(o, h) == IF o[h].kind = "tree" THEN 0 ELSE h

Version(o, root) ==
  [p \in {q \in Path : ResolvePath(o, root, q) # 0} |-> Shown(o, ResolvePath(o, root, p))]

VersionOf(o, head) == IF head \in {NoHead, TornHead} THEN head ELSE Version(o, o[head].root)

(* The commit device d goes by: the one its local HEAD names, or, while its command is
   between the two HEADs, the new one, which it holds in memory whatever became of the file *)
Held(d) == IF At(d, "cloudhead") THEN cmd[d].newc ELSE localHead[d]

FS == INSTANCE VaultFS WITH
        File  <- Nat \ {0},
        cloud <- VersionOf(obj, cloudHead),
        mine  <- [d \in Device |-> VersionOf(obj, Held(d))]

(* Commands, uploads, failures and crashes of all devices implement VaultFS: the
   rewriting of trees in upsert_* and remove_* changes exactly one path of the
   device's version, and publishing replaces the cloud's version whole. *)
RefinesVaultFS == FS!Spec

(* What collect_subtree_hashes gathers from a commit's root by following entries
   is what a reader reaches by resolving paths, no more and no less. *)
ReachIsResolvable ==
  \A c \in Commits :
    reach[c] = {c, obj[c].root} \cup ({ResolvePath(obj, obj[c].root, p) : p \in Path} \ {0})
=============================================================================
