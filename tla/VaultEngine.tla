---------------------------- MODULE VaultEngine ----------------------------
(***************************************************************************)
(* The mutating commands of GitVault (add, mkdir, remove, rmdir, sync) as  *)
(* interleaved cloud calls of several devices that share one vault.        *)
(*                                                                         *)
(* A vault is a flat store of immutable encrypted objects named by their   *)
(* hash, plus one HEAD file that names the current commit.  A command      *)
(* copies the trees on the path it edits, stores a new commit, moves the   *)
(* local and then the cloud HEAD, and only then deletes what the old       *)
(* commit no longer shares with the new one.  No cloud call is atomic with *)
(* the next: a call may throw, its reply may be lost after it took effect, *)
(* and the process may die between any two of them.                        *)
(*                                                                         *)
(* Every object is encrypted under a fresh random IV and named by the hash *)
(* of the ciphertext, so a store never meets an existing name: the name of *)
(* an object is its position in obj, the sequence of all objects made.     *)
(* The initial state is the one `init` leaves: an empty root tree (1) and  *)
(* a commit (2) in the cloud, HEAD written on one device and in the cloud. *)
(***************************************************************************)
EXTENDS Naturals, Sequences, FiniteSets

CONSTANTS
  Device,       \* machines with a ~/.gitvault/<vault> of their own
  Name,         \* entry names
  MaxDepth,     \* bound: components of a path
  Op,           \* the commands the users run
  Disciplined,  \* users run one command at a time and sync before switching device
  MaxCmds,      \* bound: commands run
  MaxFaults,    \* bound: failed or lost calls, crashes
  NoHead,       \* no local HEAD file
  TornHead      \* a local HEAD file whose write did not finish

ASSUME ConstantsAssumption ==
  /\ Device # {}
  /\ MaxDepth \in Nat \ {0}
  /\ Op \subseteq {"add", "mkdir", "remove", "rmdir"}
  /\ Disciplined \in BOOLEAN
  /\ MaxCmds \in Nat
  /\ MaxFaults \in Nat
  /\ NoHead \notin Nat /\ TornHead \notin Nat /\ NoHead # TornHead

Path == UNION {[1..k -> Name] : k \in 1..MaxDepth}

VARIABLES
  obj,        \* every object ever encrypted, in order; its index is its hash
  reach,      \* ghost: reach[h], the objects of the snapshot rooted at h
  remote,     \* hashes present under objects/ in the cloud
  cloudHead,  \* the commit the cloud HEAD names
  localHead,  \* the commit each device's local HEAD names
  owner,      \* ghost: the device that ran init or sync last
  cmd,        \* the command each device is running
  queue,      \* blobs in each process's thread pool
  unsent,     \* ghost: blobs encrypted whose upload has not succeeded
  clean,      \* ghost: no command has failed or warned after storing something
  leaked,     \* ghost: blobs an add replaced (never deleted by the code)
  cmds, faults

storeVars == <<obj, reach, remote>>
headVars  == <<cloudHead, localHead, owner>>
poolVars  == <<queue, unsent>>
ghostVars == <<clean, leaked>>
countVars == <<cmds, faults>>
vars == <<storeVars, headVars, cmd, poolVars, ghostVars, countVars>>

----------------------------------------------------------------------------
(* Objects *)

EmptyDir == [n \in Name |-> 0]                   \* 0: no entry of that name
Blob         == [kind |-> "blob",   root |-> 0, dir |-> EmptyDir]
Tree(dir)    == [kind |-> "tree",   root |-> 0, dir |-> dir]
Commit(root) == [kind |-> "commit", root |-> root, dir |-> EmptyDir]

NextHash  == Len(obj) + 1
Hash      == 1..Len(obj)
IsTree(h) == h # 0 /\ obj[h].kind = "tree"
IsBlob(h) == h # 0 /\ obj[h].kind = "blob"
Commits   == {h \in Hash : obj[h].kind = "commit"}

(* Mutant: a traversal that does not recurse *)
DirectEntries(dir) == {dir[n] : n \in {m \in Name : dir[m] # 0}}

(* Everything below the entries of a directory *)
ReachOfDir(dir) == UNION {reach[dir[n]] : n \in {m \in Name : dir[m] # 0}}

(* A new object and, with it, what a traversal from it visits *)
Encrypt(o, below) ==
  /\ obj' = Append(obj, o)
  /\ reach' = Append(reach, {NextHash} \cup below)

EncryptTree(dir)    == Encrypt(Tree(dir), ReachOfDir(dir))
EncryptCommit(root) == Encrypt(Commit(root), reach[root])

(* write_object: one overwriting put under the new hash *)
Put == remote' = remote \cup {NextHash}

----------------------------------------------------------------------------
(* Commands *)

(* A command that has loaded nothing; op "rmdirall" is rmdir with recursive = true *)
FreshCmd(pc, op, path, out) ==
  [pc |-> pc, op |-> op, path |-> path, base |-> 0, old |-> <<>>, cur |-> 0, lvl |-> 0,
   ret |-> 0, newc |-> 0, trees |-> {}, blobs |-> {}, out |-> out]
IdleCmd == FreshCmd("idle", "none", <<>>, "none")

At(d, label) == cmd[d].pc = label

(* The process leaves execute(); ~ThreadPool still has to drain the queue *)
Finish(d, result) ==
  cmd' = [cmd EXCEPT ![d] = FreshCmd("exit", "none", <<>>, result)]

(* Has this command stored nothing yet? *)
Untouched(c) == \/ c.pc \in {"head", "leaf", "blob"}
                \/ c.op \in {"remove", "rmdir", "rmdirall"} /\ c.pc \in {"walk", "confirm"}

(* An exception that reaches main *)
Throw(d) ==
  /\ Finish(d, "error")
  /\ clean' = (clean /\ Untouched(cmd[d]))

Fault == faults < MaxFaults /\ faults' = faults + 1

(* A single user's discipline: the vault code itself takes no lock *)
MayStart(d) ==
  /\ cmds < MaxCmds
  /\ At(d, "idle")
  /\ Disciplined => \A e \in Device : At(e, "idle")

Begin(d) ==
  /\ MayStart(d)
  /\ Disciplined => d = owner
  /\ \E o \in Op, p \in Path :
       cmd' = [cmd EXCEPT ![d] = FreshCmd("head", o, p, "none")]
  /\ cmds' = cmds + 1
  /\ UNCHANGED <<storeVars, headVars, poolVars, ghostVars, faults>>

(* read_head (the local file only) and load_commit_checked.  `remove` has run
   resolve_entry before: the same loads from the same HEAD, with no effect. *)
ReadHead(d) ==
  /\ At(d, "head")
  /\ localHead[d] \in remote
  /\ cmd' = [cmd EXCEPT ![d].base = localHead[d],
                        ![d].cur = obj[localHead[d]].root,
                        ![d].pc = CASE cmd[d].op = "add"   -> "blob"
                                    [] cmd[d].op = "mkdir" -> "leaf"
                                    [] OTHER               -> "walk"]
  /\ UNCHANGED <<storeVars, headVars, poolVars, ghostVars, countVars>>

ReadHeadMissing(d) ==
  /\ At(d, "head")
  /\ localHead[d] = NoHead
  /\ Finish(d, "nohead")
  /\ UNCHANGED <<storeVars, headVars, poolVars, ghostVars, countVars>>

ReadHeadInvalid(d) ==     \* a torn file, or a commit another device deleted
  /\ At(d, "head")
  /\ localHead[d] # NoHead
  /\ localHead[d] \notin remote
  /\ Throw(d)
  /\ UNCHANGED <<storeVars, headVars, poolVars, leaked, countVars>>

(* add: encrypt the file and hand its upload to the thread pool *)
StoreBlob(d) ==
  /\ At(d, "blob")
  /\ Encrypt(Blob, {})
  /\ queue' = [queue EXCEPT ![d] = @ \cup {NextHash}]
  /\ unsent' = unsent \cup {NextHash}
  /\ cmd' = [cmd EXCEPT ![d].ret = NextHash, ![d].pc = "walk"]
  /\ UNCHANGED <<remote, headVars, ghostVars, countVars>>

(* Mutant: without a fresh IV every empty tree has the name of the first *)
StoreLeafDeduplicated(d) ==
  /\ At(d, "leaf")
  /\ remote' = remote \cup {1}
  /\ cmd' = [cmd EXCEPT ![d].ret = 1, ![d].pc = "walk"]
  /\ UNCHANGED <<obj, reach, headVars, poolVars, ghostVars, countVars>>

(* mkdir: store the new directory's empty tree before anything is checked *)
StoreLeaf(d) ==
  /\ At(d, "leaf")
  /\ EncryptTree(EmptyDir) /\ Put
  /\ cmd' = [cmd EXCEPT ![d].ret = NextHash, ![d].pc = "walk"]
  /\ UNCHANGED <<headVars, poolVars, ghostVars, countVars>>

----------------------------------------------------------------------------
(* The recursion of upsert_* and remove_*_from_tree, downwards: old_tree_hashes *)
(* receives the tree of each level, which is then loaded.                       *)

Level(c)     == Len(c.old) + 1
Entry(c)     == obj[c.cur].dir[c.path[Level(c)]]
LastLevel(c) == Level(c) = Len(c.path)
Upsert(c)    == c.op \in {"add", "mkdir"}

Loaded(d) == At(d, "walk") /\ cmd[d].cur \in remote

LoadTreeMissing(d) ==
  /\ At(d, "walk")
  /\ cmd[d].cur \notin remote
  /\ Throw(d)
  /\ UNCHANGED <<storeVars, headVars, poolVars, leaked, countVars>>

Descend(d) ==
  /\ Loaded(d)
  /\ ~LastLevel(cmd[d])
  /\ IsTree(Entry(cmd[d]))
  /\ cmd' = [cmd EXCEPT ![d].old = Append(@, cmd[d].cur), ![d].cur = Entry(cmd[d])]
  /\ UNCHANGED <<storeVars, headVars, poolVars, ghostVars, countVars>>

(* Mutant: a file on the way is taken for a missing parent *)
MissingParentOverFile(d) ==
  /\ Loaded(d)
  /\ ~LastLevel(cmd[d])
  /\ ~IsTree(Entry(cmd[d]))
  /\ Upsert(cmd[d])
  /\ cmd' = [cmd EXCEPT ![d].old = Append(@, cmd[d].cur), ![d].pc = "parent"]
  /\ UNCHANGED <<storeVars, headVars, poolVars, ghostVars, countVars>>

(* A missing parent: its placeholder is stored, and then loaded back and replaced *)
MissingParent(d) ==
  /\ Loaded(d)
  /\ ~LastLevel(cmd[d])
  /\ Entry(cmd[d]) = 0
  /\ Upsert(cmd[d])
  /\ cmd' = [cmd EXCEPT ![d].old = Append(@, cmd[d].cur), ![d].pc = "parent"]
  /\ UNCHANGED <<storeVars, headVars, poolVars, ghostVars, countVars>>

StoreParent(d) ==
  /\ At(d, "parent")
  /\ EncryptTree(EmptyDir) /\ Put
  /\ cmd' = [cmd EXCEPT ![d].cur = NextHash, ![d].pc = "walk"]
  /\ UNCHANGED <<headVars, poolVars, ghostVars, countVars>>

(* At the last level the entry is added (ret is its hash) or erased (ret = 0) *)
Edited(c, ret, trees, blobs) ==
  [c EXCEPT !.old = Append(@, c.cur), !.lvl = Len(c.path), !.ret = ret,
            !.trees = trees, !.blobs = blobs, !.pc = "store"]

(* Mutant: add replaces a directory of the same name *)
LeafUpsertOverwrites(d) ==
  /\ Loaded(d)
  /\ LastLevel(cmd[d])
  /\ \/ cmd[d].op = "add"
     \/ cmd[d].op = "mkdir" /\ Entry(cmd[d]) = 0
  /\ cmd' = [cmd EXCEPT ![d] = Edited(@, @.ret, {}, {})]
  /\ UNCHANGED <<storeVars, headVars, poolVars, ghostVars, countVars>>

LeafUpsert(d) ==
  /\ Loaded(d)
  /\ LastLevel(cmd[d])
  /\ \/ cmd[d].op = "add" /\ ~IsTree(Entry(cmd[d]))
     \/ cmd[d].op = "mkdir" /\ Entry(cmd[d]) = 0
  /\ cmd' = [cmd EXCEPT ![d] = Edited(@, @.ret, {}, {})]
  /\ leaked' = leaked \cup ({Entry(cmd[d])} \ {0})
  /\ UNCHANGED <<storeVars, headVars, poolVars, clean, countVars>>

LeafRemove(d) ==
  /\ Loaded(d)
  /\ LastLevel(cmd[d])
  /\ cmd[d].op = "remove"
  /\ IsBlob(Entry(cmd[d]))
  /\ cmd' = [cmd EXCEPT ![d] = Edited(@, 0, {}, {Entry(cmd[d])})]
  /\ UNCHANGED <<storeVars, headVars, poolVars, ghostVars, countVars>>

TreesIn(S) == {h \in S : obj[h].kind = "tree"}
BlobsIn(S) == {h \in S : obj[h].kind = "blob"}

(* The target of rmdir, loaded *)
RmdirTarget(d) ==
  /\ Loaded(d)
  /\ LastLevel(cmd[d])
  /\ cmd[d].op \in {"rmdir", "rmdirall"}
  /\ IsTree(Entry(cmd[d]))
  /\ Entry(cmd[d]) \in remote

NeedsConfirm(c) == c.op = "rmdir" /\ obj[Entry(c)].dir # EmptyDir
SubtreeReadable(c) == TreesIn(reach[Entry(c)]) \subseteq remote

(* Mutant: the subtree is collected one level too high *)
LeafRmdirOfParent(d) ==
  /\ RmdirTarget(d)
  /\ ~NeedsConfirm(cmd[d])
  /\ LET gone == reach[cmd[d].cur] IN
       cmd' = [cmd EXCEPT ![d] = Edited(@, 0, TreesIn(gone), BlobsIn(gone))]
  /\ UNCHANGED <<storeVars, headVars, poolVars, ghostVars, countVars>>

(* collect_subtree_hashes loads every tree below the target *)
LeafRmdir(d) ==
  /\ RmdirTarget(d)
  /\ ~NeedsConfirm(cmd[d])
  /\ SubtreeReadable(cmd[d])
  /\ LET gone == reach[Entry(cmd[d])] IN
       cmd' = [cmd EXCEPT ![d] = Edited(@, 0, TreesIn(gone), BlobsIn(gone))]
  /\ UNCHANGED <<storeVars, headVars, poolVars, ghostVars, countVars>>

AskConfirm(d) ==
  /\ RmdirTarget(d)
  /\ NeedsConfirm(cmd[d])
  /\ cmd' = [cmd EXCEPT ![d].pc = "confirm"]
  /\ UNCHANGED <<storeVars, headVars, poolVars, ghostVars, countVars>>

(* "y": rmdir runs again from the start, recursively; anything else aborts *)
ConfirmYes(d) ==
  /\ At(d, "confirm")
  /\ cmd' = [cmd EXCEPT ![d] = FreshCmd("head", "rmdirall", cmd[d].path, "none")]
  /\ UNCHANGED <<storeVars, headVars, poolVars, ghostVars, countVars>>

ConfirmNo(d) ==
  /\ At(d, "confirm")
  /\ Finish(d, "aborted")
  /\ UNCHANGED <<storeVars, headVars, poolVars, ghostVars, countVars>>

(* path not found, not a directory, already exists, subtree unreadable, ... *)
Acceptable(c) ==
  LET e == Entry(c) IN
  IF ~LastLevel(c) THEN IsTree(e) \/ (e = 0 /\ Upsert(c))
  ELSE CASE c.op = "add"    -> ~IsTree(e)
         [] c.op = "mkdir"  -> e = 0
         [] c.op = "remove" -> IsBlob(e)
         [] OTHER           -> /\ IsTree(e) /\ e \in remote
                               /\ NeedsConfirm(c) \/ SubtreeReadable(c)

RejectEntry(d) ==
  /\ Loaded(d)
  /\ ~Acceptable(cmd[d])
  /\ Throw(d)
  /\ UNCHANGED <<storeVars, headVars, poolVars, leaked, countVars>>

----------------------------------------------------------------------------
(* The recursion upwards, the commit, and the two HEADs *)

(* Mutant: the copy of a tree loses the entries beside the path *)
NewDirWithoutSiblings(c) == [EmptyDir EXCEPT ![c.path[c.lvl]] = c.ret]

(* The tree of level lvl with its one entry on the path replaced *)
NewDir(c) == [obj[c.old[c.lvl]].dir EXCEPT ![c.path[c.lvl]] = c.ret]

StoreTree(d) ==
  /\ At(d, "store")
  /\ EncryptTree(NewDir(cmd[d])) /\ Put
  /\ cmd' = [cmd EXCEPT ![d].ret = NextHash, ![d].lvl = @ - 1,
                        ![d].pc = IF cmd[d].lvl = 1 THEN "commit" ELSE "store"]
  /\ UNCHANGED <<headVars, poolVars, ghostVars, countVars>>

(* Mutant: HEAD is to name the root tree instead of the commit *)
StoreCommitNamesTree(d) ==
  /\ At(d, "commit")
  /\ EncryptCommit(cmd[d].ret) /\ Put
  /\ cmd' = [cmd EXCEPT ![d].newc = cmd[d].ret, ![d].pc = "localhead"]
  /\ UNCHANGED <<headVars, poolVars, ghostVars, countVars>>

StoreCommit(d) ==
  /\ At(d, "commit")
  /\ EncryptCommit(cmd[d].ret) /\ Put
  /\ cmd' = [cmd EXCEPT ![d].newc = NextHash, ![d].pc = "localhead"]
  /\ UNCHANGED <<headVars, poolVars, ghostVars, countVars>>

WriteLocalHead(d) ==
  /\ At(d, "localhead")
  /\ localHead' = [localHead EXCEPT ![d] = cmd[d].newc]
  /\ cmd' = [cmd EXCEPT ![d].pc = "cloudhead"]
  /\ UNCHANGED <<storeVars, cloudHead, owner, poolVars, ghostVars, countVars>>

(* Mutant: the result of the put of HEAD is ignored *)
PutCloudHeadUnchecked(d) ==
  /\ At(d, "cloudhead")
  /\ cloudHead' \in {cloudHead, cmd[d].newc}
  /\ cmd' = [cmd EXCEPT ![d].pc = "delcommit"]
  /\ UNCHANGED <<storeVars, localHead, owner, poolVars, ghostVars, countVars>>

PutCloudHead(d) ==
  /\ At(d, "cloudhead")
  /\ cloudHead' = cmd[d].newc
  /\ cmd' = [cmd EXCEPT ![d].pc = "delcommit"]
  /\ UNCHANGED <<storeVars, localHead, owner, poolVars, ghostVars, countVars>>

----------------------------------------------------------------------------
(* Deleting what the new commit no longer uses *)

RemoveOldCommit(d) ==
  /\ At(d, "delcommit")
  /\ cmd[d].base \in remote
  /\ remote' = remote \ {cmd[d].base}
  /\ cmd' = [cmd EXCEPT ![d].lvl = 1, ![d].pc = "deltrees"]
  /\ UNCHANGED <<obj, reach, headVars, poolVars, ghostVars, countVars>>

(* remove_object returned false: another device has deleted the same commit *)
OldCommitGone(d) ==
  /\ At(d, "delcommit")
  /\ cmd[d].base \notin remote
  /\ Throw(d)
  /\ UNCHANGED <<storeVars, headVars, poolVars, leaked, countVars>>

(* Mutant: the loop stops before the last tree *)
AfterOldTreeShort(c) ==
  IF c.lvl + 1 < Len(c.old) THEN [c EXCEPT !.lvl = @ + 1]
  ELSE [c EXCEPT !.pc = "delremoved"]

AfterOldTree(c) ==
  IF c.lvl < Len(c.old) THEN [c EXCEPT !.lvl = @ + 1]
  ELSE [c EXCEPT !.pc = "delremoved"]

(* The loop over old_tree_hashes, in order; the result of remove is ignored *)
RemoveOldTree(d) ==
  /\ At(d, "deltrees")
  /\ remote' = remote \ {cmd[d].old[cmd[d].lvl]}
  /\ cmd' = [cmd EXCEPT ![d] = AfterOldTree(@)]
  /\ UNCHANGED <<obj, reach, headVars, poolVars, ghostVars, countVars>>

(* The loop over removed_tree_hashes, sorted: by random hash, so in any order *)
RemoveSubtree(d) ==
  /\ At(d, "delremoved")
  /\ \E t \in cmd[d].trees :
       /\ remote' = remote \ {t}
       /\ clean' = (clean /\ t \in remote)
       /\ cmd' = [cmd EXCEPT ![d].trees = @ \ {t}]
  /\ UNCHANGED <<obj, reach, headVars, poolVars, leaked, countVars>>

RemoveBlob(d) ==
  /\ At(d, "delremoved")
  /\ cmd[d].trees = {}
  /\ \E b \in cmd[d].blobs \cap remote :
       /\ remote' = remote \ {b}
       /\ cmd' = [cmd EXCEPT ![d].blobs = @ \ {b}]
  /\ UNCHANGED <<obj, reach, headVars, poolVars, ghostVars, countVars>>

(* Mutant: the loop waits for the upload of a blob that is not there yet *)
BlobGoneRetries(d) ==
  /\ At(d, "delremoved")
  /\ cmd[d].trees = {}
  /\ ~(cmd[d].blobs \subseteq remote)
  /\ UNCHANGED vars

(* A blob that is not there stops the loop: the others stay behind *)
BlobGone(d) ==
  /\ At(d, "delremoved")
  /\ cmd[d].trees = {}
  /\ ~(cmd[d].blobs \subseteq remote)
  /\ Throw(d)
  /\ UNCHANGED <<storeVars, headVars, poolVars, leaked, countVars>>

Done(d) ==
  /\ At(d, "delremoved")
  /\ cmd[d].trees = {} /\ cmd[d].blobs = {}
  /\ Finish(d, "ok")
  /\ UNCHANGED <<storeVars, headVars, poolVars, ghostVars, countVars>>

----------------------------------------------------------------------------
(* Uploads of the thread pool, and the end of the process *)

Upload(d) ==
  /\ \E b \in queue[d] :
       /\ remote' = remote \cup {b}
       /\ unsent' = unsent \ {b}
       /\ queue' = [queue EXCEPT ![d] = @ \ {b}]
  /\ UNCHANGED <<obj, reach, headVars, cmd, ghostVars, countVars>>

(* put throws in the worker: the future holds the exception, nobody asks it *)
UploadFails(d) ==
  /\ Fault
  /\ \E b \in queue[d] : queue' = [queue EXCEPT ![d] = @ \ {b}]
  /\ clean' = FALSE
  /\ UNCHANGED <<storeVars, headVars, cmd, unsent, leaked, cmds>>

(* Mutant: the pool's destructor does not drain the queue *)
ExitDropsQueue(d) ==
  /\ At(d, "exit")
  /\ queue' = [queue EXCEPT ![d] = {}]
  /\ cmd' = [cmd EXCEPT ![d] = IdleCmd]
  /\ UNCHANGED <<storeVars, headVars, unsent, ghostVars, countVars>>

Exit(d) ==
  /\ At(d, "exit")
  /\ queue[d] = {}
  /\ cmd' = [cmd EXCEPT ![d] = IdleCmd]
  /\ UNCHANGED <<storeVars, headVars, poolVars, ghostVars, countVars>>

----------------------------------------------------------------------------
(* sync, and init of a vault that exists *)

(* remote_vault_exists, then the cloud HEAD replaces the local file *)
Sync(d) ==
  /\ MayStart(d)
  /\ localHead' = [localHead EXCEPT ![d] = cloudHead]
  /\ owner' = d
  /\ cmds' = cmds + 1
  /\ UNCHANGED <<storeVars, cloudHead, cmd, poolVars, ghostVars, faults>>

(* The same with the write of the local HEAD cut short: the process dies after the file was
   truncated, or the disk is full, which nobody notices *)
SyncTorn(d) ==
  /\ MayStart(d)
  /\ Fault
  /\ localHead' = [localHead EXCEPT ![d] = TornHead]
  /\ owner' = d
  /\ cmds' = cmds + 1
  /\ UNCHANGED <<storeVars, cloudHead, cmd, poolVars, ghostVars>>

(* init removes the local metadata before it finds that the vault exists *)
InitExisting(d) ==
  /\ MayStart(d)
  /\ localHead' = [localHead EXCEPT ![d] = NoHead]
  /\ cmds' = cmds + 1
  /\ UNCHANGED <<storeVars, cloudHead, owner, cmd, poolVars, ghostVars, faults>>

----------------------------------------------------------------------------
(* Faults *)

Calling == {"head", "leaf", "walk", "parent", "store", "commit", "cloudhead", "delcommit"}

(* A cloud call throws and had no effect *)
CallFails(d) ==
  /\ Fault
  /\ \/ cmd[d].pc \in Calling
     \/ cmd[d].pc \in {"blob", "localhead"}          \* a local file cannot be opened
     \/ At(d, "delremoved") /\ cmd[d].trees = {} /\ cmd[d].blobs # {}
  /\ Throw(d)
  /\ UNCHANGED <<storeVars, headVars, poolVars, leaked, cmds>>

(* A put of an object took effect in the cloud, but its reply was lost *)
PutReplyLost(d) ==
  /\ Fault
  /\ \/ cmd[d].pc \in {"leaf", "parent"} /\ EncryptTree(EmptyDir)
     \/ At(d, "store") /\ EncryptTree(NewDir(cmd[d]))
     \/ At(d, "commit") /\ EncryptCommit(cmd[d].ret)
  /\ Put
  /\ Finish(d, "error")
  /\ clean' = FALSE
  /\ UNCHANGED <<headVars, poolVars, leaked, cmds>>

(* The same for the put of HEAD: the command fails, yet it is published *)
HeadReplyLost(d) ==
  /\ Fault
  /\ At(d, "cloudhead")
  /\ cloudHead' = cmd[d].newc
  /\ Throw(d)
  /\ UNCHANGED <<storeVars, localHead, owner, poolVars, leaked, cmds>>

(* The same for the calls whose exception ends the command *)
RemoveReplyLost(d) ==
  /\ Fault
  /\ \/ At(d, "delcommit") /\ remote' = remote \ {cmd[d].base}
     \/ /\ At(d, "delremoved")
        /\ cmd[d].trees = {}
        /\ \E b \in cmd[d].blobs : remote' = remote \ {b}
  /\ Throw(d)
  /\ UNCHANGED <<obj, reach, headVars, poolVars, leaked, cmds>>

(* Failures while deleting trees are caught: a warning, and the loop goes on.
   (With the reply lost the tree is gone, as after RemoveOldTree.) *)
TreeRemoveFails(d) ==
  /\ Fault
  /\ \/ At(d, "deltrees") /\ cmd' = [cmd EXCEPT ![d] = AfterOldTree(@)]
     \/ /\ At(d, "delremoved")
        /\ \E t \in cmd[d].trees : cmd' = [cmd EXCEPT ![d].trees = @ \ {t}]
  /\ clean' = FALSE
  /\ UNCHANGED <<storeVars, headVars, poolVars, leaked, cmds>>

(* The write of the local HEAD is cut short (disk full).  The 80 bytes wait in the stream's
   buffer and are flushed when it is closed, after the last look at its state: the
   command does not notice and goes on to the cloud HEAD. *)
LocalHeadTorn(d) ==
  /\ Fault
  /\ At(d, "localhead")
  /\ localHead' = [localHead EXCEPT ![d] = TornHead]
  /\ cmd' = [cmd EXCEPT ![d].pc = "cloudhead"]
  /\ UNCHANGED <<storeVars, cloudHead, owner, poolVars, ghostVars, cmds>>

(* The process dies between the truncation of the local HEAD and that flush *)
DiesWritingHead(d) ==
  /\ Fault
  /\ At(d, "localhead")
  /\ localHead' = [localHead EXCEPT ![d] = TornHead]
  /\ cmd' = [cmd EXCEPT ![d] = IdleCmd]
  /\ queue' = [queue EXCEPT ![d] = {}]
  /\ clean' = FALSE
  /\ UNCHANGED <<storeVars, cloudHead, owner, unsent, leaked, cmds>>

(* The process dies; uploads still queued are lost *)
Crash(d) ==
  /\ Fault
  /\ ~At(d, "idle")
  /\ cmd' = [cmd EXCEPT ![d] = IdleCmd]
  /\ queue' = [queue EXCEPT ![d] = {}]
  /\ clean' = (clean /\ queue[d] = {} /\ (At(d, "exit") \/ Untouched(cmd[d])))
  /\ UNCHANGED <<storeVars, headVars, unsent, leaked, cmds>>

----------------------------------------------------------------------------
Init ==
  /\ obj = <<Tree(EmptyDir), Commit(1)>>
  /\ reach = <<{1}, {1, 2}>>
  /\ remote = {1, 2}
  /\ cloudHead = 2
  /\ owner \in Device
  /\ localHead = [d \in Device |-> IF d = owner THEN 2 ELSE NoHead]
  /\ cmd = [d \in Device |-> IdleCmd]
  /\ queue = [d \in Device |-> {}]
  /\ unsent = {}
  /\ clean = TRUE
  /\ leaked = {}
  /\ cmds = 0
  /\ faults = 0

Start(d) == Begin(d) \/ Sync(d) \/ InitExisting(d)

Prepare(d) ==
  \/ ReadHead(d) \/ ReadHeadMissing(d) \/ ReadHeadInvalid(d)
  \/ StoreBlob(d) \/ StoreLeaf(d)

Walk(d) ==
  \/ LoadTreeMissing(d) \/ Descend(d) \/ MissingParent(d) \/ StoreParent(d)
  \/ LeafUpsert(d) \/ LeafRemove(d) \/ LeafRmdir(d) \/ AskConfirm(d) \/ RejectEntry(d)

Publish(d) == StoreTree(d) \/ StoreCommit(d) \/ WriteLocalHead(d) \/ PutCloudHead(d)

CleanUp(d) ==
  \/ RemoveOldCommit(d) \/ OldCommitGone(d) \/ RemoveOldTree(d)
  \/ RemoveSubtree(d) \/ RemoveBlob(d) \/ BlobGone(d) \/ Done(d)

Proceed(d) == Prepare(d) \/ Walk(d) \/ Publish(d) \/ CleanUp(d) \/ Exit(d)

Answer(d) == ConfirmYes(d) \/ ConfirmNo(d)

Fail(d) ==
  \/ UploadFails(d) \/ CallFails(d) \/ PutReplyLost(d) \/ HeadReplyLost(d)
  \/ RemoveReplyLost(d) \/ TreeRemoveFails(d) \/ LocalHeadTorn(d)
  \/ DiesWritingHead(d) \/ SyncTorn(d) \/ Crash(d)

Next == \E d \in Device : Start(d) \/ Proceed(d) \/ Answer(d) \/ Upload(d) \/ Fail(d)

Spec == Init /\ [][Next]_vars

(* Calls return and the pool's workers run; users and faults are free *)
Fairness == \A d \in Device : WF_vars(Proceed(d)) /\ WF_vars(Upload(d))
FairSpec == Spec /\ Fairness

----------------------------------------------------------------------------
(* Properties *)

Object == [kind : {"blob", "tree", "commit"}, root : Nat, dir : [Name -> Nat]]

Label == {"idle", "head", "blob", "leaf", "walk", "parent", "confirm", "store", "commit",
          "localhead", "cloudhead", "delcommit", "deltrees", "delremoved", "exit"}

Command ==
  [pc : Label, op : Op \cup {"none", "rmdirall"}, path : Path \cup {<<>>}, base : Nat,
   old : Seq(Nat), cur : Nat, lvl : Nat, ret : Nat, newc : Nat, trees : SUBSET Nat,
   blobs : SUBSET Nat, out : {"none", "ok", "error", "nohead", "aborted"}]

(* The types of the variables; every hash in use names an object that was made
   (write_object is given the hash encrypt_object returned), and a HEAD names a
   commit (store_commit writes it with the hash of the commit it just stored). *)
TypeOK ==
  /\ obj \in Seq(Object)
  /\ reach \in Seq(SUBSET Nat) /\ Len(reach) = Len(obj)
  /\ remote \subseteq Hash
  /\ cloudHead \in Commits
  /\ owner \in Device
  /\ localHead \in [Device -> Commits \cup {NoHead, TornHead}]
  /\ cmd \in [Device -> Command]
  /\ queue \in [Device -> SUBSET Hash]
  /\ unsent \subseteq Hash
  /\ clean \in BOOLEAN
  /\ leaked \subseteq Hash
  /\ cmds \in 0..MaxCmds /\ faults \in 0..MaxFaults

(* Two entries of one directory never lead to the same object: what rmdir and
   remove delete below one name is used by no other name. *)
NoSharing ==
  \A h \in Hash : \A m, n \in Name :
    LET dir == obj[h].dir IN
    m # n /\ dir[m] # 0 /\ dir[n] # 0 => reach[dir[m]] \cap reach[dir[n]] = {}

(* What the command has yet to delete (or has deleted) once its commit is stored *)
Doomed(c) == {c.base} \cup {c.old[i] : i \in 1..Len(c.old)} \cup c.trees \cup c.blobs
Committed == {"localhead", "cloudhead", "delcommit", "deltrees", "delremoved"}

(* A command never deletes an object its own new commit uses, whatever other
   devices, lost replies and crashes do in between. *)
OwnSnapshotKept ==
  \A d \in Device : cmd[d].pc \in Committed =>
                       Doomed(cmd[d]) \cap reach[cmd[d].newc] = {}

(* The commit the cloud HEAD names is in the cloud, even when devices work from
   stale HEADs at the same time: the old commit goes only after HEAD has moved. *)
HeadCommitExists == cloudHead \in remote

(* One command at a time: through every failure and crash, both the published
   snapshot and the one the working device builds on keep every object, but for
   blobs whose upload the thread pool has not (or never) completed. *)
SnapshotIntact ==
  Disciplined =>
    \A h \in {cloudHead, localHead[owner]} \ {NoHead, TornHead} :
      reach[h] \subseteq remote \cup unsent

Quiet == \A d \in Device : At(d, "idle")

(* As long as no command failed or warned after it stored something, the cloud
   holds exactly the published snapshot, and the blobs that add replaced. *)
ExactStore ==
  Disciplined /\ Quiet /\ clean => remote = reach[cloudHead] \cup leaked

(* A command that has started comes to an end, or waits for the user's answer. *)
CommandEnds ==
  \A d \in Device : At(d, "head") ~> (At(d, "idle") \/ At(d, "confirm"))

(* As long as no command failed or warned after it stored something, every snapshot
   HEAD names becomes complete in the cloud, though add publishes it while its blob
   may still be in the queue. *)
EventuallyComplete ==
  \A d \in Device : At(d, "exit") ~> (~clean \/ reach[cloudHead] \subseteq remote)

(* The design report's order of section 3.1: when a commit is published, every
   object below it has been uploaded before. *)
PublishedIsUploaded == reach[cloudHead] \subseteq remote
=============================================================================
