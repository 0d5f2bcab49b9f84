--------------------------- MODULE VaultLifecycle ---------------------------
(***************************************************************************)
(* The life of one vault name: init, sync, destroy, and the commands that  *)
(* use the vault in between, on several devices, file by file and call by  *)
(* call.                                                                   *)
(*                                                                         *)
(* A device opens a vault with the keys it derives from the password and   *)
(* the salt in its local config.  The salt is drawn by ensure_store_config *)
(* whenever a config cannot be loaded, for whatever reason, and replaces   *)
(* the one in the cloud.  What the vault holds is abstracted to its        *)
(* commits; each carries the salt it was encrypted under, because that is  *)
(* what decides whether a device can read it.  The password is constant.   *)
(***************************************************************************)
EXTENDS Naturals, FiniteSets

CONSTANTS
  Device,      \* machines with a ~/.gitvault/<vault> of their own
  Commands,    \* the commands the users run
  FaultKinds,  \* what may go wrong: "call", "crash", "write", "remove_all"
  Exclusive,   \* the commands that users run alone
  MaxCmds,     \* bound: commands run
  MaxFaults,   \* bound: faults
  NoFile,      \* a file or an object that is not there
  Torn         \* a file whose write did not finish and that is rejected

(* What Dropbox makes of an upload into a folder that was deleted meanwhile is not
   determined by this code: users run destroy alone. *)
ASSUME LifecycleAssumption ==
  /\ Commands \subseteq {"init", "destroy", "sync", "edit", "read"}
  /\ FaultKinds \subseteq {"call", "crash", "write", "remove_all"}
  /\ Commands \cap {"destroy"} \subseteq Exclusive
  /\ MaxCmds \in Nat /\ MaxFaults \in Nat
  /\ NoFile \notin Nat /\ NoFile \notin Nat \X Nat
  /\ Torn \notin Nat /\ Torn \notin Nat \X Nat /\ Torn # NoFile

VARIABLES
  cloud,     \* the Dropbox folder of the vault
  disk,      \* the local metadata of each device
  cmd,       \* the command each device is running
  salts,     \* salts drawn so far; salt 0 is what a config cut inside its salt parses to
  made,      \* commits made so far
  replaced,  \* ghost: a config was overwritten in the cloud, or cut short on a disk unnoticed
  cmds, faults

vars == <<cloud, disk, cmd, salts, made, replaced, cmds, faults>>

EmptyCloud == [root |-> FALSE, objects |-> FALSE, config |-> NoFile, head |-> NoFile,
               commits |-> {}]
NoFiles    == [config |-> NoFile, head |-> NoFile]

SaltOf(c) == c[1]

----------------------------------------------------------------------------
(* Commands *)

Fresh(name, pc, result) ==
  [name |-> name, pc |-> pc, result |-> result, salt |-> NoFile, base |-> NoFile, new |-> NoFile,
   alone |-> TRUE]  \* ghost: no other command has run at the same time

At(d, label)   == cmd[d].pc = label
Go(d, label)   == cmd' = [cmd EXCEPT ![d].pc = label]
End(d, result) == cmd' = [cmd EXCEPT ![d] = Fresh(cmd[d].name, "idle", result)]

Fault(kind) == kind \in FaultKinds /\ faults < MaxFaults /\ faults' = faults + 1

(* The reply of a call that took effect: it arrives, or it is lost and the command throws *)
Replied(d, label) ==
  \/ Go(d, label) /\ UNCHANGED faults
  \/ Fault("call") /\ End(d, "error")

FirstLabel(name) == CASE name = "init"    -> "clear"
                      [] name = "destroy" -> "deleteRoot"
                      [] OTHER            -> "fetch"

Running == {e \in Device : ~At(e, "idle")}

Begin(d) ==
  /\ cmds < MaxCmds
  /\ At(d, "idle")
  /\ \A e \in Running : cmd[e].name \notin Exclusive
  /\ \E name \in Commands :
       /\ name \in Exclusive => Running = {}
       /\ cmd' = [e \in Device |->
                   IF e = d THEN [Fresh(name, FirstLabel(name), "none") EXCEPT !.alone = (Running = {})]
                   ELSE [cmd[e] EXCEPT !.alone = @ /\ At(e, "idle")]]
  /\ cmds' = cmds + 1
  /\ UNCHANGED <<cloud, disk, salts, made, replaced, faults>>

----------------------------------------------------------------------------
(* init: the local directory is removed before the cloud is asked *)

(* Mutant: the local directory stays *)
KeepLocal(d) ==
  /\ At(d, "clear")
  /\ Go(d, "createRoot")
  /\ UNCHANGED <<cloud, disk, salts, made, replaced, cmds, faults>>

(* An error of remove_all is ignored *)
ClearLocal(d) ==
  /\ At(d, "clear")
  /\ Go(d, "createRoot")
  /\ \/ disk' = [disk EXCEPT ![d] = NoFiles] /\ UNCHANGED faults
     \/ Fault("remove_all") /\ UNCHANGED disk
  /\ UNCHANGED <<cloud, salts, made, replaced, cmds>>

CreateRoot(d) ==
  /\ At(d, "createRoot")
  /\ ~cloud.root
  /\ cloud' = [cloud EXCEPT !.root = TRUE]
  /\ Replied(d, "createObjects")
  /\ UNCHANGED <<disk, salts, made, replaced, cmds>>

RootExists(d) ==
  /\ At(d, "createRoot")
  /\ cloud.root
  /\ End(d, "error")
  /\ UNCHANGED <<cloud, disk, salts, made, replaced, cmds, faults>>

CreateObjects(d) ==
  /\ At(d, "createObjects")
  /\ cloud' = [cloud EXCEPT !.objects = TRUE]
  /\ Replied(d, "loadConfig")
  /\ UNCHANGED <<disk, salts, made, replaced, cmds>>

(* Every other command checks the two folders *)
Fetch(d) ==
  /\ At(d, "fetch")
  /\ IF cloud.root /\ cloud.objects
       THEN Go(d, IF cmd[d].name = "sync" THEN "remoteExists" ELSE "loadConfig")
       ELSE End(d, "error")
  /\ UNCHANGED <<cloud, disk, salts, made, replaced, cmds, faults>>

----------------------------------------------------------------------------
(* ensure_store_config, in the constructor of the engine *)

(* The engine has its keys *)
WithKeys(d, salt) ==
  cmd' = [cmd EXCEPT ![d].salt = salt,
                     ![d].pc = IF cmd[d].name = "init" THEN "putCommit" ELSE "readHead"]

(* Loading the config threw: sync reports it, the constructor draws a new salt *)
NoConfig(d) == IF cmd[d].name = "sync" THEN End(d, "error") ELSE Go(d, "drawSalt")

LoadConfig(d) ==
  /\ At(d, "loadConfig")
  /\ CASE disk[d].config = NoFile -> Go(d, "getConfig")
       [] disk[d].config = Torn   -> NoConfig(d)
       [] OTHER                   -> WithKeys(d, disk[d].config)
  /\ UNCHANGED <<cloud, disk, salts, made, replaced, cmds, faults>>

GetConfig(d) ==
  /\ At(d, "getConfig")
  /\ IF cloud.config = NoFile
       THEN NoConfig(d)
       ELSE cmd' = [cmd EXCEPT ![d].salt = cloud.config, ![d].pc = "cacheConfig"]
  /\ UNCHANGED <<cloud, disk, salts, made, replaced, cmds, faults>>

(* The metadata of d after a whole write of a file, and those after one cut short: the
   lines before the salt are of no use without it, and a cut salt is another salt *)
WithConfig(d, salt) == [disk[d] EXCEPT !.config = salt]
WithHead(d, commit) == [disk[d] EXCEPT !.head = commit]
CutConfig(d)        == {WithConfig(d, Torn), WithConfig(d, 0)}
CutHead(d)          == {WithHead(d, Torn)}

(* A write to a local file.  The stream is flushed when it is closed and nobody looks
   whether that failed, so a write that is cut short passes for a good one. *)
WriteFile(d, whole, cut) ==
  \/ disk' = [disk EXCEPT ![d] = whole] /\ UNCHANGED faults
  \/ Fault("write") /\ \E f \in cut : disk' = [disk EXCEPT ![d] = f]

(* The downloaded config is written, and then load_config parses the file *)
CacheConfig(d) ==
  /\ At(d, "cacheConfig")
  /\ WriteFile(d, WithConfig(d, cmd[d].salt), CutConfig(d))
  /\ replaced' = (replaced \/ disk'[d].config # cmd[d].salt)
  /\ Go(d, IF cmd[d].name = "sync" THEN "getHead" ELSE "loadConfig")
  /\ UNCHANGED <<cloud, salts, made, cmds>>

DrawSalt(d) ==
  /\ At(d, "drawSalt")
  /\ salts' = salts + 1
  /\ WriteFile(d, WithConfig(d, salts + 1), CutConfig(d))
  /\ replaced' = (replaced \/ disk'[d].config # salts + 1)
  /\ cmd' = [cmd EXCEPT ![d].salt = salts + 1, ![d].pc = "putConfig"]
  /\ UNCHANGED <<cloud, made, cmds>>

(* What is uploaded is what the file holds; the engine keeps the salt it drew *)
PutConfig(d) ==
  /\ At(d, "putConfig")
  /\ cloud' = [cloud EXCEPT !.config = disk[d].config]
  /\ replaced' = (replaced \/ cloud.config # NoFile)
  /\ \/ WithKeys(d, cmd[d].salt) /\ UNCHANGED faults
     \/ Fault("call") /\ End(d, "error")
  /\ UNCHANGED <<disk, salts, made, cmds>>

----------------------------------------------------------------------------
(* Working with the vault *)

(* Mutant: neither the size nor the HMAC is verified *)
ReadAnyHead(d) ==
  /\ At(d, "readHead")
  /\ IF disk[d].head # NoFile
       THEN cmd' = [cmd EXCEPT ![d].base = disk[d].head, ![d].pc = "loadCommit"]
       ELSE End(d, "error")
  /\ UNCHANGED <<cloud, disk, salts, made, replaced, cmds, faults>>

(* The local HEAD must be there, whole, and authentic under the keys *)
ReadHead(d) ==
  /\ At(d, "readHead")
  /\ IF disk[d].head \notin {NoFile, Torn} /\ SaltOf(disk[d].head) = cmd[d].salt
       THEN cmd' = [cmd EXCEPT ![d].base = disk[d].head, ![d].pc = "loadCommit"]
       ELSE End(d, "error")
  /\ UNCHANGED <<cloud, disk, salts, made, replaced, cmds, faults>>

LoadCommit(d) ==
  /\ At(d, "loadCommit")
  /\ \/ cmd[d].base \notin cloud.commits /\ End(d, "error")
     \/ cmd[d].base \in cloud.commits /\ cmd[d].name = "edit" /\ Go(d, "putCommit")
     \/ cmd[d].base \in cloud.commits /\ cmd[d].name # "edit" /\ End(d, "ok")
  /\ UNCHANGED <<cloud, disk, salts, made, replaced, cmds, faults>>

PutCommit(d) ==
  /\ At(d, "putCommit")
  /\ made' = made + 1
  /\ LET commit == <<cmd[d].salt, made + 1>> IN
       /\ cloud' = [cloud EXCEPT !.commits = @ \cup {commit}]
       /\ \/ cmd' = [cmd EXCEPT ![d].new = commit, ![d].pc = "writeHead"] /\ UNCHANGED faults
          \/ Fault("call") /\ End(d, "error")
  /\ UNCHANGED <<disk, salts, replaced, cmds>>

WriteLocalHead(d) ==
  /\ At(d, "writeHead")
  /\ WriteFile(d, WithHead(d, cmd[d].new), CutHead(d))
  /\ Go(d, "putHead")
  /\ UNCHANGED <<cloud, salts, made, replaced, cmds>>

PutHead(d) ==
  /\ At(d, "putHead")
  /\ cloud' = [cloud EXCEPT !.head = cmd[d].new]
  /\ \/ cmd[d].name = "init" /\ End(d, "ok") /\ UNCHANGED faults
     \/ cmd[d].name = "edit" /\ Go(d, "removeOld") /\ UNCHANGED faults
     \/ Fault("call") /\ End(d, "error")
  /\ UNCHANGED <<disk, salts, made, replaced, cmds>>

(* Mutant: the commit that is removed is the one just stored *)
RemoveNewCommit(d) ==
  /\ At(d, "removeOld")
  /\ cloud' = [cloud EXCEPT !.commits = @ \ {cmd[d].new}]
  /\ End(d, "ok")
  /\ UNCHANGED <<disk, salts, made, replaced, cmds, faults>>

RemoveOldCommit(d) ==
  /\ At(d, "removeOld")
  /\ cloud' = [cloud EXCEPT !.commits = @ \ {cmd[d].base}]
  /\ \/ End(d, IF cmd[d].base \in cloud.commits THEN "ok" ELSE "error") /\ UNCHANGED faults
     \/ Fault("call") /\ End(d, "error")
  /\ UNCHANGED <<disk, salts, made, replaced, cmds>>

----------------------------------------------------------------------------
(* sync and destroy *)

(* Mutant: the config is not downloaded where there is one already *)
RemoteVaultExistsCached(d) ==
  /\ At(d, "remoteExists")
  /\ IF cloud.config # NoFile /\ cloud.head # NoFile
       THEN Go(d, IF disk[d].config = NoFile THEN "getConfig" ELSE "getHead")
       ELSE End(d, "error")
  /\ UNCHANGED <<cloud, disk, salts, made, replaced, cmds, faults>>

RemoteVaultExists(d) ==
  /\ At(d, "remoteExists")
  /\ IF cloud.config # NoFile /\ cloud.head # NoFile THEN Go(d, "getConfig") ELSE End(d, "error")
  /\ UNCHANGED <<cloud, disk, salts, made, replaced, cmds, faults>>

GetHead(d) ==
  /\ At(d, "getHead")
  /\ IF cloud.head = NoFile
       THEN End(d, "error")
       ELSE cmd' = [cmd EXCEPT ![d].base = cloud.head, ![d].pc = "cacheHead"]
  /\ UNCHANGED <<cloud, disk, salts, made, replaced, cmds, faults>>

CacheHead(d) ==
  /\ At(d, "cacheHead")
  /\ WriteFile(d, WithHead(d, cmd[d].base), CutHead(d))
  /\ End(d, "ok")
  /\ UNCHANGED <<cloud, salts, made, replaced, cmds>>

(* A folder that is not there is no error *)
DeleteRoot(d) ==
  /\ At(d, "deleteRoot")
  /\ cloud' = EmptyCloud
  /\ replaced' = FALSE
  /\ Replied(d, "removeLocal")
  /\ UNCHANGED <<disk, salts, made, cmds>>

RemoveLocal(d) ==
  /\ At(d, "removeLocal")
  /\ \/ disk' = [disk EXCEPT ![d] = NoFiles] /\ End(d, "ok") /\ UNCHANGED faults
     \/ Fault("remove_all") /\ End(d, "error") /\ UNCHANGED disk
  /\ UNCHANGED <<cloud, salts, made, replaced, cmds>>

----------------------------------------------------------------------------
(* Failures *)

CloudCalls == {"createRoot", "createObjects", "fetch", "getConfig", "putConfig", "loadCommit",
               "putCommit", "putHead", "removeOld", "remoteExists", "getHead", "deleteRoot"}

(* A call that fails without an effect.  The download of load_config is the one whose
   failure is caught. *)
CallFails(d) ==
  /\ cmd[d].pc \in CloudCalls
  /\ Fault("call")
  /\ IF At(d, "getConfig") THEN NoConfig(d) ELSE End(d, "error")
  /\ UNCHANGED <<cloud, disk, salts, made, replaced, cmds>>

(* What a process that dies may leave of the files it is writing or removing *)
Remains(d) ==
  {disk[d]} \cup
  CASE cmd[d].pc \in {"cacheConfig", "drawSalt"} -> CutConfig(d)
    [] cmd[d].pc \in {"writeHead", "cacheHead"}  -> CutHead(d)
    [] cmd[d].pc \in {"clear", "removeLocal"}    ->
         {NoFiles, WithConfig(d, NoFile), WithHead(d, NoFile)}
    [] OTHER                                     -> {}

Crash(d) ==
  /\ ~At(d, "idle")
  /\ Fault("crash")
  /\ \E f \in Remains(d) : disk' = [disk EXCEPT ![d] = f]
  /\ End(d, "crash")
  /\ UNCHANGED <<cloud, salts, made, replaced, cmds>>

----------------------------------------------------------------------------
Init ==
  /\ cloud = EmptyCloud
  /\ disk = [d \in Device |-> NoFiles]
  /\ cmd = [d \in Device |-> Fresh("none", "idle", "none")]
  /\ salts = 0 /\ made = 0
  /\ replaced = FALSE
  /\ cmds = 0 /\ faults = 0

Setup(d)  == ClearLocal(d) \/ CreateRoot(d) \/ RootExists(d) \/ CreateObjects(d) \/ Fetch(d)
Config(d) == LoadConfig(d) \/ GetConfig(d) \/ CacheConfig(d) \/ DrawSalt(d) \/ PutConfig(d)
Work(d)   == \/ ReadHead(d) \/ LoadCommit(d) \/ PutCommit(d)
             \/ WriteLocalHead(d) \/ PutHead(d) \/ RemoveOldCommit(d)
Sync(d)   == RemoteVaultExists(d) \/ GetHead(d) \/ CacheHead(d)
Remove(d) == DeleteRoot(d) \/ RemoveLocal(d)

Step(d) == Setup(d) \/ Config(d) \/ Work(d) \/ Sync(d) \/ Remove(d)
Next    == \E d \in Device : Begin(d) \/ Step(d) \/ CallFails(d) \/ Crash(d)

Spec == Init /\ [][Next]_vars

----------------------------------------------------------------------------
(* Properties *)

Labels == {"idle", "clear", "createRoot", "createObjects", "fetch", "loadConfig", "getConfig",
           "cacheConfig", "drawSalt", "putConfig", "readHead", "loadCommit", "putCommit",
           "writeHead", "putHead", "removeOld", "remoteExists", "getHead", "cacheHead",
           "deleteRoot", "removeLocal"}
Commit  == Nat \X Nat
File    == [config : Nat \cup {NoFile, Torn}, head : Commit \cup {NoFile, Torn}]
Folder  == [root : BOOLEAN, objects : BOOLEAN, config : Nat \cup {NoFile, Torn},
            head : Commit \cup {NoFile}, commits : SUBSET Commit]
Command == [name : Commands \cup {"none"}, pc : Labels,
            result : {"none", "ok", "error", "crash"}, salt : Nat \cup {NoFile, Torn},
            base : Commit \cup {NoFile}, new : Commit \cup {NoFile}, alone : BOOLEAN]

(* The types of the variables: never a torn HEAD in the cloud, never a commit without keys. *)
TypeOK ==
  /\ cloud \in Folder
  /\ disk \in [Device -> File]
  /\ cmd \in [Device -> Command]
  /\ salts \in Nat /\ made \in Nat /\ replaced \in BOOLEAN
  /\ cmds \in 0..MaxCmds /\ faults \in 0..MaxFaults

(* The password and the config in the cloud are enough to open the vault: no key is
   stored or carried from device to device (the design report's key management). *)
PasswordSuffices == cloud.head # NoFile => SaltOf(cloud.head) = cloud.config

(* HEAD names a commit that is there, and unless ensure_store_config has overwritten a
   config, or one was cut short on a disk, everything in the cloud is encrypted under the salt in the cloud: whatever half
   of init, sync or destroy failed or died, on whatever device, however stale the metadata
   of the devices are and however their commands overlap, a device that syncs can open
   the vault. *)
KeysAgree ==
  /\ cloud.head # NoFile => cloud.head \in cloud.commits
  /\ ~replaced => \A c \in cloud.commits : SaltOf(c) = cloud.config

Opens(d) ==
  /\ disk[d].head \in cloud.commits
  /\ SaltOf(disk[d].head) = disk[d].config

Published(d) == disk[d] = [config |-> cloud.config, head |-> cloud.head]

(* No write was cut short: the code reports success all the same (write_file_bytes and
   save_config do not look whether the flush failed). *)
Whole(d) == disk[d].head # Torn /\ disk[d].config \notin {Torn, 0}

EndsOk(d, name) ==
  /\ ~At(d, "idle") /\ cmd[d].name = name /\ cmd[d].alone
  /\ At(d, "idle")' /\ cmd'[d].result = "ok"

(* What a command that ran alone reports as done is done, whatever failed or overlapped
   before: after init, an edit, a read or sync the device can open the vault and what it
   has is what the cloud names (for a read, some snapshot; for an edit and sync, unless a
   config was overwritten), if it wrote its files whole; after destroy neither side has
   anything left. *)
OkMeansDone ==
  [][\A d \in Device :
       /\ EndsOk(d, "init") => (Whole(d) => Opens(d) /\ Published(d))'
       /\ EndsOk(d, "edit") => (Whole(d) => Opens(d))' /\ (replaced \/ (Whole(d) => Published(d))')
       /\ EndsOk(d, "read") => Opens(d)'
       /\ EndsOk(d, "sync") => replaced \/ (Whole(d) => Opens(d) /\ Published(d))'
       /\ EndsOk(d, "destroy") => (cloud = EmptyCloud /\ disk[d] = NoFiles)']_vars
=============================================================================
