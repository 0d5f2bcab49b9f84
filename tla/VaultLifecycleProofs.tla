------------------------ MODULE VaultLifecycleProofs ------------------------
(***************************************************************************)
(* For any number of devices, commands, crashes and failing calls: HEAD    *)
(* names a commit that is there (HeadInv); no commit is made under a salt  *)
(* that is not the one in the cloud, unless a config was overwritten       *)
(* (KeysInv); and a command that ran alone and reports success has done    *)
(* what it says (DoneInv).                                                 *)
(***************************************************************************)
EXTENDS VaultLifecycle, TLAPS

----------------------------------------------------------------------------
(* The inductive invariant about HEAD *)

(* Which commands come to a label *)
Named(c) ==
  /\ c.pc \in {"clear", "createRoot", "createObjects"} => c.name = "init"
  /\ c.pc \in {"fetch", "readHead", "loadCommit"} => c.name # "init"
  /\ c.pc = "deleteRoot" => c.name = "destroy"
  /\ c.pc \in {"loadConfig", "drawSalt", "putConfig", "putCommit"} => c.name # "sync"
  /\ c.pc # "idle" => c.name \in Commands

(* What a command has in hand *)
Holds(c) ==
  /\ c.pc \in {"readHead", "loadCommit", "putCommit", "putConfig"} => c.salt \in Nat
  /\ c.pc = "cacheConfig" => c.salt # NoFile
  /\ c.pc = "loadCommit" => c.base \in Commit /\ SaltOf(c.base) = c.salt
  /\ c.pc \in {"writeHead", "putHead"} => c.new \in Commit

(* A destroy has the vault to itself *)
Alone(d) ==
  ~At(d, "idle") /\ cmd[d].name = "destroy" => \A e \in Device \ {d} : At(e, "idle")

(* No commit anywhere is newer than the last one made *)
Number(c) == c[2]
Made(c)   == c \in Commit => Number(c) <= made

Numbered ==
  /\ \A c \in cloud.commits : Made(c)
  /\ Made(cloud.head)
  /\ \A d \in Device : Made(disk[d].head) /\ Made(cmd[d].base) /\ Made(cmd[d].new)

(* Between storing a commit and publishing it nobody else can name it *)
Publishing(c) == c.pc \in {"writeHead", "putHead"}

Private(d) ==
  Publishing(cmd[d]) =>
    /\ cmd[d].new \in cloud.commits
    /\ cloud.head # cmd[d].new
    /\ cmd[d].base # cmd[d].new
    /\ \A e \in Device \ {d} :
         cmd[d].new \notin {disk[e].head, cmd[e].base, cmd[e].new}

(* What is about to be removed is not what HEAD names *)
Outdated(d) == At(d, "removeOld") => cloud.head # cmd[d].base

HeadExists == cloud.head # NoFile => cloud.head \in cloud.commits

HeadInv ==
  /\ TypeOK
  /\ \A d \in Device : Named(cmd[d]) /\ Holds(cmd[d])
  /\ \A d \in Device : Alone(d) /\ Private(d) /\ Outdated(d)
  /\ Numbered
  /\ HeadExists

LEMMA NoFileIsNoCommit == NoFile \notin Commit /\ Torn \notin Commit
  BY LifecycleAssumption DEF LifecycleAssumption, Commit

----------------------------------------------------------------------------
(* Steps that leave HEAD and the commits alone.  c is what the command of d becomes, f
   what its files become: they name nothing that d did not know. *)
Follows(d, c, f) ==
  /\ c \in Command /\ f \in File
  /\ Named(c) /\ Holds(c)
  /\ c.pc # "idle" => ~At(d, "idle") /\ c.name = cmd[d].name
  /\ c.base \in {NoFile, cmd[d].base, disk[d].head, cloud.head}
  /\ c.new \in {NoFile, cmd[d].new}
  /\ Publishing(c) => Publishing(cmd[d]) /\ c.new = cmd[d].new /\ c.base = cmd[d].base
  /\ c.pc # "removeOld"
  /\ f.head \in {NoFile, Torn, disk[d].head, cmd[d].base, cmd[d].new}

Becomes(d, c, f) ==
  /\ cmd' = [cmd EXCEPT ![d] = c]
  /\ disk' = [disk EXCEPT ![d] = f]

Counters ==
  /\ salts \in Nat /\ made \in Nat /\ replaced \in BOOLEAN
  /\ cmds \in 0..MaxCmds /\ faults \in 0..MaxFaults

SameCommits == cloud'.head = cloud.head /\ cloud'.commits = cloud.commits /\ made' = made

LEMMA QuietStep ==
  ASSUME NEW d \in Device, NEW c, NEW f, HeadInv, Follows(d, c, f), Becomes(d, c, f),
         cloud' \in Folder, SameCommits, Counters'
  PROVE  HeadInv'
<1> USE NoFileIsNoCommit
<1> DEFINE Known == {NoFile, Torn, disk[d].head, cmd[d].base, cmd[d].new, cloud.head}
<1>1. TypeOK'
  BY DEF HeadInv, TypeOK, Follows, Becomes, Counters
<1>2. /\ cmd'[d] = c /\ disk'[d] = f
      /\ \A e \in Device \ {d} : cmd'[e] = cmd[e] /\ disk'[e] = disk[e]
  BY DEF HeadInv, TypeOK, Becomes
<1>3. c.base \in Known /\ c.new \in Known /\ f.head \in Known
  BY DEF Follows
<1>4. \A e \in Device : Named(cmd[e])' /\ Holds(cmd[e])'
  BY <1>2 DEF HeadInv, Follows, Named, Holds
<1>5. \A e \in Device : Alone(e)'
  BY <1>2 DEF HeadInv, Follows, Alone, At
<1>6. \A x \in Known : Made(x)
  BY DEF HeadInv, Numbered, Made
<1>7. Numbered'
  BY <1>2, <1>3, <1>6 DEF HeadInv, Numbered, Made, SameCommits
<1>8. ASSUME NEW e \in Device PROVE Private(e)'
  <2>1. CASE e = d
    BY <1>2, <2>1 DEF HeadInv, Private, Follows, Publishing, SameCommits
  <2>2. CASE e # d
    <3>1. SUFFICES ASSUME Publishing(cmd[e]) PROVE Private(e)'
      BY <1>2, <2>2 DEF Private, Publishing
    <3>2. cmd[e].new \in Commit /\ cmd[e].new \notin Known
      BY <2>2, <3>1 DEF HeadInv, Private, Publishing, Holds
    <3> QED
      BY <1>2, <1>3, <2>2, <3>1, <3>2 DEF HeadInv, Private, Publishing, SameCommits
  <2> QED
    BY <2>1, <2>2
<1>9. \A e \in Device : Outdated(e)'
  BY <1>2 DEF HeadInv, Follows, Outdated, At, SameCommits
<1>10. HeadExists'
  BY DEF HeadInv, HeadExists, SameCommits
<1> QED
  BY <1>1, <1>4, <1>5, <1>7, <1>8, <1>9, <1>10 DEF HeadInv

(* A command that ends, and one that goes on to a label *)
LEMMA EndStep ==
  ASSUME NEW d \in Device, NEW f \in File, NEW r \in {"ok", "error", "crash"}, HeadInv,
         End(d, r), disk' = [disk EXCEPT ![d] = f],
         f.head \in {NoFile, Torn, disk[d].head, cmd[d].base, cmd[d].new},
         cloud' \in Folder, SameCommits, Counters'
  PROVE  HeadInv'
<1> DEFINE c == Fresh(cmd[d].name, "idle", r)
<1>1. cmd[d].name \in Commands \cup {"none"}
  BY DEF HeadInv, TypeOK, Command
<1>2. c \in Command
  BY <1>1 DEF Fresh, Command, Labels
<1>3. c.pc = "idle" /\ c.base = NoFile /\ c.new = NoFile
  BY DEF Fresh
<1>4. Named(c) /\ Holds(c)
  BY <1>3 DEF Named, Holds
<1>5. Follows(d, c, f)
  BY <1>2, <1>3, <1>4 DEF Follows, Publishing
<1>6. Becomes(d, c, f)
  BY DEF End, Becomes
<1> QED
  BY <1>5, <1>6, QuietStep

LEMMA GoTo ==
  ASSUME NEW d \in Device, NEW label \in Labels, HeadInv, Go(d, label)
  PROVE  /\ cmd'[d] \in Command /\ cmd'[d].pc = label
         /\ cmd'[d].name = cmd[d].name /\ cmd'[d].salt = cmd[d].salt
         /\ cmd'[d].base = cmd[d].base /\ cmd'[d].new = cmd[d].new
         /\ cmd' = [cmd EXCEPT ![d] = cmd'[d]]
<1>1. cmd[d] \in Command /\ cmd \in [Device -> Command]
  BY DEF HeadInv, TypeOK
<1>2. cmd'[d] = [cmd[d] EXCEPT !.pc = label] /\ cmd' = [cmd EXCEPT ![d] = cmd'[d]]
  BY <1>1 DEF Go
<1> QED
  BY <1>1, <1>2 DEF Command

LEMMA GoStep ==
  ASSUME NEW d \in Device, NEW f \in File, NEW label \in Labels \ {"idle", "removeOld"},
         HeadInv, ~At(d, "idle"), Go(d, label), disk' = [disk EXCEPT ![d] = f],
         f.head \in {NoFile, Torn, disk[d].head, cmd[d].base, cmd[d].new},
         Named(cmd'[d]), Holds(cmd'[d]),
         label \in {"writeHead", "putHead"} => Publishing(cmd[d]),
         cloud' \in Folder, SameCommits, Counters'
  PROVE  HeadInv'
<1>1. Follows(d, cmd'[d], f)
  BY GoTo DEF Follows, Publishing
<1>2. Becomes(d, cmd'[d], f)
  BY GoTo DEF Becomes
<1> QED
  BY <1>1, <1>2, QuietStep

(* Nothing of the device changes on its disk *)
LEMMA SameDisk ==
  ASSUME NEW d \in Device, HeadInv
  PROVE  disk[d] \in File /\ disk = [disk EXCEPT ![d] = disk[d]]
  BY DEF HeadInv, TypeOK

LEMMA Ends ==
  ASSUME NEW d \in Device, NEW r \in {"ok", "error", "crash"}, HeadInv, End(d, r),
         UNCHANGED disk, cloud' \in Folder, SameCommits, Counters'
  PROVE  HeadInv'
<1>1. disk' = [disk EXCEPT ![d] = disk[d]] /\ disk[d] \in File
  BY SameDisk
<1> QED
  BY <1>1, EndStep

LEMMA Goes ==
  ASSUME NEW d \in Device, NEW label \in Labels \ {"idle", "removeOld"}, HeadInv,
         ~At(d, "idle"), Go(d, label), Named(cmd'[d]), Holds(cmd'[d]),
         label \in {"writeHead", "putHead"} => Publishing(cmd[d]),
         UNCHANGED disk, cloud' \in Folder, SameCommits, Counters'
  PROVE  HeadInv'
<1>1. disk' = [disk EXCEPT ![d] = disk[d]] /\ disk[d] \in File
  BY SameDisk
<1> QED
  BY <1>1, GoStep

LEMMA SameCloud == ASSUME HeadInv, UNCHANGED <<cloud, made>> PROVE cloud' \in Folder /\ SameCommits
  BY DEF HeadInv, TypeOK, SameCommits

LEMMA SameCounters ==
  ASSUME HeadInv, UNCHANGED <<salts, made, replaced, cmds>>,
         UNCHANGED faults \/ \E kind : Fault(kind)
  PROVE  Counters'
<1>1. faults' \in 0..MaxFaults
  BY LifecycleAssumption DEF LifecycleAssumption, HeadInv, TypeOK, Fault
<1> QED
  BY <1>1 DEF HeadInv, TypeOK, Counters

LEMMA KeepingFiles ==
  ASSUME NEW d \in Device, HeadInv
  PROVE  /\ NoFiles \in File
         /\ \A salt \in Nat \cup {NoFile, Torn} :
              WithConfig(d, salt) \in File /\ WithConfig(d, salt).head = disk[d].head
         /\ \A commit \in Commit \cup {NoFile, Torn} :
              WithHead(d, commit) \in File /\ WithHead(d, commit).head = commit
  BY SameDisk DEF NoFiles, WithConfig, WithHead, File

----------------------------------------------------------------------------
(* Every action keeps the invariant *)

LEMMA SetupKeeps == ASSUME NEW d \in Device, HeadInv, Setup(d) PROVE HeadInv'
<1> USE SameCloud, SameCounters, KeepingFiles, GoTo
<1>1. CASE ClearLocal(d)
  <2>1. ASSUME NEW f \in {NoFiles, disk[d]}, disk' = [disk EXCEPT ![d] = f] PROVE HeadInv'
    <3>1. f \in File /\ f.head \in {NoFile, disk[d].head}
      BY SameDisk DEF NoFiles
    <3>2. Named(cmd'[d]) /\ Holds(cmd'[d])
      BY <1>1 DEF ClearLocal, Labels, Named, Holds, HeadInv, At
    <3>3. Counters' /\ cloud' \in Folder /\ SameCommits
      BY <1>1 DEF ClearLocal
    <3> QED
      BY <1>1, <2>1, <3>1, <3>2, <3>3, GoStep DEF ClearLocal, Labels, At, Publishing
  <2> QED
    BY <1>1, <2>1, SameDisk DEF ClearLocal
<1>2. CASE CreateRoot(d)
  <2>1. cloud' \in Folder /\ SameCommits
    BY <1>2 DEF CreateRoot, HeadInv, TypeOK, Folder, SameCommits
  <2>2. Counters'
    BY <1>2 DEF CreateRoot, Replied
  <2>3. CASE Go(d, "createObjects")
    <3>1. Named(cmd'[d]) /\ Holds(cmd'[d])
      BY <1>2, <2>3 DEF CreateRoot, Labels, Named, Holds, HeadInv, At
    <3> QED
      BY <1>2, <2>1, <2>2, <2>3, <3>1, Goes DEF CreateRoot, Labels, At
  <2>4. CASE End(d, "error")
    BY <1>2, <2>1, <2>2, <2>4, Ends DEF CreateRoot
  <2> QED
    BY <1>2, <2>3, <2>4 DEF CreateRoot, Replied
<1>3. CASE RootExists(d)
  BY <1>3, Ends DEF RootExists
<1>4. CASE CreateObjects(d)
  <2>1. cloud' \in Folder /\ SameCommits
    BY <1>4 DEF CreateObjects, HeadInv, TypeOK, Folder, SameCommits
  <2>2. Counters'
    BY <1>4 DEF CreateObjects, Replied
  <2>3. CASE Go(d, "loadConfig")
    <3>1. Named(cmd'[d]) /\ Holds(cmd'[d])
      BY <1>4, <2>3 DEF CreateObjects, Labels, Named, Holds, HeadInv, At
    <3> QED
      BY <1>4, <2>1, <2>2, <2>3, <3>1, Goes DEF CreateObjects, Labels, At
  <2>4. CASE End(d, "error")
    BY <1>4, <2>1, <2>2, <2>4, Ends DEF CreateObjects
  <2> QED
    BY <1>4, <2>3, <2>4 DEF CreateObjects, Replied
<1>5. CASE Fetch(d)
  <2>1. CASE End(d, "error")
    BY <1>5, <2>1, Ends DEF Fetch
  <2>2. CASE Go(d, "remoteExists")
    <3>1. Named(cmd'[d]) /\ Holds(cmd'[d])
      BY <1>5, <2>2 DEF Fetch, Labels, Named, Holds, HeadInv, At
    <3> QED
      BY <1>5, <2>2, <3>1, Goes DEF Fetch, Labels, At
  <2>3. CASE cmd[d].name # "sync" /\ Go(d, "loadConfig")
    <3>1. Named(cmd'[d]) /\ Holds(cmd'[d])
      BY <1>5, <2>3 DEF Fetch, Labels, Named, Holds, HeadInv, At
    <3> QED
      BY <1>5, <2>3, <3>1, Goes DEF Fetch, Labels, At
  <2> QED
    BY <1>5, <2>1, <2>2, <2>3 DEF Fetch
<1> QED
  BY <1>1, <1>2, <1>3, <1>4, <1>5 DEF Setup

(* A command that takes a salt along *)
LEMMA SaltTaken ==
  ASSUME NEW d \in Device, NEW f \in File, NEW label \in Labels, NEW salt \in Nat \cup {NoFile, Torn},
         HeadInv, ~At(d, "idle"), cmd' = [cmd EXCEPT ![d].salt = salt, ![d].pc = label],
         disk' = [disk EXCEPT ![d] = f], f.head = disk[d].head,
         label \in {"cacheConfig", "putConfig", "readHead", "putCommit"},
         label = "cacheConfig" => salt # NoFile,
         label # "cacheConfig" => salt \in Nat /\ cmd[d].name # "sync",
         label = "readHead" => cmd[d].name # "init",
         cloud' \in Folder, SameCommits, Counters'
  PROVE  HeadInv'
<1>1. cmd[d] \in Command /\ cmd \in [Device -> Command]
  BY DEF HeadInv, TypeOK
<1>2. /\ cmd' = [cmd EXCEPT ![d] = cmd'[d]]
      /\ cmd'[d].pc = label /\ cmd'[d].salt = salt /\ cmd'[d].name = cmd[d].name
      /\ cmd'[d].base = cmd[d].base /\ cmd'[d].new = cmd[d].new
      /\ cmd'[d] \in Command
  <2>1. cmd'[d] = [[cmd[d] EXCEPT !.salt = salt] EXCEPT !.pc = label]
    BY <1>1
  <2> QED
    BY <1>1, <2>1 DEF Command
<1>3. Named(cmd'[d])
  BY <1>2 DEF Named, HeadInv, At
<1>4. Holds(cmd'[d])
  BY <1>2 DEF Holds
<1>5. Follows(d, cmd'[d], f)
  BY <1>2, <1>3, <1>4 DEF Follows, Publishing
<1> QED
  BY <1>2, <1>5, QuietStep DEF Becomes

LEMMA NoConfigKeeps ==
  ASSUME NEW d \in Device, HeadInv, NoConfig(d), ~At(d, "idle"),
         UNCHANGED disk, cloud' \in Folder, SameCommits, Counters'
  PROVE  HeadInv'
<1>1. CASE End(d, "error")
  BY <1>1, Ends
<1>2. CASE cmd[d].name # "sync" /\ Go(d, "drawSalt")
  <2>1. Named(cmd'[d]) /\ Holds(cmd'[d])
    BY <1>2, GoTo DEF Labels, Named, Holds, HeadInv, At
  <2> QED
    BY <1>2, <2>1, Goes DEF Labels
<1> QED
  BY <1>1, <1>2 DEF NoConfig

LEMMA ConfigKeeps == ASSUME NEW d \in Device, HeadInv, Config(d) PROVE HeadInv'
<1> USE SameCloud, SameCounters
<1> DEFINE c == cmd[d]
<1>0. /\ disk[d] \in File /\ disk = [disk EXCEPT ![d] = disk[d]]
      /\ disk[d].config \in Nat \cup {NoFile, Torn} /\ cloud.config \in Nat \cup {NoFile, Torn}
      /\ c.salt \in Nat \cup {NoFile, Torn} /\ salts + 1 \in Nat
      /\ Named(c) /\ Holds(c)
  BY SameDisk DEF HeadInv, TypeOK, File, Folder, Command
<1>1. CASE LoadConfig(d)
  <2> USE DEF LoadConfig
  <2>1. CASE Go(d, "getConfig")
    <3>1. Named(cmd'[d]) /\ Holds(cmd'[d])
      BY <1>0, <1>1, <2>1, GoTo DEF Labels, Named, Holds, At
    <3> QED
      BY <1>1, <2>1, <3>1, Goes DEF Labels, At
  <2>2. CASE NoConfig(d)
    BY <1>1, <2>2, NoConfigKeeps DEF At
  <2>3. CASE disk[d].config \in Nat /\ WithKeys(d, disk[d].config)
    BY <1>0, <1>1, <2>3, SaltTaken DEF WithKeys, Labels, At, Named
  <2> QED
    BY <1>0, <1>1, <2>1, <2>2, <2>3
<1>2. CASE GetConfig(d)
  <2> USE DEF GetConfig
  <2>1. CASE NoConfig(d)
    BY <1>2, <2>1, NoConfigKeeps DEF At
  <2>2. CASE /\ cloud.config # NoFile
             /\ cmd' = [cmd EXCEPT ![d].salt = cloud.config, ![d].pc = "cacheConfig"]
    BY <1>0, <1>2, <2>2, SaltTaken DEF Labels, At
  <2> QED
    BY <1>2, <2>1, <2>2
<1>3. CASE CacheConfig(d)
  <2> USE DEF CacheConfig
  <2>1. PICK f \in {WithConfig(d, c.salt)} \cup CutConfig(d) : disk' = [disk EXCEPT ![d] = f]
    BY <1>3 DEF WriteFile
  <2>2. f \in File /\ f.head = disk[d].head
    BY <1>0, KeepingFiles DEF CutConfig
  <2>3. Counters' /\ cloud' \in Folder /\ SameCommits
    <3>1. replaced' \in BOOLEAN
      BY <1>3
    <3>2. faults' \in 0..MaxFaults
      BY <1>3, LifecycleAssumption DEF LifecycleAssumption, WriteFile, Fault, HeadInv, TypeOK
    <3> QED
      BY <1>3, <3>1, <3>2 DEF Counters, HeadInv, TypeOK
  <2>4. PICK label \in {"getHead", "loadConfig"} :
          Go(d, label) /\ (label = "loadConfig" => c.name # "sync")
    BY <1>3
  <2>5. Named(cmd'[d]) /\ Holds(cmd'[d])
    BY <1>0, <1>3, <2>4, GoTo DEF Labels, Named, Holds, At
  <2> QED
    BY <1>3, <2>1, <2>2, <2>3, <2>4, <2>5, GoStep DEF Labels, At
<1>4. CASE DrawSalt(d)
  <2> USE DEF DrawSalt
  <2>1. PICK f \in {WithConfig(d, salts + 1)} \cup CutConfig(d) : disk' = [disk EXCEPT ![d] = f]
    BY <1>4 DEF WriteFile
  <2>2. f \in File /\ f.head = disk[d].head
    BY <1>0, KeepingFiles DEF CutConfig
  <2>3. faults' \in 0..MaxFaults
    BY <1>4, LifecycleAssumption DEF LifecycleAssumption, WriteFile, Fault, HeadInv, TypeOK
  <2>4. Counters' /\ cloud' \in Folder /\ SameCommits
    <3>1. replaced' \in BOOLEAN
      BY <1>4
    <3> QED
      BY <1>4, <2>3, <3>1 DEF Counters, HeadInv, TypeOK
  <2> QED
    BY <1>0, <1>4, <2>1, <2>2, <2>4, SaltTaken DEF Labels, At, Named
<1>5. CASE PutConfig(d)
  <2> USE DEF PutConfig
  <2>1. cloud' \in Folder /\ SameCommits
    BY <1>0, <1>5 DEF HeadInv, TypeOK, Folder, SameCommits
  <2>2. faults' \in 0..MaxFaults /\ replaced' \in BOOLEAN
    BY <1>5, LifecycleAssumption DEF LifecycleAssumption, Fault, HeadInv, TypeOK
  <2>3. Counters'
    BY <1>5, <2>2 DEF Counters, HeadInv, TypeOK
  <2>4. CASE WithKeys(d, c.salt)
    BY <1>0, <1>5, <2>1, <2>3, <2>4, SaltTaken DEF WithKeys, Labels, At, Named, Holds
  <2>5. CASE End(d, "error")
    BY <1>5, <2>1, <2>3, <2>5, Ends
  <2> QED
    BY <1>5, <2>4, <2>5
<1> QED
  BY <1>1, <1>2, <1>3, <1>4, <1>5 DEF Config

(* A stored commit has a number that nobody has seen *)
LEMMA NewNumber ==
  ASSUME HeadInv, NEW s \in Nat
  PROVE  /\ <<s, made + 1>> \in Commit
         /\ \A x : Made(x) => x # <<s, made + 1>>
  BY DEF Commit, Made, Number, HeadInv, TypeOK

LEMMA PutCommitKeeps == ASSUME NEW d \in Device, HeadInv, PutCommit(d) PROVE HeadInv'
<1> USE NoFileIsNoCommit
<1> DEFINE commit == <<cmd[d].salt, made + 1>>
<1>0. cmd[d].salt \in Nat /\ ~At(d, "idle") /\ made \in Nat /\ made' = made + 1
  BY DEF PutCommit, At, HeadInv, TypeOK, Holds
<1>1. commit \in Commit /\ \A x : Made(x) => x # commit
  BY <1>0, NewNumber
<1>2. /\ cloud' = [cloud EXCEPT !.commits = @ \cup {commit}]
      /\ cloud'.head = cloud.head /\ cloud'.commits = cloud.commits \cup {commit}
      /\ cloud' \in Folder /\ cloud \in Folder
      /\ UNCHANGED <<disk, salts, replaced, cmds>>
  BY <1>1 DEF PutCommit, HeadInv, TypeOK, Folder
<1>3. /\ cmd \in [Device -> Command] /\ cmd[d] \in Command
      /\ \A e \in Device : Made(disk[e].head) /\ Made(cmd[e].base) /\ Made(cmd[e].new)
      /\ Made(cloud.head)
  BY DEF HeadInv, TypeOK, Numbered
<1>4. /\ \A e \in Device \ {d} : cmd'[e] = cmd[e]
      /\ cmd' = [cmd EXCEPT ![d] = cmd'[d]] /\ cmd'[d] \in Command
      /\ \/ /\ cmd'[d].pc = "writeHead" /\ cmd'[d].name = cmd[d].name
            /\ cmd'[d].new = commit /\ cmd'[d].base = cmd[d].base
         \/ cmd'[d].pc = "idle" /\ cmd'[d].new = NoFile /\ cmd'[d].base = NoFile
  <2>1. CASE cmd' = [cmd EXCEPT ![d].new = commit, ![d].pc = "writeHead"]
    <3>1. cmd'[d] = [[cmd[d] EXCEPT !.new = commit] EXCEPT !.pc = "writeHead"]
      BY <1>3, <2>1
    <3> QED
      BY <1>1, <1>3, <2>1, <3>1 DEF Command, Labels
  <2>2. CASE End(d, "error")
    BY <1>3, <2>2 DEF End, Fresh, Command, Labels
  <2> QED
    BY <2>1, <2>2 DEF PutCommit
<1>5. faults' \in 0..MaxFaults
  BY LifecycleAssumption DEF LifecycleAssumption, PutCommit, Fault, HeadInv, TypeOK
<1>6. TypeOK'
  BY <1>0, <1>2, <1>3, <1>4, <1>5 DEF HeadInv, TypeOK
<1>7. \A e \in Device : Named(cmd[e])' /\ Holds(cmd[e])'
  BY <1>0, <1>1, <1>4 DEF HeadInv, Named, Holds, At
<1>8. \A e \in Device : Alone(e)'
  BY <1>0, <1>4 DEF HeadInv, Alone, At
<1>9. /\ \A x : Made(x) => (x \in Commit => Number(x) <= made')
      /\ Number(commit) <= made'
  BY <1>0 DEF Made, Number, Commit
<1>10. \A e \in Device : disk'[e] = disk[e]
  BY <1>2
<1>11. Numbered'
  <2>1. \A x \in cloud.commits : Made(x)
    BY DEF HeadInv, Numbered
  <2>2. \A x \in cloud'.commits : x \in Commit => Number(x) <= made'
    BY <1>2, <1>9, <2>1
  <2>3. cloud'.head \in Commit => Number(cloud'.head) <= made'
    BY <1>2, <1>3, <1>9
  <2>4. ASSUME NEW e \in Device
        PROVE  /\ disk'[e].head \in Commit => Number(disk'[e].head) <= made'
               /\ cmd'[e].base \in Commit => Number(cmd'[e].base) <= made'
               /\ cmd'[e].new \in Commit => Number(cmd'[e].new) <= made'
    BY <1>3, <1>4, <1>9, <1>10
  <2> QED
    BY <2>2, <2>3, <2>4 DEF Numbered, Made
<1>12. Private(d)'
  BY <1>1, <1>2, <1>3, <1>4 DEF Private, Publishing
<1>13. \A e \in Device \ {d} : Private(e)'
  <2> SUFFICES ASSUME NEW e \in Device \ {d}, Publishing(cmd[e]) PROVE Private(e)'
    BY <1>4 DEF Private, Publishing
  <2>1. cmd[e].new \in Commit /\ cmd[e].new # commit
    BY <1>1, <1>3 DEF HeadInv, Holds, Publishing
  <2> QED
    BY <1>2, <1>4, <2>1 DEF HeadInv, Private, Publishing
<1>14. \A e \in Device : Outdated(e)'
  BY <1>2, <1>4 DEF HeadInv, Outdated, At
<1>15. HeadExists'
  BY <1>2 DEF HeadInv, HeadExists
<1> QED
  BY <1>6, <1>7, <1>8, <1>11, <1>12, <1>13, <1>14, <1>15 DEF HeadInv

(* Steps that end a command, or leave it with a commit to remove, and change HEAD or the
   commits: what is left to show is about the cloud *)
LEMMA CloudStep ==
  ASSUME NEW d \in Device, HeadInv, ~At(d, "idle"),
         \/ \E r \in {"ok", "error", "crash"} : End(d, r)
         \/ Go(d, "removeOld") /\ cloud'.head # cmd[d].base
         \/ Go(d, "removeLocal"),
         UNCHANGED <<disk, made>>, cloud' \in Folder, Counters',
         cloud'.head \in {NoFile, cloud.head, cmd[d].new},
         cloud'.commits \subseteq cloud.commits,
         \A e \in Device \ {d} :
           /\ Publishing(cmd[e]) => cmd[e].new \in cloud'.commits /\ cloud'.head # cmd[e].new
           /\ At(e, "removeOld") => cloud'.head # cmd[e].base,
         HeadExists'
  PROVE  HeadInv'
<1>1. /\ cmd \in [Device -> Command] /\ cmd[d] \in Command
      /\ \A e \in Device : Made(disk[e].head) /\ Made(cmd[e].base) /\ Made(cmd[e].new)
      /\ Made(cloud.head) /\ \A x \in cloud.commits : Made(x)
  BY DEF HeadInv, TypeOK, Numbered
<1>2. /\ \A e \in Device \ {d} : cmd'[e] = cmd[e]
      /\ cmd' = [cmd EXCEPT ![d] = cmd'[d]] /\ cmd'[d] \in Command
      /\ \/ cmd'[d].pc = "idle" /\ cmd'[d].new = NoFile /\ cmd'[d].base = NoFile
         \/ /\ cmd'[d].pc \in {"removeOld", "removeLocal"} /\ cmd'[d].name = cmd[d].name
            /\ cmd'[d].new = cmd[d].new /\ cmd'[d].base = cmd[d].base
            /\ cmd'[d].pc = "removeOld" => cloud'.head # cmd[d].base
  <2>1. ASSUME NEW r \in {"ok", "error", "crash"}, End(d, r)
        PROVE  /\ cmd' = [cmd EXCEPT ![d] = cmd'[d]] /\ cmd'[d] \in Command
               /\ cmd'[d].pc = "idle" /\ cmd'[d].new = NoFile /\ cmd'[d].base = NoFile
    <3>1. cmd' = [cmd EXCEPT ![d] = cmd'[d]] /\ cmd'[d] = Fresh(cmd[d].name, "idle", r)
      BY <1>1, <2>1 DEF End
    <3> QED
      BY <1>1, <3>1 DEF Fresh, Command, Labels
  <2>2. \A e \in Device \ {d} : cmd'[e] = cmd[e]
    BY <1>1 DEF End, Go
  <2>3. CASE Go(d, "removeOld") /\ cloud'.head # cmd[d].base
    BY <2>2, <2>3, GoTo DEF Labels
  <2>4. CASE Go(d, "removeLocal")
    BY <2>2, <2>4, GoTo DEF Labels
  <2> QED
    BY <2>1, <2>2, <2>3, <2>4
<1>3. TypeOK'
  BY <1>1, <1>2 DEF HeadInv, TypeOK, Counters
<1>4. \A e \in Device : Named(cmd[e])' /\ Holds(cmd[e])'
  BY <1>2 DEF HeadInv, Named, Holds, At
<1>5. \A e \in Device : Alone(e)'
  BY <1>2 DEF HeadInv, Alone, At
<1>6. Numbered'
  <2>1. Made(NoFile)
    BY NoFileIsNoCommit DEF Made
  <2> QED
    BY <1>1, <1>2, <2>1 DEF Numbered, Made
<1>7. \A e \in Device : Private(e)'
  BY <1>1, <1>2, NoFileIsNoCommit DEF HeadInv, Private, Publishing, Holds
<1>8. \A e \in Device : Outdated(e)'
  BY <1>2 DEF HeadInv, Outdated, At
<1> QED
  BY <1>3, <1>4, <1>5, <1>6, <1>7, <1>8 DEF HeadInv

LEMMA PublishKeeps ==
  ASSUME NEW d \in Device, HeadInv, PutHead(d) \/ RemoveOldCommit(d) PROVE HeadInv'
<1> DEFINE c == cmd[d]
<1>0. Private(d) /\ Outdated(d) /\ \A e \in Device : Private(e) /\ Outdated(e) /\ Holds(cmd[e])
  BY DEF HeadInv
<1>1. CASE PutHead(d)
  <2> USE <1>1 DEF PutHead
  <2>1. c.new \in cloud.commits /\ c.base # c.new /\ c.new \in Commit /\ ~At(d, "idle")
    BY <1>0 DEF Private, Publishing, Holds, At
  <2>2. cloud' \in Folder /\ cloud'.head = c.new /\ cloud'.commits = cloud.commits
    BY <2>1 DEF HeadInv, TypeOK, Folder
  <2>3. Counters'
    BY SameCounters
  <2>4. \A e \in Device \ {d} :
           /\ Publishing(cmd[e]) => cmd[e].new \in cloud'.commits /\ cloud'.head # cmd[e].new
           /\ At(e, "removeOld") => cloud'.head # cmd[e].base
    BY <1>0, <2>2 DEF Private, Publishing, At
  <2>5. HeadExists'
    BY <2>1, <2>2 DEF HeadExists
  <2>6. Go(d, "removeOld") \/ \E r \in {"ok", "error", "crash"} : End(d, r)
    OBVIOUS
  <2> QED
    BY <2>1, <2>2, <2>3, <2>4, <2>5, <2>6, CloudStep
<1>2. CASE RemoveOldCommit(d)
  <2> USE <1>2 DEF RemoveOldCommit
  <2>1. cloud.head # c.base /\ ~At(d, "idle")
    BY <1>0 DEF Outdated, At
  <2>2. cloud' \in Folder /\ cloud'.head = cloud.head /\ cloud'.commits = cloud.commits \ {c.base}
    BY DEF HeadInv, TypeOK, Folder
  <2>3. Counters'
    BY SameCounters
  <2>4. \A e \in Device \ {d} :
           /\ Publishing(cmd[e]) => cmd[e].new \in cloud'.commits /\ cloud'.head # cmd[e].new
           /\ At(e, "removeOld") => cloud'.head # cmd[e].base
    BY <1>0, <2>2 DEF Private, Outdated, At
  <2>5. HeadExists'
    BY <2>1, <2>2 DEF HeadExists, HeadInv
  <2>6. \E r \in {"ok", "error", "crash"} : End(d, r)
    OBVIOUS
  <2> QED
    BY <2>1, <2>2, <2>3, <2>4, <2>5, <2>6, CloudStep
<1> QED
  BY <1>1, <1>2

(* A command that takes a commit along, as the one it works from *)
LEMMA BaseTaken ==
  ASSUME NEW d \in Device, NEW base \in Commit \cup {NoFile}, NEW label \in {"loadCommit", "cacheHead"},
         HeadInv, ~At(d, "idle"), cmd' = [cmd EXCEPT ![d].base = base, ![d].pc = label],
         base \in {disk[d].head, cloud.head},
         label = "loadCommit" => /\ base \in Commit /\ SaltOf(base) = cmd[d].salt
                                 /\ cmd[d].salt \in Nat /\ cmd[d].name # "init",
         UNCHANGED <<cloud, disk, salts, made, replaced, cmds, faults>>
  PROVE  HeadInv'
<1>1. cmd[d] \in Command /\ cmd \in [Device -> Command]
  BY DEF HeadInv, TypeOK
<1>2. /\ cmd' = [cmd EXCEPT ![d] = cmd'[d]]
      /\ cmd'[d].pc = label /\ cmd'[d].salt = cmd[d].salt /\ cmd'[d].name = cmd[d].name
      /\ cmd'[d].base = base /\ cmd'[d].new = cmd[d].new
      /\ cmd'[d] \in Command
  <2>1. cmd'[d] = [[cmd[d] EXCEPT !.base = base] EXCEPT !.pc = label]
    BY <1>1
  <2> QED
    BY <1>1, <2>1 DEF Command, Labels
<1>3. Named(cmd'[d]) /\ Holds(cmd'[d])
  BY <1>2 DEF Named, Holds, HeadInv, At
<1>4. Follows(d, cmd'[d], disk[d])
  BY <1>2, <1>3, SameDisk DEF Follows, Publishing
<1>5. Becomes(d, cmd'[d], disk[d])
  BY <1>2, SameDisk DEF Becomes
<1>6. Counters' /\ cloud' \in Folder /\ SameCommits
  BY SameCloud, SameCounters
<1> QED
  BY <1>4, <1>5, <1>6, QuietStep

LEMMA ReadKeeps ==
  ASSUME NEW d \in Device, HeadInv, ReadHead(d) \/ LoadCommit(d) \/ WriteLocalHead(d)
  PROVE  HeadInv'
<1> USE SameCloud, SameCounters
<1> DEFINE c == cmd[d]
<1>0. Named(c) /\ Holds(c) /\ disk[d] \in File /\ disk = [disk EXCEPT ![d] = disk[d]]
  BY SameDisk DEF HeadInv
<1>1. CASE ReadHead(d)
  <2> USE <1>1 DEF ReadHead
  <2>1. CASE End(d, "error")
    BY <2>1, Ends
  <2>2. CASE /\ disk[d].head \in Commit /\ SaltOf(disk[d].head) = c.salt
             /\ cmd' = [cmd EXCEPT ![d].base = disk[d].head, ![d].pc = "loadCommit"]
    BY <1>0, <2>2, BaseTaken DEF At, Named, Holds
  <2> QED
    BY <1>0, <2>1, <2>2 DEF File
<1>2. CASE LoadCommit(d)
  <2> USE <1>2 DEF LoadCommit
  <2>1. ASSUME NEW r \in {"ok", "error"}, End(d, r) PROVE HeadInv'
    BY <2>1, Ends
  <2>2. CASE c.name = "edit" /\ Go(d, "putCommit")
    <3>1. Named(cmd'[d]) /\ Holds(cmd'[d])
      BY <1>0, <2>2, GoTo DEF Labels, Named, Holds, At
    <3> QED
      BY <2>2, <3>1, Goes DEF Labels, At
  <2> QED
    BY <2>1, <2>2
<1>3. CASE WriteLocalHead(d)
  <2> USE <1>3 DEF WriteLocalHead
  <2>1. PICK f \in {WithHead(d, c.new)} \cup CutHead(d) : disk' = [disk EXCEPT ![d] = f]
    BY DEF WriteFile
  <2>2. f \in File /\ f.head \in {Torn, c.new}
    BY <1>0, KeepingFiles DEF CutHead, Holds, At
  <2>3. Counters' /\ cloud' \in Folder /\ SameCommits
    BY DEF WriteFile
  <2>4. Named(cmd'[d]) /\ Holds(cmd'[d])
    BY <1>0, GoTo DEF Labels, Named, Holds, At
  <2> QED
    BY <2>1, <2>2, <2>3, <2>4, GoStep DEF Labels, At, Publishing
<1> QED
  BY <1>1, <1>2, <1>3

LEMMA SyncKeeps == ASSUME NEW d \in Device, HeadInv, Sync(d) PROVE HeadInv'
<1> USE SameCloud, SameCounters
<1> DEFINE c == cmd[d]
<1>0. /\ Named(c) /\ Holds(c) /\ cloud.head \in Commit \cup {NoFile}
      /\ c.base \in Commit \cup {NoFile}
  BY DEF HeadInv, TypeOK, Folder, Command
<1>1. CASE RemoteVaultExists(d)
  <2> USE <1>1 DEF RemoteVaultExists
  <2>1. CASE End(d, "error")
    BY <2>1, Ends
  <2>2. CASE Go(d, "getConfig")
    <3>1. Named(cmd'[d]) /\ Holds(cmd'[d])
      BY <1>0, <2>2, GoTo DEF Labels, Named, Holds, At
    <3> QED
      BY <2>2, <3>1, Goes DEF Labels, At
  <2> QED
    BY <2>1, <2>2
<1>2. CASE GetHead(d)
  <2> USE <1>2 DEF GetHead
  <2>1. CASE End(d, "error")
    BY <2>1, Ends
  <2>2. CASE cmd' = [cmd EXCEPT ![d].base = cloud.head, ![d].pc = "cacheHead"]
    BY <1>0, <2>2, BaseTaken DEF At
  <2> QED
    BY <2>1, <2>2
<1>3. CASE CacheHead(d)
  <2> USE <1>3 DEF CacheHead
  <2>1. PICK f \in {WithHead(d, c.base)} \cup CutHead(d) : disk' = [disk EXCEPT ![d] = f]
    BY DEF WriteFile
  <2>2. f \in File /\ f.head \in {Torn, c.base}
    BY <1>0, KeepingFiles DEF CutHead
  <2>3. Counters' /\ cloud' \in Folder /\ SameCommits
    BY DEF WriteFile
  <2> QED
    BY <2>1, <2>2, <2>3, EndStep
<1> QED
  BY <1>1, <1>2, <1>3 DEF Sync

LEMMA RemoveKeeps == ASSUME NEW d \in Device, HeadInv, Remove(d) PROVE HeadInv'
<1> USE SameCloud, SameCounters
<1>1. CASE DeleteRoot(d)
  <2> USE <1>1 DEF DeleteRoot
  <2>1. cmd[d].name = "destroy" /\ ~At(d, "idle")
    BY DEF HeadInv, Named, At
  <2>2. \A e \in Device \ {d} : At(e, "idle")
    BY <2>1 DEF HeadInv, Alone
  <2>3. cloud' \in Folder /\ cloud'.head = NoFile /\ cloud'.commits = {}
    BY DEF EmptyCloud, Folder
  <2>4. Counters'
    <3>1. faults' \in 0..MaxFaults
      BY LifecycleAssumption DEF LifecycleAssumption, Replied, Fault, HeadInv, TypeOK
    <3> QED
      BY <3>1 DEF Counters, HeadInv, TypeOK
  <2>5. Go(d, "removeLocal") \/ \E r \in {"ok", "error", "crash"} : End(d, r)
    BY DEF Replied
  <2>6. HeadExists'
    BY <2>3 DEF HeadExists
  <2> QED
    BY <2>1, <2>2, <2>3, <2>4, <2>5, <2>6, CloudStep DEF At, Publishing
<1>2. CASE RemoveLocal(d)
  <2> USE <1>2 DEF RemoveLocal
  <2>1. CASE disk' = [disk EXCEPT ![d] = NoFiles] /\ End(d, "ok") /\ UNCHANGED faults
    BY <2>1, EndStep, KeepingFiles DEF NoFiles
  <2>2. CASE Fault("remove_all") /\ End(d, "error") /\ UNCHANGED disk
    BY <2>2, Ends
  <2> QED
    BY <2>1, <2>2
<1> QED
  BY <1>1, <1>2 DEF Remove

LEMMA FailureKeeps ==
  ASSUME NEW d \in Device, HeadInv, CallFails(d) \/ Crash(d) PROVE HeadInv'
<1> USE SameCloud, SameCounters
<1>1. CASE CallFails(d)
  <2> USE <1>1 DEF CallFails
  <2>1. ~At(d, "idle")
    BY DEF CloudCalls, At
  <2>2. CASE NoConfig(d)
    BY <2>1, <2>2, NoConfigKeeps
  <2>3. CASE End(d, "error")
    BY <2>3, Ends
  <2> QED
    BY <2>2, <2>3
<1>2. CASE Crash(d)
  <2>1. PICK f \in Remains(d) : disk' = [disk EXCEPT ![d] = f]
    BY <1>2 DEF Crash
  <2>2. f \in File /\ f.head \in {NoFile, Torn, disk[d].head}
    <3>1. Remains(d) \subseteq {disk[d], NoFiles, WithConfig(d, NoFile), WithHead(d, NoFile)}
                              \cup CutConfig(d) \cup CutHead(d)
      BY DEF Remains
    <3>2. \A g \in CutConfig(d) : g \in File /\ g.head = disk[d].head
      <4>1. ASSUME NEW s \in {0, Torn}
            PROVE  WithConfig(d, s) \in File /\ WithConfig(d, s).head = disk[d].head
        BY KeepingFiles
      <4> QED
        BY <4>1 DEF CutConfig
    <3>3. \A g \in CutHead(d) : g \in File /\ g.head = Torn
      BY KeepingFiles DEF CutHead
    <3>4. NoFiles.head = NoFile
      BY DEF NoFiles
    <3> QED
      BY <3>1, <3>2, <3>3, <3>4, KeepingFiles, SameDisk
  <2> QED
    BY <1>2, <2>1, <2>2, EndStep DEF Crash
<1> QED
  BY <1>1, <1>2

LEMMA BeginKeeps == ASSUME NEW d \in Device, HeadInv, Begin(d) PROVE HeadInv'
<1>1. PICK name \in Commands :
         /\ name \in Exclusive => Running = {}
         /\ cmd' = [e \in Device |->
                     IF e = d THEN [Fresh(name, FirstLabel(name), "none") EXCEPT !.alone = (Running = {})]
                     ELSE [cmd[e] EXCEPT !.alone = @ /\ At(e, "idle")]]
  BY DEF Begin
<1>2. /\ cmds' \in 0..MaxCmds
      /\ UNCHANGED <<cloud, disk, salts, made, replaced, faults>>
      /\ \A e \in Running : cmd[e].name \notin Exclusive
  BY LifecycleAssumption DEF LifecycleAssumption, Begin, HeadInv, TypeOK
<1>3. /\ cmd'[d] \in Command /\ cmd'[d].name = name /\ cmd'[d].pc = FirstLabel(name)
      /\ cmd'[d].base = NoFile /\ cmd'[d].new = NoFile
  <2>1. FirstLabel(name) \in {"clear", "deleteRoot", "fetch"}
    BY DEF FirstLabel
  <2>2. cmd'[d] = [Fresh(name, FirstLabel(name), "none") EXCEPT !.alone = (Running = {})]
    BY <1>1
  <2>3. (Running = {}) \in BOOLEAN
    OBVIOUS
  <2> QED
    BY <2>1, <2>2, <2>3 DEF Fresh, Command, Labels
<1>4. ASSUME NEW e \in Device \ {d}
      PROVE  /\ cmd'[e] \in Command /\ cmd'[e].name = cmd[e].name /\ cmd'[e].pc = cmd[e].pc
             /\ cmd'[e].salt = cmd[e].salt /\ cmd'[e].base = cmd[e].base
             /\ cmd'[e].new = cmd[e].new
  <2>1. cmd[e] \in Command
    BY DEF HeadInv, TypeOK
  <2>2. cmd'[e] = [cmd[e] EXCEPT !.alone = @ /\ At(e, "idle")]
    BY <1>1
  <2>3. (cmd[e].alone /\ At(e, "idle")) \in BOOLEAN
    OBVIOUS
  <2> QED
    BY <2>1, <2>2, <2>3 DEF Command
<1>5. TypeOK'
  <2>1. cmd' \in [Device -> Command]
    BY <1>1, <1>3, <1>4
  <2> QED
    BY <1>2, <2>1 DEF HeadInv, TypeOK
<1>6. /\ FirstLabel(name) \in {"clear", "deleteRoot", "fetch"}
      /\ FirstLabel(name) = "clear" => name = "init"
      /\ FirstLabel(name) = "deleteRoot" => name = "destroy"
      /\ FirstLabel(name) = "fetch" => name # "init"
  BY DEF FirstLabel
<1>7. \A e \in Device : Named(cmd[e])' /\ Holds(cmd[e])'
  BY <1>3, <1>4, <1>6 DEF HeadInv, Named, Holds
<1>8. \A e \in Device : Alone(e)'
  <2>1. \A e \in Device : ~At(e, "idle") => e \in Running /\ cmd[e].name \in Commands
    BY DEF Running, HeadInv, Named, At
  <2>2. \A n \in Commands : n = "destroy" => n \in Exclusive
    BY LifecycleAssumption DEF LifecycleAssumption
  <2>3. \A e \in Running : cmd[e].name # "destroy"
    BY <1>2, <2>1, <2>2 DEF Running
  <2>4. name = "destroy" => \A e \in Device : At(e, "idle")
    BY <1>1, <2>1, <2>2
  <2>5. \A e \in Device \ {d} : (At(e, "idle"))' <=> At(e, "idle")
    BY <1>4 DEF At
  <2>6. Alone(d)'
    BY <1>3, <2>4, <2>5 DEF Alone
  <2>7. \A e \in Device \ {d} : Alone(e)'
    BY <1>4, <2>1, <2>3, <2>5 DEF Alone
  <2> QED
    BY <2>6, <2>7
<1>9. Made(NoFile)
  BY NoFileIsNoCommit DEF Made
<1>10. Numbered'
  BY <1>2, <1>3, <1>4, <1>9 DEF HeadInv, Numbered, Made
<1>11. \A e \in Device : Private(e)'
  BY <1>2, <1>3, <1>4, <1>6, NoFileIsNoCommit DEF HeadInv, Private, Publishing, Holds
<1>12. \A e \in Device : Outdated(e)'
  BY <1>2, <1>3, <1>4, <1>6 DEF HeadInv, Outdated, At
<1>13. HeadExists'
  BY <1>2 DEF HeadInv, HeadExists
<1> QED
  BY <1>5, <1>7, <1>8, <1>10, <1>11, <1>12, <1>13 DEF HeadInv

LEMMA InitHead == Init => HeadInv
<1> SUFFICES ASSUME Init PROVE HeadInv
  OBVIOUS
<1> USE DEF Init
<1>1. /\ cloud.head = NoFile /\ cloud.commits = {}
      /\ \A d \in Device : /\ cmd[d].pc = "idle" /\ cmd[d].base = NoFile /\ cmd[d].new = NoFile
                            /\ cmd[d].name = "none" /\ disk[d].head = NoFile
  BY DEF EmptyCloud, NoFiles, Fresh
<1>2. cloud \in Folder /\ disk \in [Device -> File] /\ cmd \in [Device -> Command]
  BY DEF EmptyCloud, NoFiles, Fresh, Folder, File, Command, Labels
<1>3. TypeOK
  <2>1. 0 \in Nat /\ 0 \in 0..MaxCmds /\ 0 \in 0..MaxFaults
    BY LifecycleAssumption DEF LifecycleAssumption
  <2> QED
    BY <1>2, <2>1 DEF TypeOK
<1>4. Numbered /\ HeadExists
  BY <1>1, NoFileIsNoCommit DEF Numbered, Made, HeadExists
<1>5. \A d \in Device : /\ Named(cmd[d]) /\ Holds(cmd[d])
                        /\ Alone(d) /\ Private(d) /\ Outdated(d)
  BY <1>1 DEF Named, Holds, Alone, Private, Publishing, Outdated, At
<1> QED
  BY <1>3, <1>4, <1>5 DEF HeadInv

LEMMA StutterKeeps == HeadInv /\ UNCHANGED vars => HeadInv'
BY DEF vars, HeadInv, TypeOK, Named, Holds, Alone, At, Numbered, Made, Private, Publishing,
       Outdated, HeadExists

LEMMA NextHead == HeadInv /\ [Next]_vars => HeadInv'
<1>1. ASSUME NEW d \in Device, HeadInv, Step(d) PROVE HeadInv'
  BY <1>1, SetupKeeps, ConfigKeeps, ReadKeeps, PutCommitKeeps, PublishKeeps, SyncKeeps, RemoveKeeps
  DEF Step, Work
<1> QED
  BY <1>1, BeginKeeps, FailureKeeps, StutterKeeps DEF Next

(* HEAD in the cloud names a commit that is in the cloud (the first part of KeysAgree), for
   any number of devices, commands and faults: commits are stored before HEAD names them,
   nobody else can remove one in between, and the one that an edit removes is not the one
   that HEAD names by then, whoever has moved it.  What init, commit_tree and destroy do
   when they fail or overlap never leaves HEAD dangling. *)
THEOREM HeadNamesCommit == Spec => [](cloud.head # NoFile => cloud.head \in cloud.commits)
<1>1. HeadInv => (cloud.head # NoFile => cloud.head \in cloud.commits)
  BY DEF HeadInv, HeadExists
<1> QED
  BY InitHead, NextHead, <1>1, PTL DEF Spec

(* The types of the life of a vault, for any number of devices, commands and faults: no
   HEAD in the cloud is torn and no commit is made without a salt. *)
THEOREM LifecycleTypes == Spec => []TypeOK
<1>1. HeadInv => TypeOK
  BY DEF HeadInv
<1> QED
  BY InitHead, NextHead, <1>1, PTL DEF Spec

----------------------------------------------------------------------------
(* The inductive invariant about the salts, when local directories are removed whole *)

FoldersAreSafe == "remove_all" \notin FaultKinds

(* Local files are written whole, too *)
FilesAreSafe == FaultKinds \cap {"write", "remove_all"} = {}

(* A command that is about to encrypt, or to keep a config, has the salt in the cloud, and
   an init has removed any other *)
HasKeys(d) ==
  /\ FilesAreSafe \/ ~replaced => (At(d, "putConfig") => disk[d].config = cmd[d].salt)
  /\ ~replaced =>
       /\ cmd[d].pc \in {"cacheConfig", "putCommit"} => cmd[d].salt = cloud.config
       /\ cmd[d].name = "init" /\ cmd[d].pc \in {"createRoot", "createObjects", "loadConfig"} =>
            disk[d].config \in {NoFile, cloud.config}

Encrypted == ~replaced => \A c \in cloud.commits : SaltOf(c) = cloud.config

KeysInv == Encrypted /\ \A d \in Device : HasKeys(d)

Keyed == {"putConfig", "cacheConfig", "putCommit", "createRoot", "createObjects", "loadConfig"}

OthersStay(d) ==
  \A e \in Device \ {d} :
    /\ cmd'[e].pc = cmd[e].pc /\ cmd'[e].name = cmd[e].name /\ cmd'[e].salt = cmd[e].salt
    /\ disk'[e] = disk[e]

LEMMA SameKeys ==
  ASSUME NEW d \in Device, KeysInv, OthersStay(d), HasKeys(d)',
         cloud'.config = cloud.config, cloud'.commits \subseteq cloud.commits,
         replaced => replaced'
  PROVE  KeysInv'
<1>1. Encrypted'
  BY DEF KeysInv, Encrypted
<1>2. \A e \in Device \ {d} : HasKeys(e)'
  BY DEF KeysInv, HasKeys, OthersStay, At
<1> QED
  BY <1>1, <1>2 DEF KeysInv

(* The step of one device changes nobody else's command or files *)
LEMMA Bystanders ==
  ASSUME NEW d \in Device, HeadInv, Step(d) \/ CallFails(d) \/ Crash(d)
  PROVE  /\ \A e \in Device \ {d} : cmd'[e] = cmd[e] /\ disk'[e] = disk[e]
         /\ ~At(d, "idle")
<1>1. cmd \in [Device -> Command] /\ disk \in [Device -> File]
  BY DEF HeadInv, TypeOK
<1>2. \A e \in Device \ {d} : disk'[e] = disk[e]
  BY <1>1 DEF Step, CallFails, Crash, Setup, Config, Work, Sync, Remove, ClearLocal, CreateRoot,
     RootExists, CreateObjects, Fetch, LoadConfig, GetConfig, CacheConfig, DrawSalt, PutConfig,
     ReadHead, LoadCommit, PutCommit, WriteLocalHead, PutHead, RemoveOldCommit,
     RemoteVaultExists, GetHead, CacheHead, DeleteRoot, RemoveLocal, WriteFile
<1>3. \A e \in Device \ {d} : cmd'[e] = cmd[e]
  BY <1>1 DEF Step, CallFails, Crash, Setup, Config, Work, Sync, Remove, ClearLocal, CreateRoot,
     RootExists, CreateObjects, Fetch, LoadConfig, GetConfig, CacheConfig, DrawSalt, PutConfig,
     ReadHead, LoadCommit, PutCommit, WriteLocalHead, PutHead, RemoveOldCommit,
     RemoteVaultExists, GetHead, CacheHead, DeleteRoot, RemoveLocal, Replied, NoConfig, WithKeys,
     Go, End
<1>4. ~At(d, "idle")
  BY DEF Step, CallFails, Crash, CloudCalls, Setup, Config, Work, Sync, Remove, ClearLocal, CreateRoot,
     RootExists, CreateObjects, Fetch, LoadConfig, GetConfig, CacheConfig, DrawSalt, PutConfig,
     ReadHead, LoadCommit, PutCommit, WriteLocalHead, PutHead, RemoveOldCommit,
     RemoteVaultExists, GetHead, CacheHead, DeleteRoot, RemoveLocal, At
<1> QED
  BY <1>2, <1>3, <1>4

LEMMA OthersDo ==
  ASSUME NEW d \in Device, HeadInv, Step(d) \/ CallFails(d) \/ Crash(d) PROVE OthersStay(d)
BY Bystanders DEF OthersStay

(* A command that comes to a label where its salt does not matter *)
LEMMA Unkeyed ==
  ASSUME NEW d \in Device, KeysInv, OthersStay(d), cmd'[d].pc \notin Keyed,
         cloud'.config = cloud.config, cloud'.commits \subseteq cloud.commits,
         replaced => replaced'
  PROVE  KeysInv'
<1>1. HasKeys(d)'
  BY DEF HasKeys, Keyed, At
<1> QED
  BY <1>1, SameKeys

LEMMA EndUnkeyed ==
  ASSUME NEW d \in Device, HeadInv, NEW r, End(d, r) PROVE cmd'[d].pc \notin Keyed
  BY DEF End, Fresh, Keyed, HeadInv, TypeOK

LEMMA GoUnkeyed ==
  ASSUME NEW d \in Device, HeadInv, NEW label \in Labels \ Keyed, Go(d, label)
  PROVE  cmd'[d].pc \notin Keyed
  BY GoTo

LEMMA NoConfigUnkeyed ==
  ASSUME NEW d \in Device, HeadInv, NoConfig(d) PROVE cmd'[d].pc \notin Keyed
  BY EndUnkeyed, GoUnkeyed DEF NoConfig, Labels, Keyed

(* The steps after which the salt of d does not matter *)
LEMMA UnkeyedSteps ==
  ASSUME NEW d \in Device, HeadInv, KeysInv,
         \/ GetConfig(d) /\ cloud.config = NoFile
         \/ ReadHead(d) \/ WriteLocalHead(d) \/ PutHead(d) \/ RemoveOldCommit(d)
         \/ Sync(d) \/ RemoveLocal(d) \/ CallFails(d) \/ Crash(d)
  PROVE  KeysInv'
<1>1. OthersStay(d)
  BY OthersDo DEF Step, Setup, Config, Work, Remove
<1>2. /\ cloud'.config = cloud.config /\ cloud'.commits \subseteq cloud.commits
      /\ replaced' = replaced
  BY DEF HeadInv, TypeOK, Folder, GetConfig, ReadHead, WriteLocalHead, PutHead,
     RemoveOldCommit, Sync, RemoteVaultExists, GetHead, CacheHead, RemoveLocal, CallFails, Crash
<1>3. cmd'[d].pc \notin Keyed
  <2>1. CASE RemoveLocal(d) \/ RemoveOldCommit(d) \/ CacheHead(d) \/ Crash(d)
    BY <2>1, EndUnkeyed DEF RemoveLocal, RemoveOldCommit, CacheHead, Crash
  <2>2. CASE (GetConfig(d) /\ cloud.config = NoFile) \/ CallFails(d)
    BY <2>2, EndUnkeyed, NoConfigUnkeyed DEF GetConfig, CallFails
  <2>3. CASE WriteLocalHead(d) \/ PutHead(d) \/ RemoteVaultExists(d)
    BY <2>3, EndUnkeyed, GoUnkeyed DEF WriteLocalHead, PutHead, RemoteVaultExists, Labels, Keyed
  <2>4. CASE ReadHead(d) \/ GetHead(d)
    <3>1. cmd \in [Device -> Command]
      BY DEF HeadInv, TypeOK
    <3>2. ASSUME NEW base, NEW label \in {"loadCommit", "cacheHead"},
                 cmd' = [cmd EXCEPT ![d].base = base, ![d].pc = label]
          PROVE  cmd'[d].pc = label
      <4>1. cmd'[d] = [[cmd[d] EXCEPT !.base = base] EXCEPT !.pc = label]
        BY <3>1, <3>2
      <4>2. cmd[d] \in Command
        BY <3>1
      <4> QED
        BY <4>1, <4>2 DEF Command
    <3> QED
      BY <2>4, <3>2, EndUnkeyed DEF ReadHead, GetHead, Keyed
  <2> QED
    BY <2>1, <2>2, <2>3, <2>4 DEF Sync
<1> QED
  BY <1>1, <1>2, <1>3, Unkeyed

LEMMA BeginKeys == ASSUME NEW d \in Device, HeadInv, KeysInv, Begin(d) PROVE KeysInv'
<1>1. cmd \in [Device -> Command] /\ UNCHANGED <<cloud, disk, replaced>>
  BY DEF Begin, HeadInv, TypeOK
<1>2. PICK name \in Commands :
         cmd' = [e \in Device |->
                   IF e = d THEN [Fresh(name, FirstLabel(name), "none") EXCEPT !.alone = (Running = {})]
                   ELSE [cmd[e] EXCEPT !.alone = @ /\ At(e, "idle")]]
  BY DEF Begin
<1>3. ASSUME NEW e \in Device \ {d}
      PROVE  cmd'[e].pc = cmd[e].pc /\ cmd'[e].name = cmd[e].name /\ cmd'[e].salt = cmd[e].salt
  <2>1. cmd'[e] = [cmd[e] EXCEPT !.alone = @ /\ At(e, "idle")]
    BY <1>2
  <2>2. cmd[e] \in Command
    BY <1>1
  <2> QED
    BY <2>1, <2>2 DEF Command
<1>4. OthersStay(d)
  BY <1>1, <1>3 DEF OthersStay
<1>5. cmd'[d].pc \notin Keyed
  <2>1. cmd'[d] = [Fresh(name, FirstLabel(name), "none") EXCEPT !.alone = (Running = {})]
    BY <1>2
  <2> QED
    BY <2>1 DEF Fresh, FirstLabel, Keyed
<1> QED
  BY <1>1, <1>4, <1>5, Unkeyed

LEMMA SetupKeys ==
  ASSUME NEW d \in Device, FoldersAreSafe, HeadInv, KeysInv, Setup(d) PROVE KeysInv'
<1>0. /\ OthersStay(d) /\ cmd[d] \in Command /\ Named(cmd[d]) /\ HasKeys(d)
      /\ disk \in [Device -> File]
  BY OthersDo DEF Step, HeadInv, TypeOK, KeysInv
<1>1. /\ cloud'.config = cloud.config /\ cloud'.commits \subseteq cloud.commits
      /\ replaced' = replaced
  BY DEF HeadInv, TypeOK, Folder, Setup, ClearLocal, CreateRoot, RootExists, CreateObjects, Fetch
<1>2. CASE ClearLocal(d)
  <2>1. Go(d, "createRoot") /\ disk' = [disk EXCEPT ![d] = NoFiles]
    BY <1>2 DEF ClearLocal, Fault, FoldersAreSafe
  <2>2. disk'[d].config = NoFile /\ cmd'[d].pc = "createRoot"
    BY <1>0, <2>1, GoTo DEF NoFiles, Labels
  <2>3. HasKeys(d)'
    BY <2>2 DEF HasKeys, At
  <2> QED
    BY <1>0, <1>1, <2>3, SameKeys
<1>3. CASE CreateRoot(d) \/ CreateObjects(d)
  <2>1. CASE End(d, "error")
    BY <1>0, <1>1, <2>1, EndUnkeyed, Unkeyed
  <2>2. ASSUME NEW label \in {"createObjects", "loadConfig"}, Go(d, label) PROVE KeysInv'
    <3>1. /\ cmd[d].pc \in {"createRoot", "createObjects"} /\ cmd[d].name = "init"
          /\ UNCHANGED disk
      BY <1>0, <1>3 DEF CreateRoot, CreateObjects, At, Named
    <3>2. cmd'[d].pc = label /\ cmd'[d].name = "init"
      BY <2>2, <3>1, GoTo DEF Labels
    <3>3. HasKeys(d)'
      BY <1>0, <1>1, <3>1, <3>2 DEF HasKeys, At
    <3> QED
      BY <1>0, <1>1, <3>3, SameKeys
  <2> QED
    BY <1>3, <2>1, <2>2 DEF CreateRoot, CreateObjects, Replied
<1>4. CASE RootExists(d)
  BY <1>0, <1>1, <1>4, EndUnkeyed, Unkeyed DEF RootExists
<1>5. CASE Fetch(d)
  <2>1. cmd[d].name # "init" /\ UNCHANGED disk
    BY <1>0, <1>5 DEF Fetch, At, Named
  <2>2. CASE End(d, "error")
    BY <1>0, <1>1, <2>2, EndUnkeyed, Unkeyed
  <2>3. ASSUME NEW label \in {"remoteExists", "loadConfig"}, Go(d, label) PROVE KeysInv'
    <3>1. cmd'[d].pc = label /\ cmd'[d].name # "init"
      BY <2>1, <2>3, GoTo DEF Labels
    <3>2. HasKeys(d)'
      BY <3>1 DEF HasKeys, At
    <3> QED
      BY <1>0, <1>1, <3>2, SameKeys
  <2> QED
    BY <1>5, <2>2, <2>3 DEF Fetch
<1> QED
  BY <1>2, <1>3, <1>4, <1>5 DEF Setup

(* What a command that takes a salt along becomes *)
LEMMA SaltIs ==
  ASSUME NEW d \in Device, HeadInv, NEW salt, NEW label,
         cmd' = [cmd EXCEPT ![d].salt = salt, ![d].pc = label]
  PROVE  cmd'[d].salt = salt /\ cmd'[d].pc = label /\ cmd'[d].name = cmd[d].name
<1>1. cmd[d] \in Command /\ cmd \in [Device -> Command]
  BY DEF HeadInv, TypeOK
<1>2. cmd'[d] = [[cmd[d] EXCEPT !.salt = salt] EXCEPT !.pc = label]
  BY <1>1
<1> QED
  BY <1>1, <1>2 DEF Command

LEMMA WithKeysIs ==
  ASSUME NEW d \in Device, HeadInv, NEW salt, WithKeys(d, salt)
  PROVE  /\ cmd'[d].salt = salt /\ cmd'[d].name = cmd[d].name
         /\ cmd'[d].pc \in {"putCommit", "readHead"}
         /\ cmd'[d].pc = "putCommit" => cmd[d].name = "init"
<1> DEFINE label == IF cmd[d].name = "init" THEN "putCommit" ELSE "readHead"
<1>1. /\ label \in {"putCommit", "readHead"}
      /\ label = "putCommit" => cmd[d].name = "init"
  OBVIOUS
<1>2. cmd' = [cmd EXCEPT ![d].salt = salt, ![d].pc = label]
  BY DEF WithKeys
<1> HIDE DEF label
<1> QED
  BY <1>1, <1>2, SaltIs

LEMMA LoadConfigKeys ==
  ASSUME NEW d \in Device, HeadInv, KeysInv, LoadConfig(d) \/ GetConfig(d) PROVE KeysInv'
<1>0. OthersStay(d) /\ cmd[d] \in Command /\ HasKeys(d) /\ UNCHANGED <<disk, cloud, replaced>>
  BY OthersDo DEF Step, Config, HeadInv, TypeOK, KeysInv, LoadConfig, GetConfig
<1>1. CASE LoadConfig(d)
  <2> USE <1>1 DEF LoadConfig
  <2>1. CASE Go(d, "getConfig") \/ NoConfig(d)
    BY <1>0, <2>1, GoUnkeyed, NoConfigUnkeyed, Unkeyed DEF Labels, Keyed
  <2>2. CASE disk[d].config # NoFile /\ WithKeys(d, disk[d].config)
    <3>1. /\ cmd'[d].salt = disk[d].config /\ cmd'[d].name = cmd[d].name
          /\ cmd'[d].pc \in {"putCommit", "readHead"}
          /\ cmd'[d].pc = "putCommit" => cmd[d].name = "init"
      BY <2>2, WithKeysIs
    <3>2. HasKeys(d)'
      BY <1>0, <2>2, <3>1 DEF HasKeys, At
    <3> QED
      BY <1>0, <3>2, SameKeys
  <2> QED
    BY <2>1, <2>2
<1>2. CASE GetConfig(d)
  <2>1. CASE cloud.config = NoFile
    BY <1>2, <2>1, UnkeyedSteps
  <2>2. CASE cloud.config # NoFile
    <3>1. cmd'[d].salt = cloud.config /\ cmd'[d].pc = "cacheConfig"
      <4>1. cmd' = [cmd EXCEPT ![d].salt = cloud.config, ![d].pc = "cacheConfig"]
        BY <1>2, <2>2 DEF GetConfig
      <4> QED
        BY <4>1, SaltIs
    <3>2. HasKeys(d)'
      BY <1>0, <3>1 DEF HasKeys, At
    <3> QED
      BY <1>0, <3>2, SameKeys
  <2> QED
    BY <2>1, <2>2
<1> QED
  BY <1>1, <1>2

LEMMA WriteConfigKeys ==
  ASSUME NEW d \in Device, HeadInv, KeysInv, CacheConfig(d) \/ DrawSalt(d)
  PROVE  KeysInv'
<1>0. /\ OthersStay(d) /\ cmd[d] \in Command /\ HasKeys(d) /\ UNCHANGED cloud
      /\ disk \in [Device -> File]
  BY OthersDo DEF Step, Config, HeadInv, TypeOK, KeysInv, CacheConfig, DrawSalt
<1>1. replaced => replaced'
  BY DEF CacheConfig, DrawSalt
<1>2. ASSUME FilesAreSafe, NEW salt, NEW cut, WriteFile(d, WithConfig(d, salt), cut)
      PROVE  disk'[d].config = salt
  <2>1. disk' = [disk EXCEPT ![d] = WithConfig(d, salt)]
    BY <1>2 DEF WriteFile, FilesAreSafe, Fault
  <2> QED
    BY <1>0, <2>1 DEF WithConfig, File
<1>3. CASE CacheConfig(d)
  <2> USE <1>3 DEF CacheConfig
  <2>1. FilesAreSafe \/ ~replaced' => disk'[d].config = cmd[d].salt
    BY <1>2
  <2>2. cmd'[d].pc \in {"getHead", "loadConfig"} /\ cmd'[d].name = cmd[d].name
    BY GoTo DEF Labels
  <2>3. HasKeys(d)'
    BY <1>0, <1>1, <2>1, <2>2 DEF HasKeys, At
  <2> QED
    BY <1>0, <1>1, <2>3, SameKeys
<1>4. CASE DrawSalt(d)
  <2> USE <1>4 DEF DrawSalt
  <2>1. FilesAreSafe \/ ~replaced' => disk'[d].config = salts + 1
    BY <1>2
  <2>2. cmd'[d].salt = salts + 1 /\ cmd'[d].pc = "putConfig"
    BY SaltIs
  <2>3. HasKeys(d)'
    BY <2>1, <2>2 DEF HasKeys, At
  <2> QED
    BY <1>0, <1>1, <2>3, SameKeys
<1> QED
  BY <1>3, <1>4

(* The config in the cloud changes while nothing depends on it, or it is a replacement *)
LEMMA PutConfigKeys ==
  ASSUME NEW d \in Device, HeadInv, KeysInv, PutConfig(d) PROVE KeysInv'
<1> USE DEF PutConfig
<1>0. /\ OthersStay(d) /\ cmd[d] \in Command /\ HasKeys(d) /\ UNCHANGED disk
      /\ ~replaced => disk[d].config = cmd[d].salt
      /\ replaced => replaced'
  BY OthersDo DEF Step, Config, HeadInv, TypeOK, KeysInv, HasKeys, At
<1>1. /\ ~replaced => cloud'.config = cmd[d].salt
      /\ cloud'.commits = cloud.commits
  BY <1>0 DEF HeadInv, TypeOK, Folder
<1>2. cmd'[d].pc \notin Keyed \/ (cmd'[d].pc = "putCommit" /\ cmd'[d].salt = cmd[d].salt)
  <2>1. CASE End(d, "error")
    BY <2>1, EndUnkeyed
  <2>2. CASE WithKeys(d, cmd[d].salt)
    BY <2>2, WithKeysIs DEF Keyed
  <2> QED
    BY <2>1, <2>2
<1>3. HasKeys(d)'
  BY <1>1, <1>2 DEF HasKeys, Keyed, At
<1>4. SUFFICES ASSUME ~replaced' PROVE Encrypted' /\ \A e \in Device \ {d} : HasKeys(e)'
  BY <1>0, <1>3 DEF KeysInv, Encrypted, HasKeys, OthersStay, At
<1>5. ~replaced /\ cloud.config = NoFile
  BY <1>4
<1>6. cloud.commits = {}
  <2>1. \A c \in cloud.commits : c \in Commit /\ SaltOf(c) = NoFile
    BY <1>5 DEF KeysInv, Encrypted, HeadInv, TypeOK, Folder
  <2>2. \A c \in Commit : SaltOf(c) \in Nat
    BY DEF Commit, SaltOf
  <2> QED
    BY <2>1, <2>2, LifecycleAssumption DEF LifecycleAssumption
<1>7. Encrypted'
  BY <1>1, <1>6 DEF Encrypted
<1>8. ASSUME NEW e \in Device \ {d} PROVE HasKeys(e)'
  <2>1. cmd[e].pc \notin {"cacheConfig", "putCommit"}
    <3>1. NoFile \notin Nat
      BY LifecycleAssumption DEF LifecycleAssumption
    <3> QED
      BY <1>5, <3>1 DEF KeysInv, HasKeys, HeadInv, Holds
  <2>2. /\ cmd'[e].pc = cmd[e].pc /\ cmd'[e].name = cmd[e].name /\ cmd'[e].salt = cmd[e].salt
        /\ disk'[e] = disk[e]
    BY <1>0 DEF OthersStay
  <2> QED
    BY <1>5, <2>1, <2>2 DEF KeysInv, HasKeys, At
<1> QED
  BY <1>7, <1>8

LEMMA CommitKeys ==
  ASSUME NEW d \in Device, HeadInv, KeysInv, LoadCommit(d) \/ PutCommit(d) PROVE KeysInv'
<1>0. /\ OthersStay(d) /\ cmd[d] \in Command /\ HasKeys(d) /\ UNCHANGED <<disk, replaced>>
      /\ Holds(cmd[d])
  BY OthersDo DEF Step, Work, HeadInv, TypeOK, KeysInv, LoadCommit, PutCommit
<1>1. CASE LoadCommit(d)
  <2> USE <1>1 DEF LoadCommit
  <2>0. UNCHANGED cloud
    OBVIOUS
  <2>1. ASSUME NEW r \in {"ok", "error"}, End(d, r) PROVE KeysInv'
    BY <1>0, <2>0, <2>1, EndUnkeyed, Unkeyed
  <2>2. CASE cmd[d].base \in cloud.commits /\ Go(d, "putCommit")
    <3>1. cmd'[d].pc = "putCommit" /\ cmd'[d].salt = cmd[d].salt
      BY <2>2, GoTo DEF Labels
    <3>2. cmd[d].salt = SaltOf(cmd[d].base)
      BY <1>0 DEF Holds, At
    <3>3. HasKeys(d)'
      BY <2>2, <3>1, <3>2 DEF HasKeys, At, KeysInv, Encrypted
    <3> QED
      BY <1>0, <3>3, SameKeys
  <2> QED
    BY <2>1, <2>2
<1>2. CASE PutCommit(d)
  <2> USE <1>2 DEF PutCommit
  <2> DEFINE commit == <<cmd[d].salt, made + 1>>
  <2>1. cloud'.config = cloud.config /\ cloud'.commits = cloud.commits \cup {commit}
    BY DEF HeadInv, TypeOK, Folder
  <2>2. cmd'[d].pc \notin Keyed
    <3>1. cmd[d] \in Command /\ cmd \in [Device -> Command]
      BY DEF HeadInv, TypeOK
    <3>2. CASE End(d, "error")
      BY <3>2, EndUnkeyed
    <3>3. CASE cmd' = [cmd EXCEPT ![d].new = commit, ![d].pc = "writeHead"]
      <4>1. cmd'[d] = [[cmd[d] EXCEPT !.new = commit] EXCEPT !.pc = "writeHead"]
        BY <3>1, <3>3
      <4> QED
        BY <3>1, <4>1 DEF Command, Keyed
    <3> QED
      BY <3>2, <3>3
  <2>3. Encrypted'
    BY <1>0, <2>1 DEF Encrypted, KeysInv, HasKeys, SaltOf, At
  <2>4. HasKeys(d)'
    BY <2>2 DEF HasKeys, Keyed, At
  <2>5. \A e \in Device \ {d} : HasKeys(e)'
    BY <1>0, <2>1 DEF KeysInv, HasKeys, OthersStay, At
  <2> QED
    BY <2>3, <2>4, <2>5 DEF KeysInv
<1> QED
  BY <1>1, <1>2

LEMMA DeleteRootKeys ==
  ASSUME NEW d \in Device, HeadInv, KeysInv, DeleteRoot(d) PROVE KeysInv'
<1>1. OthersStay(d)
  BY OthersDo DEF Step, Remove
<1>2. \A e \in Device \ {d} : cmd[e].pc = "idle"
  BY DEF HeadInv, Named, Alone, DeleteRoot, At
<1>3. cmd'[d].pc \notin Keyed
  BY EndUnkeyed, GoUnkeyed DEF DeleteRoot, Replied, Labels, Keyed
<1>4. \A e \in Device : HasKeys(e)'
  BY <1>1, <1>2, <1>3 DEF HasKeys, OthersStay, Keyed, At
<1>5. Encrypted'
  BY DEF DeleteRoot, EmptyCloud, Encrypted
<1> QED
  BY <1>4, <1>5 DEF KeysInv

LEMMA InitKeys == Init => KeysInv
BY DEF Init, EmptyCloud, Fresh, KeysInv, Encrypted, HasKeys, At

LEMMA NextKeys == FoldersAreSafe /\ HeadInv /\ KeysInv /\ [Next]_vars => KeysInv'
<1> SUFFICES ASSUME FoldersAreSafe, HeadInv, KeysInv, [Next]_vars PROVE KeysInv'
  OBVIOUS
<1>1. ASSUME NEW d \in Device, Step(d) PROVE KeysInv'
  BY <1>1, SetupKeys, LoadConfigKeys, WriteConfigKeys, PutConfigKeys, CommitKeys, DeleteRootKeys,
     UnkeyedSteps
  DEF Step, Config, Work, Remove
<1>2. ASSUME NEW d \in Device, Begin(d) \/ CallFails(d) \/ Crash(d) PROVE KeysInv'
  BY <1>2, BeginKeys, UnkeyedSteps
<1>3. CASE UNCHANGED vars
  BY <1>3 DEF vars, KeysInv, Encrypted, HasKeys, At
<1> QED
  BY <1>1, <1>2, <1>3 DEF Next

(* HEAD names a commit that is there, and unless a config was overwritten or cut short
   everything in the cloud is encrypted under the salt in the cloud: for any number of
   devices, commands, crashes, failing calls and writes that nobody notices are not whole,
   as long as an init does not fail to remove the local directory (it would not notice).  The
   config goes up before the first commit, an edit has read a commit with the salt it
   encrypts under, and an init has cleared any salt of its own before it looks. *)
THEOREM KeysStayTogether == FoldersAreSafe => (Spec => []KeysAgree)
<1> SUFFICES ASSUME FoldersAreSafe PROVE Spec => []KeysAgree
  OBVIOUS
<1>1. Init => HeadInv /\ KeysInv
  BY InitHead, InitKeys
<1>2. (HeadInv /\ KeysInv) /\ [Next]_vars => (HeadInv /\ KeysInv)'
  BY NextHead, NextKeys
<1>3. HeadInv /\ KeysInv => KeysAgree
  BY DEF HeadInv, HeadExists, KeysInv, Encrypted, KeysAgree
<1> QED
  BY <1>1, <1>2, <1>3, PTL DEF Spec
----------------------------------------------------------------------------
(* What a command that runs alone has brought about, label by label: the induction of
   OkMeansDone *)

(* The labels on the way of each command *)
Opening == {"loadConfig", "getConfig", "cacheConfig", "drawSalt", "putConfig"}
Route(name) ==
  CASE name = "destroy" -> {"deleteRoot", "removeLocal"}
    [] name = "sync"    -> {"fetch", "remoteExists", "getConfig", "cacheConfig", "getHead", "cacheHead"}
    [] name = "init"    -> {"clear", "createRoot", "createObjects", "putCommit", "writeHead",
                            "putHead"} \cup Opening
    [] name = "read"    -> {"fetch", "readHead", "loadCommit"} \cup Opening
    [] name = "edit"    -> {"fetch", "readHead", "loadCommit", "putCommit", "writeHead", "putHead",
                            "removeOld"} \cup Opening
    [] OTHER            -> {}

OnRoute(c) == c.pc # "idle" => c.pc \in Route(c.name)

(* The keys are those of the config on the disk; for an init also of the one in the cloud *)
KeysOnDisk(c, f, w) ==
  /\ c.pc \in {"readHead", "loadCommit", "putCommit"} => f.config = c.salt
  /\ c.pc = "cacheConfig" => c.salt = w.config
  /\ c.name = "init" =>
       /\ c.pc \in {"createRoot", "createObjects", "loadConfig"} => f.config \in {NoFile, w.config}
       /\ c.pc \in {"putCommit", "writeHead", "putHead"} => f.config = w.config

(* The commit in hand is stored, and then written to the disk and published *)
CommitInHand(c, f, w) ==
  /\ c.pc = "loadCommit" => c.base = f.head
  /\ c.pc \in {"writeHead", "putHead", "removeOld"} => c.new \in w.commits /\ SaltOf(c.new) = f.config
  /\ c.pc \in {"putHead", "removeOld"} => f.head = c.new
  /\ c.pc = "removeOld" => w.head = c.new /\ c.base # c.new

(* A sync copies what is in the cloud, a destroy has emptied it *)
Copied(c, f, w) ==
  /\ c.name = "sync" =>
       /\ c.pc \in {"getConfig", "cacheConfig", "getHead", "cacheHead"} => w.head # NoFile
       /\ c.pc \in {"getHead", "cacheHead"} => f.config = w.config
       /\ c.pc = "cacheHead" => c.base = w.head
  /\ c.pc = "removeLocal" => w = EmptyCloud

SoFar(c, f, w) == KeysOnDisk(c, f, w) /\ CommitInHand(c, f, w) /\ Copied(c, f, w)

(* What running alone means *)
Undisturbed(d) == ~At(d, "idle") /\ cmd[d].alone
Solitary(d)    == Undisturbed(d) => \A e \in Device \ {d} : At(e, "idle")

DoneInv ==
  \A d \in Device :
    /\ OnRoute(cmd[d]) /\ Solitary(d)
    /\ Undisturbed(d) => SoFar(cmd[d], disk[d], cloud)

(* A command that goes on, and one that ends *)
LEMMA Continues ==
  ASSUME NEW d \in Device, HeadInv, DoneInv, Step(d) \/ CallFails(d),
         cmd'[d].name = cmd[d].name, cmd'[d].alone = cmd[d].alone,
         cmd'[d].pc \in Route(cmd[d].name),
         cmd[d].alone => SoFar(cmd'[d], disk'[d], cloud')
  PROVE  DoneInv'
<1>1. /\ \A e \in Device \ {d} : cmd'[e] = cmd[e] /\ disk'[e] = disk[e]
      /\ ~At(d, "idle")
  BY Bystanders
<1>2. OnRoute(cmd'[d]) /\ Solitary(d)' /\ (Undisturbed(d)' => SoFar(cmd'[d], disk'[d], cloud'))
  BY <1>1 DEF DoneInv, OnRoute, Solitary, Undisturbed, At
<1>3. ASSUME NEW e \in Device \ {d} PROVE OnRoute(cmd'[e]) /\ Solitary(e)' /\ ~Undisturbed(e)'
  BY <1>1 DEF DoneInv, Solitary, Undisturbed, At
<1> QED
  BY <1>2, <1>3 DEF DoneInv

LEMMA Finishes ==
  ASSUME NEW d \in Device, HeadInv, DoneInv, Step(d) \/ CallFails(d) \/ Crash(d), NEW r, End(d, r)
  PROVE  DoneInv'
<1>1. /\ \A e \in Device \ {d} : cmd'[e] = cmd[e] /\ disk'[e] = disk[e]
      /\ ~At(d, "idle")
  BY Bystanders
<1>2. cmd'[d].pc = "idle"
  BY DEF End, Fresh, HeadInv, TypeOK
<1>3. OnRoute(cmd'[d]) /\ Solitary(d)' /\ ~Undisturbed(d)'
  BY <1>2 DEF OnRoute, Solitary, Undisturbed, At
<1>4. ASSUME NEW e \in Device \ {d} PROVE OnRoute(cmd'[e]) /\ Solitary(e)' /\ ~Undisturbed(e)'
  BY <1>1 DEF DoneInv, Solitary, Undisturbed, At
<1> QED
  BY <1>3, <1>4 DEF DoneInv

(* What becomes of the record of a command that goes on to a label, taking v along *)
GoWithSalt(d, v, label) == cmd' = [cmd EXCEPT ![d].salt = v, ![d].pc = label]
GoWithBase(d, v, label) == cmd' = [cmd EXCEPT ![d].base = v, ![d].pc = label]
GoWithNew(d, v, label)  == cmd' = [cmd EXCEPT ![d].new = v, ![d].pc = label]

LEMMA GoIs ==
  ASSUME NEW d \in Device, HeadInv, NEW label, Go(d, label)
  PROVE  /\ cmd'[d].pc = label /\ cmd'[d].name = cmd[d].name /\ cmd'[d].alone = cmd[d].alone
         /\ cmd'[d].salt = cmd[d].salt /\ cmd'[d].base = cmd[d].base /\ cmd'[d].new = cmd[d].new
<1>1. cmd[d] \in Command /\ cmd \in [Device -> Command]
  BY DEF HeadInv, TypeOK
<1>2. cmd'[d] = [cmd[d] EXCEPT !.pc = label]
  BY <1>1 DEF Go
<1> QED
  BY <1>1, <1>2 DEF Command

LEMMA TakesSalt ==
  ASSUME NEW d \in Device, HeadInv, NEW v, NEW label, GoWithSalt(d, v, label)
  PROVE  /\ cmd'[d].pc = label /\ cmd'[d].name = cmd[d].name /\ cmd'[d].alone = cmd[d].alone
         /\ cmd'[d].salt = v
<1>1. cmd[d] \in Command /\ cmd \in [Device -> Command]
  BY DEF HeadInv, TypeOK
<1>2. cmd'[d] = [[cmd[d] EXCEPT !.salt = v] EXCEPT !.pc = label]
  BY <1>1 DEF GoWithSalt
<1> QED
  BY <1>1, <1>2 DEF Command

LEMMA TakesBase ==
  ASSUME NEW d \in Device, HeadInv, NEW v, NEW label, GoWithBase(d, v, label)
  PROVE  /\ cmd'[d].pc = label /\ cmd'[d].name = cmd[d].name /\ cmd'[d].alone = cmd[d].alone
         /\ cmd'[d].salt = cmd[d].salt /\ cmd'[d].base = v
<1>1. cmd[d] \in Command /\ cmd \in [Device -> Command]
  BY DEF HeadInv, TypeOK
<1>2. cmd'[d] = [[cmd[d] EXCEPT !.base = v] EXCEPT !.pc = label]
  BY <1>1 DEF GoWithBase
<1> QED
  BY <1>1, <1>2 DEF Command

LEMMA TakesNew ==
  ASSUME NEW d \in Device, HeadInv, NEW v, NEW label, GoWithNew(d, v, label)
  PROVE  /\ cmd'[d].pc = label /\ cmd'[d].name = cmd[d].name /\ cmd'[d].alone = cmd[d].alone
         /\ cmd'[d].new = v
<1>1. cmd[d] \in Command /\ cmd \in [Device -> Command]
  BY DEF HeadInv, TypeOK
<1>2. cmd'[d] = [[cmd[d] EXCEPT !.new = v] EXCEPT !.pc = label]
  BY <1>1 DEF GoWithNew
<1> QED
  BY <1>1, <1>2 DEF Command

(* What is known at the start of a step *)
LEMMA AtStart ==
  ASSUME NEW d \in Device, HeadInv, DoneInv, Step(d) \/ CallFails(d)
  PROVE  /\ cmd[d] \in Command /\ disk[d] \in File /\ disk \in [Device -> File]
         /\ cloud \in Folder
         /\ Holds(cmd[d]) /\ cmd[d].pc \in Route(cmd[d].name)
         /\ cmd[d].alone => SoFar(cmd[d], disk[d], cloud)
BY Bystanders DEF HeadInv, TypeOK, DoneInv, OnRoute, Undisturbed, At

LEMMA SetupDone ==
  ASSUME NEW d \in Device, FilesAreSafe, HeadInv, DoneInv, Setup(d) PROVE DoneInv'
<1>0. /\ cmd[d] \in Command /\ disk[d] \in File /\ disk \in [Device -> File] /\ cloud \in Folder
      /\ Step(d) /\ cmd[d].pc \in Route(cmd[d].name)
      /\ cmd[d].alone => SoFar(cmd[d], disk[d], cloud)
  BY AtStart DEF Step
<1>1. CASE \E r : End(d, r)
  BY <1>0, <1>1, Finishes
<1>2. CASE ClearLocal(d)
  <2>1. Go(d, "createRoot") /\ disk'[d].config = NoFile /\ At(d, "clear")
    BY <1>0, <1>2 DEF ClearLocal, Fault, FilesAreSafe, NoFiles
  <2>2. cmd[d].name = "init"
    BY <1>0, <2>1 DEF Route, Opening, At
  <2>3. SoFar(cmd'[d], disk'[d], cloud')
    BY <2>1, GoIs DEF SoFar, KeysOnDisk, CommitInHand, Copied
  <2>4. "createRoot" \in Route(cmd[d].name)
    BY <2>2 DEF Route
  <2> QED
    BY <1>0, <2>1, <2>3, <2>4, GoIs, Continues
<1>3. ASSUME NEW label \in {"createObjects", "loadConfig"}, CreateRoot(d) \/ CreateObjects(d), Go(d, label)
      PROVE  DoneInv'
  <2>1. cmd[d].pc \in {"createRoot", "createObjects"} /\ cmd[d].name = "init"
    BY <1>0, <1>3 DEF CreateRoot, CreateObjects, Route, Opening, At
  <2>2. UNCHANGED disk /\ cloud'.config = cloud.config
    BY <1>0, <1>3 DEF CreateRoot, CreateObjects, Folder
  <2>3. cmd[d].alone => SoFar(cmd'[d], disk'[d], cloud')
    BY <1>0, <1>3, <2>1, <2>2, GoIs DEF SoFar, KeysOnDisk, CommitInHand, Copied
  <2>4. label \in Route(cmd[d].name)
    BY <2>1 DEF Route, Opening
  <2> QED
    BY <1>0, <1>3, <2>3, <2>4, GoIs, Continues
<1>4. ASSUME NEW label \in {"remoteExists", "loadConfig"}, Fetch(d), Go(d, label),
             label = IF cmd[d].name = "sync" THEN "remoteExists" ELSE "loadConfig"
      PROVE  DoneInv'
  <2>1. cmd[d].name \in {"sync", "read", "edit"}
    BY <1>0, <1>4 DEF Fetch, Route, Opening, At
  <2>2. SoFar(cmd'[d], disk'[d], cloud')
    BY <1>4, <2>1, GoIs DEF SoFar, KeysOnDisk, CommitInHand, Copied
  <2>3. label \in Route(cmd[d].name)
    BY <1>4, <2>1 DEF Route, Opening
  <2> QED
    BY <1>0, <1>4, <2>2, <2>3, GoIs, Continues
<1>5. CASE CreateRoot(d) \/ CreateObjects(d)
  BY <1>1, <1>3, <1>5 DEF CreateRoot, CreateObjects, Replied
<1>6. CASE RootExists(d) \/ Fetch(d)
  BY <1>1, <1>4, <1>6 DEF RootExists, Fetch
<1> QED
  BY <1>2, <1>5, <1>6 DEF Setup

(* Without a config a command ends, or draws a salt of its own *)
LEMMA NoConfigDone ==
  ASSUME NEW d \in Device, HeadInv, DoneInv, Step(d) \/ CallFails(d),
         cmd[d].pc \in {"loadConfig", "getConfig"}, NoConfig(d)
  PROVE  DoneInv'
<1>1. CASE End(d, "error")
  BY <1>1, Finishes
<1>2. CASE cmd[d].name # "sync" /\ Go(d, "drawSalt")
  <2>1. "drawSalt" \in Route(cmd[d].name)
    BY <1>2, AtStart DEF Route, Opening
  <2>2. SoFar(cmd'[d], disk'[d], cloud')
    BY <1>2, GoIs DEF SoFar, KeysOnDisk, CommitInHand, Copied
  <2> QED
    BY <1>2, <2>1, <2>2, GoIs, Continues
<1> QED
  BY <1>1, <1>2 DEF NoConfig

(* A command that has its keys, and has them on the disk *)
LEMMA WithKeysDone ==
  ASSUME NEW d \in Device, HeadInv, DoneInv, Step(d),
         cmd[d].pc \in {"loadConfig", "putConfig"}, NEW salt, WithKeys(d, salt),
         disk'[d].config = salt,
         cmd[d].alone => (cmd[d].name = "init" => disk'[d].config = cloud'.config)
  PROVE  DoneInv'
<1> DEFINE label == IF cmd[d].name = "init" THEN "putCommit" ELSE "readHead"
<1>1. cmd[d].name \in {"init", "read", "edit"}
  BY AtStart DEF Route, Opening
<1>2. label \in Route(cmd[d].name)
  BY <1>1 DEF Route
<1>3. /\ cmd'[d].pc = label /\ cmd'[d].name = cmd[d].name /\ cmd'[d].alone = cmd[d].alone
      /\ cmd'[d].salt = salt
  <2>1. GoWithSalt(d, salt, label)
    BY DEF WithKeys, GoWithSalt
  <2> HIDE DEF label
  <2> QED
    BY <2>1, TakesSalt
<1>4. cmd[d].alone => SoFar(cmd'[d], disk'[d], cloud')
  BY <1>1, <1>3 DEF SoFar, KeysOnDisk, CommitInHand, Copied
<1> QED
  BY <1>2, <1>3, <1>4, Continues

LEMMA ConfigDone ==
  ASSUME NEW d \in Device, FilesAreSafe, HeadInv, KeysInv, DoneInv, Config(d) PROVE DoneInv'
<1>0. /\ cmd[d] \in Command /\ disk[d] \in File /\ disk \in [Device -> File] /\ cloud \in Folder
      /\ Step(d) /\ cmd[d].pc \in Route(cmd[d].name)
      /\ cmd[d].alone => SoFar(cmd[d], disk[d], cloud)
  BY AtStart DEF Step
<1>1. CASE \E r : End(d, r)
  BY <1>0, <1>1, Finishes
<1>2. CASE LoadConfig(d)
  <2>1. cmd[d].pc = "loadConfig" /\ UNCHANGED <<cloud, disk>>
    BY <1>2 DEF LoadConfig, At
  <2>2. CASE NoConfig(d)
    BY <1>0, <2>1, <2>2, NoConfigDone
  <2>3. CASE Go(d, "getConfig")
    <3>1. cmd[d].name # "sync" /\ "getConfig" \in Route(cmd[d].name)
      BY <1>0, <2>1 DEF Route, Opening
    <3>2. SoFar(cmd'[d], disk'[d], cloud')
      BY <2>3, <3>1, GoIs DEF SoFar, KeysOnDisk, CommitInHand, Copied
    <3> QED
      BY <1>0, <2>3, <3>1, <3>2, GoIs, Continues
  <2>4. CASE disk[d].config # NoFile /\ WithKeys(d, disk[d].config)
    <3>1. cmd[d].alone => (cmd[d].name = "init" => disk[d].config = cloud.config)
      BY <1>0, <2>1, <2>4 DEF SoFar, KeysOnDisk
    <3> QED
      BY <1>0, <2>1, <2>4, <3>1, WithKeysDone
  <2> QED
    BY <1>2, <2>2, <2>3, <2>4 DEF LoadConfig
<1>3. CASE GetConfig(d)
  <2>1. cmd[d].pc = "getConfig" /\ UNCHANGED <<cloud, disk>>
    BY <1>3 DEF GetConfig, At
  <2>2. CASE NoConfig(d)
    BY <1>0, <2>1, <2>2, NoConfigDone
  <2>3. CASE cmd' = [cmd EXCEPT ![d].salt = cloud.config, ![d].pc = "cacheConfig"]
    <3>1. "cacheConfig" \in Route(cmd[d].name)
      BY <1>0, <2>1 DEF Route, Opening
    <3>2. /\ cmd'[d].pc = "cacheConfig" /\ cmd'[d].salt = cloud.config
          /\ cmd'[d].name = cmd[d].name /\ cmd'[d].alone = cmd[d].alone
      <4>1. GoWithSalt(d, cloud.config, "cacheConfig")
        BY <2>3 DEF GoWithSalt
      <4> QED
        BY <4>1, TakesSalt
    <3>3. cmd[d].alone => SoFar(cmd'[d], disk'[d], cloud')
      BY <1>0, <2>1, <3>2 DEF SoFar, KeysOnDisk, CommitInHand, Copied
    <3> QED
      BY <1>0, <3>1, <3>2, <3>3, Continues
  <2> QED
    BY <1>3, <2>2, <2>3 DEF GetConfig
<1>4. CASE CacheConfig(d)
  <2> DEFINE label == IF cmd[d].name = "sync" THEN "getHead" ELSE "loadConfig"
  <2>1. /\ cmd[d].pc = "cacheConfig" /\ UNCHANGED cloud /\ Go(d, label)
        /\ disk'[d].config = cmd[d].salt
    BY <1>0, <1>4 DEF CacheConfig, At, WriteFile, WithConfig, File, Fault, FilesAreSafe
  <2>2. label \in Route(cmd[d].name)
    BY <1>0, <2>1 DEF Route, Opening
  <2>3. cmd'[d].pc = label /\ cmd'[d].name = cmd[d].name /\ cmd'[d].alone = cmd[d].alone
    <3> HIDE DEF label
    <3> QED
      BY <2>1, GoIs
  <2>4. cmd[d].alone => SoFar(cmd'[d], disk'[d], cloud')
    BY <1>0, <2>1, <2>3 DEF SoFar, KeysOnDisk, CommitInHand, Copied
  <2> QED
    BY <1>0, <2>2, <2>3, <2>4, Continues
<1>5. CASE DrawSalt(d)
  <2>1. cmd[d].pc = "drawSalt" /\ UNCHANGED cloud
    BY <1>5 DEF DrawSalt, At
  <2>2. cmd'[d].pc = "putConfig" /\ cmd'[d].name = cmd[d].name /\ cmd'[d].alone = cmd[d].alone
    <3>1. GoWithSalt(d, salts + 1, "putConfig")
      BY <1>5 DEF DrawSalt, GoWithSalt
    <3> QED
      BY <3>1, TakesSalt
  <2>3. "putConfig" \in Route(cmd[d].name)
    BY <1>0, <2>1 DEF Route, Opening
  <2>4. SoFar(cmd'[d], disk'[d], cloud')
    BY <2>2 DEF SoFar, KeysOnDisk, CommitInHand, Copied
  <2> QED
    BY <1>0, <2>2, <2>3, <2>4, Continues
<1>6. CASE PutConfig(d) /\ WithKeys(d, cmd[d].salt)
  <2>1. /\ cmd[d].pc = "putConfig" /\ UNCHANGED disk
        /\ disk[d].config = cmd[d].salt /\ cloud'.config = disk[d].config
    BY <1>0, <1>6 DEF PutConfig, KeysInv, HasKeys, At, Folder
  <2> QED
    BY <1>0, <1>6, <2>1, WithKeysDone
<1> QED
  BY <1>1, <1>2, <1>3, <1>4, <1>5, <1>6 DEF Config, PutConfig

LEMMA WorkDone ==
  ASSUME NEW d \in Device, FilesAreSafe, HeadInv, DoneInv, Work(d) PROVE DoneInv'
<1>0. /\ cmd[d] \in Command /\ disk[d] \in File /\ disk \in [Device -> File] /\ cloud \in Folder
      /\ Step(d) /\ cmd[d].pc \in Route(cmd[d].name)
      /\ cmd[d].alone => SoFar(cmd[d], disk[d], cloud)
      /\ Private(d) /\ Holds(cmd[d])
  BY AtStart DEF Step, HeadInv
<1>1. CASE \E r : End(d, r)
  BY <1>0, <1>1, Finishes
<1>2. CASE ReadHead(d) /\ cmd' = [cmd EXCEPT ![d].base = disk[d].head, ![d].pc = "loadCommit"]
  <2>1. cmd[d].pc = "readHead" /\ UNCHANGED <<cloud, disk>>
    BY <1>2 DEF ReadHead, At
  <2>2. /\ cmd'[d].pc = "loadCommit" /\ cmd'[d].base = disk[d].head /\ cmd'[d].salt = cmd[d].salt
        /\ cmd'[d].name = cmd[d].name /\ cmd'[d].alone = cmd[d].alone
    <3>1. GoWithBase(d, disk[d].head, "loadCommit")
      BY <1>2 DEF GoWithBase
    <3> QED
      BY <3>1, TakesBase
  <2>3. "loadCommit" \in Route(cmd[d].name)
    BY <1>0, <2>1 DEF Route, Opening
  <2>4. cmd[d].alone => SoFar(cmd'[d], disk'[d], cloud')
    BY <1>0, <2>1, <2>2 DEF SoFar, KeysOnDisk, CommitInHand, Copied
  <2> QED
    BY <1>0, <2>2, <2>3, <2>4, Continues
<1>3. CASE LoadCommit(d) /\ cmd[d].name = "edit" /\ Go(d, "putCommit")
  <2>1. cmd[d].pc = "loadCommit" /\ UNCHANGED <<cloud, disk>>
    BY <1>3 DEF LoadCommit, At
  <2>2. cmd[d].alone => SoFar(cmd'[d], disk'[d], cloud')
    BY <1>0, <1>3, <2>1, GoIs DEF SoFar, KeysOnDisk, CommitInHand, Copied
  <2>3. "putCommit" \in Route(cmd[d].name)
    BY <1>3 DEF Route
  <2> QED
    BY <1>0, <1>3, <2>2, <2>3, GoIs, Continues
<1>4. CASE PutCommit(d) /\ ~\E r : End(d, r)
  <2> DEFINE commit == <<cmd[d].salt, made + 1>>
  <2>1. /\ cmd[d].pc = "putCommit" /\ UNCHANGED disk /\ cloud'.config = cloud.config
        /\ commit \in cloud'.commits /\ SaltOf(commit) = cmd[d].salt
        /\ GoWithNew(d, commit, "writeHead")
    BY <1>0, <1>4 DEF PutCommit, At, Folder, SaltOf, GoWithNew
  <2> HIDE DEF commit
  <2>2. /\ cmd'[d].pc = "writeHead" /\ cmd'[d].new = commit
        /\ cmd'[d].name = cmd[d].name /\ cmd'[d].alone = cmd[d].alone
    BY <2>1, TakesNew
  <2>3. "writeHead" \in Route(cmd[d].name)
    BY <1>0, <2>1 DEF Route, Opening
  <2>4. cmd[d].alone => SoFar(cmd'[d], disk'[d], cloud')
    BY <1>0, <2>1, <2>2 DEF SoFar, KeysOnDisk, CommitInHand, Copied
  <2> QED
    BY <1>0, <2>2, <2>3, <2>4, Continues
<1>5. CASE WriteLocalHead(d)
  <2>1. /\ cmd[d].pc = "writeHead" /\ UNCHANGED cloud /\ Go(d, "putHead")
        /\ disk'[d].head = cmd[d].new /\ disk'[d].config = disk[d].config
    BY <1>0, <1>5 DEF WriteLocalHead, At, WriteFile, WithHead, File, Fault, FilesAreSafe
  <2>2. cmd[d].alone => SoFar(cmd'[d], disk'[d], cloud')
    BY <1>0, <2>1, GoIs DEF SoFar, KeysOnDisk, CommitInHand, Copied
  <2>3. "putHead" \in Route(cmd[d].name)
    BY <1>0, <2>1 DEF Route, Opening
  <2> QED
    BY <1>0, <2>1, <2>2, <2>3, GoIs, Continues
<1>6. CASE PutHead(d) /\ cmd[d].name = "edit" /\ Go(d, "removeOld")
  <2>1. /\ cmd[d].pc = "putHead" /\ UNCHANGED disk
        /\ cloud'.head = cmd[d].new /\ cloud'.commits = cloud.commits
    BY <1>0, <1>6 DEF PutHead, At, Folder
  <2>2. cmd[d].base # cmd[d].new
    BY <1>0, <2>1 DEF Private, Publishing
  <2>3. cmd[d].alone => SoFar(cmd'[d], disk'[d], cloud')
    BY <1>0, <1>6, <2>1, <2>2, GoIs DEF SoFar, KeysOnDisk, CommitInHand, Copied
  <2>4. "removeOld" \in Route(cmd[d].name)
    BY <1>6 DEF Route
  <2> QED
    BY <1>0, <1>6, <2>3, <2>4, GoIs, Continues
<1> QED
  BY <1>1, <1>2, <1>3, <1>4, <1>5, <1>6 DEF Work, ReadHead, LoadCommit, PutHead, RemoveOldCommit

LEMMA SyncDone ==
  ASSUME NEW d \in Device, HeadInv, DoneInv, Sync(d) \/ Remove(d) PROVE DoneInv'
<1>0. /\ cmd[d] \in Command /\ Step(d) /\ cmd[d].pc \in Route(cmd[d].name)
      /\ cmd[d].alone => SoFar(cmd[d], disk[d], cloud)
  BY AtStart DEF Step
<1>1. CASE \E r : End(d, r)
  BY <1>0, <1>1, Finishes
<1>2. CASE RemoteVaultExists(d) /\ cloud.head # NoFile /\ Go(d, "getConfig")
  <2>1. cmd[d].pc = "remoteExists" /\ UNCHANGED <<cloud, disk>>
    BY <1>2 DEF RemoteVaultExists, At
  <2>2. SoFar(cmd'[d], disk'[d], cloud')
    BY <1>2, <2>1, GoIs DEF SoFar, KeysOnDisk, CommitInHand, Copied
  <2>3. "getConfig" \in Route(cmd[d].name)
    BY <1>0, <2>1 DEF Route, Opening
  <2> QED
    BY <1>0, <1>2, <2>2, <2>3, GoIs, Continues
<1>3. CASE GetHead(d) /\ GoWithBase(d, cloud.head, "cacheHead")
  <2>1. /\ cmd[d].pc = "getHead" /\ UNCHANGED <<cloud, disk>>
        /\ GoWithBase(d, cloud.head, "cacheHead")
    BY <1>3 DEF GetHead, At, GoWithBase
  <2>2. /\ cmd'[d].pc = "cacheHead" /\ cmd'[d].base = cloud.head
        /\ cmd'[d].name = cmd[d].name /\ cmd'[d].alone = cmd[d].alone
    BY <2>1, TakesBase
  <2>3. "cacheHead" \in Route(cmd[d].name)
    BY <1>0, <2>1 DEF Route, Opening
  <2>4. cmd[d].alone => SoFar(cmd'[d], disk'[d], cloud')
    BY <1>0, <2>1, <2>2 DEF SoFar, KeysOnDisk, CommitInHand, Copied
  <2> QED
    BY <1>0, <2>2, <2>3, <2>4, Continues
<1>4. CASE DeleteRoot(d) /\ Go(d, "removeLocal")
  <2>1. cmd[d].pc = "deleteRoot" /\ cloud' = EmptyCloud
    BY <1>4 DEF DeleteRoot, At
  <2>2. cmd[d].name = "destroy"
    BY <1>0, <2>1 DEF Route, Opening
  <2>3. SoFar(cmd'[d], disk'[d], cloud')
    BY <1>4, <2>1, <2>2, GoIs DEF SoFar, KeysOnDisk, CommitInHand, Copied
  <2>4. "removeLocal" \in Route(cmd[d].name)
    BY <2>2 DEF Route
  <2> QED
    BY <1>0, <1>4, <2>3, <2>4, GoIs, Continues
<1> QED
  BY <1>1, <1>2, <1>3, <1>4
  DEF Sync, Remove, RemoteVaultExists, GetHead, GoWithBase, CacheHead, DeleteRoot, RemoveLocal,
      Replied

LEMMA FailureDone ==
  ASSUME NEW d \in Device, HeadInv, DoneInv, CallFails(d) \/ Crash(d) PROVE DoneInv'
<1>1. CASE \E r : End(d, r)
  BY <1>1, Finishes
<1>2. CASE CallFails(d) /\ cmd[d].pc = "getConfig" /\ NoConfig(d)
  BY <1>2, NoConfigDone
<1> QED
  BY <1>1, <1>2 DEF CallFails, Crash, At

(* A command begins alone only while no other runs, and whoever begins later ends that *)
LEMMA BeginDone == ASSUME NEW d \in Device, HeadInv, DoneInv, Begin(d) PROVE DoneInv'
<1>1. cmd \in [Device -> Command] /\ UNCHANGED <<cloud, disk>> /\ At(d, "idle")
  BY DEF Begin, HeadInv, TypeOK
<1>2. PICK name \in Commands :
         cmd' = [e \in Device |->
                   IF e = d THEN [Fresh(name, FirstLabel(name), "none") EXCEPT !.alone = (Running = {})]
                   ELSE [cmd[e] EXCEPT !.alone = @ /\ At(e, "idle")]]
  BY DEF Begin
<1>3. ASSUME NEW e \in Device \ {d}
      PROVE  /\ cmd'[e].pc = cmd[e].pc /\ cmd'[e].name = cmd[e].name
             /\ cmd'[e].alone <=> cmd[e].alone /\ At(e, "idle")
  <2>1. cmd'[e] = [cmd[e] EXCEPT !.alone = @ /\ At(e, "idle")]
    BY <1>2
  <2>2. cmd[e] \in Command
    BY <1>1
  <2> QED
    BY <2>1, <2>2 DEF Command
<1>4. ASSUME NEW e \in Device \ {d} PROVE OnRoute(cmd'[e]) /\ ~Undisturbed(e)'
  BY <1>3 DEF DoneInv, OnRoute, Undisturbed, At
<1>5. /\ cmd'[d].pc = FirstLabel(name) /\ cmd'[d].name = name
      /\ cmd'[d].alone <=> Running = {}
  <2>1. cmd'[d] = [Fresh(name, FirstLabel(name), "none") EXCEPT !.alone = (Running = {})]
    BY <1>2
  <2> QED
    BY <2>1 DEF Fresh
<1>6. OnRoute(cmd'[d])
  <2>1. name \in {"init", "destroy", "sync", "edit", "read"}
    BY LifecycleAssumption DEF LifecycleAssumption
  <2>2. FirstLabel(name) \in Route(name)
    BY <2>1 DEF FirstLabel, Route
  <2> QED
    BY <1>5, <2>2 DEF OnRoute
<1>7. Solitary(d)'
  BY <1>3, <1>5 DEF Solitary, Undisturbed, Running, At
<1>8. SoFar(cmd'[d], disk'[d], cloud')
  <2>1. FirstLabel(name) \in {"clear", "deleteRoot", "fetch"}
    BY DEF FirstLabel
  <2> QED
    BY <1>5, <2>1 DEF SoFar, KeysOnDisk, CommitInHand, Copied
<1> QED
  BY <1>4, <1>6, <1>7, <1>8 DEF DoneInv, Solitary

LEMMA InitDone == Init => DoneInv
BY DEF Init, Fresh, DoneInv, OnRoute, Solitary, Undisturbed, At

LEMMA NextDone == FilesAreSafe /\ HeadInv /\ KeysInv /\ DoneInv /\ [Next]_vars => DoneInv'
<1> SUFFICES ASSUME FilesAreSafe, HeadInv, KeysInv, DoneInv, [Next]_vars PROVE DoneInv'
  OBVIOUS
<1>1. ASSUME NEW d \in Device, Step(d) PROVE DoneInv'
  BY <1>1, SetupDone, ConfigDone, WorkDone, SyncDone DEF Step
<1>2. ASSUME NEW d \in Device, Begin(d) \/ CallFails(d) \/ Crash(d) PROVE DoneInv'
  BY <1>2, BeginDone, FailureDone
<1>3. CASE UNCHANGED vars
  BY <1>3 DEF vars, DoneInv, Solitary, Undisturbed, At
<1> QED
  BY <1>1, <1>2, <1>3 DEF Next

----------------------------------------------------------------------------
(* The steps that end a command well *)

LEMMA EndResult ==
  ASSUME NEW d \in Device, HeadInv, NEW r, End(d, r) PROVE cmd'[d].result = r
BY DEF End, Fresh, HeadInv, TypeOK

LEMMA StillRuns ==
  ASSUME NEW d \in Device, HeadInv, NEW salt, NoConfig(d) \/ WithKeys(d, salt), At(d, "idle")'
  PROVE  cmd'[d].result # "ok"
<1>1. CASE WithKeys(d, salt)
  BY <1>1, WithKeysIs DEF At
<1>2. CASE NoConfig(d)
  BY <1>2, EndResult, GoIs DEF NoConfig, At
<1> QED
  BY <1>1, <1>2

LEMMA OnlyTheseEndWell ==
  ASSUME NEW d \in Device, HeadInv, Step(d) \/ CallFails(d) \/ Crash(d),
         At(d, "idle")', cmd'[d].result = "ok"
  PROVE  /\ End(d, "ok")
         /\ LoadCommit(d) \/ PutHead(d) \/ RemoveOldCommit(d) \/ CacheHead(d) \/ RemoveLocal(d)
<1>1. \A label : label # "idle" => ~Go(d, label)
  BY GoIs DEF At
<1>2. \A r : r # "ok" => ~End(d, r)
  BY EndResult
<1>3. ~NoConfig(d) /\ \A salt : ~WithKeys(d, salt)
  BY StillRuns
<1>4. ~CallFails(d) /\ ~Crash(d)
  BY <1>2, <1>3 DEF CallFails, Crash
<1>5. ~Setup(d)
  BY <1>1, <1>2 DEF Setup, ClearLocal, CreateRoot, RootExists, CreateObjects, Fetch, Replied
<1>6. ~Config(d)
  <2>1. ~LoadConfig(d) /\ ~PutConfig(d)
    BY <1>1, <1>2, <1>3 DEF LoadConfig, PutConfig
  <2>2. ASSUME NEW v, NEW label, label # "idle", GoWithSalt(d, v, label) PROVE FALSE
    BY <2>2, TakesSalt DEF At
  <2>3. ~GetConfig(d) /\ ~DrawSalt(d)
    BY <1>3, <2>2 DEF GetConfig, DrawSalt, GoWithSalt
  <2>4. ~CacheConfig(d)
    BY <1>1 DEF CacheConfig
  <2> QED
    BY <2>1, <2>3, <2>4 DEF Config
<1>7. ASSUME NEW v, NEW label, label # "idle", GoWithBase(d, v, label) PROVE FALSE
  BY <1>7, TakesBase DEF At
<1>8. ASSUME NEW v, NEW label, label # "idle", GoWithNew(d, v, label) PROVE FALSE
  BY <1>8, TakesNew DEF At
<1>9. ~ReadHead(d) /\ ~GetHead(d)
  BY <1>2, <1>7 DEF ReadHead, GetHead, GoWithBase
<1>10. ~PutCommit(d)
  BY <1>2, <1>8 DEF PutCommit, GoWithNew
<1>11. ~WriteLocalHead(d) /\ ~RemoteVaultExists(d) /\ ~DeleteRoot(d)
  BY <1>1, <1>2 DEF WriteLocalHead, RemoteVaultExists, DeleteRoot, Replied
<1>12. LoadCommit(d) \/ PutHead(d) \/ RemoveOldCommit(d) \/ CacheHead(d) \/ RemoveLocal(d)
  BY <1>4, <1>5, <1>6, <1>9, <1>10, <1>11 DEF Step, Work, Sync, Remove
<1>13. End(d, "ok")
  BY <1>1, <1>2, <1>12 DEF LoadCommit, PutHead, RemoveOldCommit, CacheHead, RemoveLocal
<1> QED
  BY <1>12, <1>13

(* What OkMeansDone says of one device *)
DoneAsTold(d) ==
  /\ EndsOk(d, "init") => (Whole(d) => Opens(d) /\ Published(d))'
  /\ EndsOk(d, "edit") => (Whole(d) => Opens(d))' /\ (replaced \/ (Whole(d) => Published(d))')
  /\ EndsOk(d, "read") => Opens(d)'
  /\ EndsOk(d, "sync") => replaced \/ (Whole(d) => Opens(d) /\ Published(d))'
  /\ EndsOk(d, "destroy") => (cloud = EmptyCloud /\ disk[d] = NoFiles)'

LEMMA ItsOwnStep ==
  ASSUME NEW d \in Device, NEW name, HeadInv, [Next]_vars, EndsOk(d, name)
  PROVE  /\ Step(d)
         /\ LoadCommit(d) \/ PutHead(d) \/ RemoveOldCommit(d) \/ CacheHead(d) \/ RemoveLocal(d)
         /\ End(d, "ok")
<1>1. ~At(d, "idle") /\ At(d, "idle")' /\ cmd'[d].result = "ok"
  BY DEF EndsOk
<1>2. ASSUME NEW e \in Device, Begin(e) PROVE FALSE
  <2>1. cmd \in [Device -> Command] /\ e # d
    BY <1>1, <1>2 DEF Begin, HeadInv, TypeOK
  <2>2. PICK n \in Commands :
           cmd' = [x \in Device |->
                     IF x = e THEN [Fresh(n, FirstLabel(n), "none") EXCEPT !.alone = (Running = {})]
                     ELSE [cmd[x] EXCEPT !.alone = @ /\ At(x, "idle")]]
    BY <1>2 DEF Begin
  <2>3. cmd'[d] = [cmd[d] EXCEPT !.alone = @ /\ At(d, "idle")] /\ cmd[d] \in Command
    BY <2>1, <2>2
  <2>4. cmd'[d].pc = cmd[d].pc
    BY <2>3 DEF Command
  <2> QED
    BY <1>1, <2>4 DEF At
<1>3. ASSUME NEW e \in Device \ {d}, Step(e) \/ CallFails(e) \/ Crash(e) PROVE FALSE
  BY <1>1, <1>3, Bystanders DEF At
<1>4. Step(d) \/ CallFails(d) \/ Crash(d)
  BY <1>1, <1>2, <1>3 DEF Next, vars, At
<1>5. /\ End(d, "ok")
      /\ LoadCommit(d) \/ PutHead(d) \/ RemoveOldCommit(d) \/ CacheHead(d) \/ RemoveLocal(d)
  BY <1>1, <1>4, OnlyTheseEndWell
<1>6. Step(d)
  BY <1>5 DEF Step, Work, Sync, Remove
<1> QED
  BY <1>5, <1>6

LEMMA NextTold ==
  ASSUME FilesAreSafe, HeadInv, KeysInv, DoneInv, [Next]_vars, NEW d \in Device
  PROVE  DoneAsTold(d)
<1> SUFFICES ASSUME NEW name, EndsOk(d, name) PROVE DoneAsTold(d)
  BY DEF DoneAsTold
<1>0. /\ Step(d) /\ End(d, "ok") /\ cmd[d].name = name /\ cmd[d].alone
      /\ LoadCommit(d) \/ PutHead(d) \/ RemoveOldCommit(d) \/ CacheHead(d) \/ RemoveLocal(d)
  BY ItsOwnStep DEF EndsOk
<1>1. /\ cmd[d] \in Command /\ disk[d] \in File /\ disk \in [Device -> File] /\ cloud \in Folder
      /\ Holds(cmd[d]) /\ cmd[d].pc \in Route(cmd[d].name) /\ SoFar(cmd[d], disk[d], cloud)
      /\ HeadExists /\ Encrypted
  BY <1>0, AtStart DEF HeadInv, KeysInv
<1>2. CASE LoadCommit(d)
  <2>1. /\ cmd[d].pc = "loadCommit" /\ UNCHANGED <<cloud, disk>>
        /\ cmd[d].base \in cloud.commits
    BY <1>0, <1>2, EndResult DEF LoadCommit, At
  <2>2. cmd[d].name # "edit"
    <3>1. ~Go(d, "putCommit")
      BY <1>0, GoIs, EndResult DEF EndsOk, At
    <3> QED
      BY <1>2, <2>1, <3>1, <1>0, EndResult DEF LoadCommit
  <2>3. cmd[d].name = "read"
    BY <1>1, <2>1, <2>2 DEF Route, Opening
  <2>4. Opens(d)'
    BY <1>1, <2>1 DEF SoFar, KeysOnDisk, CommitInHand, Holds, Opens
  <2> QED
    BY <2>3, <2>4 DEF DoneAsTold, EndsOk
<1>3. CASE PutHead(d)
  <2>1. /\ cmd[d].pc = "putHead" /\ UNCHANGED disk
        /\ cloud'.head = cmd[d].new /\ cloud'.commits = cloud.commits
        /\ cloud'.config = cloud.config
    BY <1>1, <1>3 DEF PutHead, At, Folder
  <2>2. cmd[d].name = "init"
    <3>1. ~Go(d, "removeOld")
      BY <1>0, GoIs DEF EndsOk, At
    <3>2. ~End(d, "error")
      BY <1>0, EndResult
    <3> QED
      BY <1>3, <3>1, <3>2 DEF PutHead
  <2>3. Opens(d)'
    BY <1>1, <2>1 DEF SoFar, CommitInHand, Opens
  <2>4. Published(d)'
    <3>1. disk[d].config = cloud'.config /\ disk[d].head = cloud'.head
      BY <1>1, <2>1, <2>2 DEF SoFar, KeysOnDisk, CommitInHand
    <3> QED
      BY <1>1, <2>1, <3>1 DEF Published, File
  <2> QED
    BY <2>2, <2>3, <2>4 DEF DoneAsTold, EndsOk
<1>4. CASE RemoveOldCommit(d)
  <2>1. /\ cmd[d].pc = "removeOld" /\ UNCHANGED disk
        /\ cloud'.commits = cloud.commits \ {cmd[d].base}
        /\ cloud'.head = cloud.head /\ cloud'.config = cloud.config
    BY <1>1, <1>4 DEF RemoveOldCommit, At, Folder
  <2>2. cmd[d].name = "edit"
    BY <1>1, <2>1 DEF Route, Opening
  <2>3. Opens(d)'
    BY <1>1, <2>1 DEF SoFar, CommitInHand, Opens
  <2>4. replaced \/ Published(d)'
    <3>1. SUFFICES ASSUME ~replaced PROVE Published(d)'
      OBVIOUS
    <3>2. disk[d].config = cloud'.config /\ disk[d].head = cloud'.head
      BY <1>1, <2>1, <3>1 DEF SoFar, CommitInHand, Encrypted
    <3> QED
      BY <1>1, <2>1, <3>2 DEF Published, File
  <2> QED
    BY <2>2, <2>3, <2>4 DEF DoneAsTold, EndsOk
<1>5. CASE CacheHead(d)
  <2>1. /\ cmd[d].pc = "cacheHead" /\ UNCHANGED cloud
        /\ disk' = [disk EXCEPT ![d] = WithHead(d, cmd[d].base)]
    BY <1>5 DEF CacheHead, At, WriteFile, Fault, FilesAreSafe
  <2>2. cmd[d].name = "sync"
    BY <1>1, <2>1 DEF Route, Opening
  <2>3. cloud.head # NoFile /\ disk[d].config = cloud.config /\ cmd[d].base = cloud.head
    BY <1>1, <2>1, <2>2 DEF SoFar, Copied
  <2>4. disk'[d] = [config |-> cloud.config, head |-> cloud.head]
    BY <1>1, <2>1, <2>3 DEF WithHead, File
  <2>5. Published(d)'
    BY <2>1, <2>4 DEF Published
  <2>6. replaced \/ Opens(d)'
    BY <1>1, <2>1, <2>3, <2>4 DEF HeadExists, Encrypted, Opens
  <2> QED
    BY <2>2, <2>5, <2>6 DEF DoneAsTold, EndsOk
<1>6. CASE RemoveLocal(d)
  <2>1. cmd[d].pc = "removeLocal" /\ UNCHANGED cloud /\ disk' = [disk EXCEPT ![d] = NoFiles]
    BY <1>6 DEF RemoveLocal, At, Fault, FilesAreSafe
  <2>2. cmd[d].name = "destroy"
    BY <1>1, <2>1 DEF Route, Opening
  <2>3. (cloud = EmptyCloud /\ disk[d] = NoFiles)'
    BY <1>1, <2>1 DEF SoFar, Copied
  <2> QED
    BY <2>2, <2>3 DEF DoneAsTold, EndsOk
<1> QED
  BY <1>0, <1>2, <1>3, <1>4, <1>5, <1>6

(* For any number of devices, commands, crashes and failing calls, as long as local files
   are written and removed whole: a command that ran alone and reports success has done
   what it says, whatever state earlier commands left behind on whatever device.  init
   publishes its commit under the config in the cloud, which is the one on its disk; an
   edit's commit is under the keys of its config and is what HEAD names when the old
   one goes; sync copies a config and a HEAD that belong together; destroy empties both sides. *)
THEOREM SuccessIsReal == FilesAreSafe => (Spec => OkMeansDone)
<1> SUFFICES ASSUME FilesAreSafe PROVE Spec => OkMeansDone
  OBVIOUS
<1> DEFINE AllInv == HeadInv /\ KeysInv /\ DoneInv
<1>1. Init => AllInv
  BY InitHead, InitKeys, InitDone
<1>2. AllInv /\ [Next]_vars => AllInv'
  BY NextHead, NextKeys, NextDone DEF FilesAreSafe, FoldersAreSafe
<1>3. AllInv /\ [Next]_vars => \A d \in Device : DoneAsTold(d)
  BY NextTold
<1>4. (\A d \in Device : DoneAsTold(d)) =>
         [\A d \in Device :
            /\ EndsOk(d, "init") => (Whole(d) => Opens(d) /\ Published(d))'
            /\ EndsOk(d, "edit") => (Whole(d) => Opens(d))' /\ (replaced \/ (Whole(d) => Published(d))')
            /\ EndsOk(d, "read") => Opens(d)'
            /\ EndsOk(d, "sync") => replaced \/ (Whole(d) => Opens(d) /\ Published(d))'
            /\ EndsOk(d, "destroy") => (cloud = EmptyCloud /\ disk[d] = NoFiles)']_vars
  BY DEF DoneAsTold
<1> QED
  BY <1>1, <1>2, <1>3, <1>4, PTL DEF Spec, OkMeansDone

=============================================================================
