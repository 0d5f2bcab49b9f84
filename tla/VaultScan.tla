----------------------------- MODULE VaultScan -----------------------------
(***************************************************************************)
(* The commands that only read a vault (list, tree, cat, quick-scan and    *)
(* deep-scan) while other commands change it.                              *)
(*                                                                         *)
(* A reader takes the snapshot its device's HEAD names and then loads one  *)
(* object after the other.  Nothing holds the snapshot for it: a command   *)
(* may publish a new commit and delete objects of the old one between two  *)
(* of its calls, and a blob of the thread pool may arrive late.  list,     *)
(* tree and cat give up at the first object they cannot load; the scans    *)
(* count what they cannot load and go on with the next entry.              *)
(*                                                                         *)
(* Readers have no effect on the vault, so one of them at a time is enough.*)
(***************************************************************************)
EXTENDS VaultVersions, SequencesExt

CONSTANTS ReadOp   \* the reading commands, of "list", "tree", "cat", "quick", "deep"

ASSUME ReadOpAssumption == ReadOp \subseteq {"list", "tree", "cat", "quick", "deep"}

VARIABLES
  rd,         \* the reading process
  rotten,     \* blobs whose bytes the cloud no longer returns as they were put
  seen,       \* ghost: objects that were sound at some moment of the read
  kept,       \* ghost: objects that were sound all through the read
  disturbed   \* ghost: a call of the reader has failed

readVars == <<rd, rotten, seen, kept, disturbed>>
scanVars == <<vars, readVars>>

NoReport == [trees |-> 0, blobs |-> 0, missing |-> 0, hashed |-> 0, errors |-> 0]

(* todo: the siblings still to visit, for each level of the recursion.  They are
   visited by name, and names stand in no order to the hashes: any order. *)
Idle == [pc |-> "idle", op |-> "none", path |-> <<>>, head |-> NoHead, cur |-> 0,
         lvl |-> 1, todo |-> <<>>, stats |-> NoReport]

Reading   == rd.pc \notin {"idle", "done", "failed"}
Scanning  == rd.op \in {"quick", "deep"}
ReadAt(l) == rd.pc = l
Goto(l)   == rd' = [rd EXCEPT !.pc = l]

(* What a load of the reader can succeed on: quick-scan, list and tree never ask
   for the bytes of a blob. *)
SoundFor(op) == IF op \in {"deep", "cat"} THEN remote \ rotten ELSE remote
Ok(h)        == h \in SoundFor(rd.op)

(* The objects of the snapshot that head names *)
Snapshot(head) == IF head \in {NoHead, TornHead} THEN {} ELSE reach[head]

----------------------------------------------------------------------------
(* read_head (the local file) and load_commit_checked.  The path is a sequence of names: one
   of slashes only, which resolve_path takes neither for the root nor for an entry, is
   refused once the commit is loaded, and left out. *)

StartRead(d) ==
  /\ ReadAt("idle")
  /\ \E op \in ReadOp :
       /\ \E p \in IF op \in {"quick", "deep"} THEN {<<>>}
                   ELSE IF op = "cat" THEN Path ELSE Path \cup {<<>>} :
            rd' = [Idle EXCEPT !.op = op, !.path = p, !.head = localHead[d],
                     !.pc = IF localHead[d] \in {NoHead, TornHead} THEN "failed" ELSE "commit"]
       /\ seen' = SoundFor(op) \cap Snapshot(localHead[d])
       /\ kept' = SoundFor(op) \cap Snapshot(localHead[d])
  /\ disturbed' = FALSE
  /\ UNCHANGED <<vars, rotten>>

LoadCommit ==
  /\ ReadAt("commit")
  /\ IF ~Ok(rd.head) THEN Goto("failed")
     ELSE LET root == obj[rd.head].root IN
          rd' = [rd EXCEPT !.cur = root, !.todo = IF Scanning THEN <<{root}>> ELSE <<>>,
                           !.pc = IF Scanning THEN "visit" ELSE "resolve"]
  /\ UNCHANGED <<vars, rotten, seen, kept, disturbed>>

----------------------------------------------------------------------------
(* resolve_path: one tree per component of the path, and the directory it ends at *)

PathDone == rd.lvl > Len(rd.path)
Here     == obj[rd.cur].dir[rd.path[rd.lvl]]
Subdirs  == TreesIn({obj[rd.cur].dir[n] : n \in Name} \ {0})

(* Mutant: a file on the way ends the path *)
ResolveOpensFile ==
  /\ ReadAt("resolve") /\ Ok(rd.cur) /\ ~PathDone
  /\ CASE Here = 0     -> Goto("failed")
       [] IsTree(Here) -> rd' = [rd EXCEPT !.cur = Here, !.lvl = @ + 1]
       [] OTHER        -> CASE rd.op = "cat"  -> rd' = [rd EXCEPT !.cur = Here, !.pc = "blob"]
                            [] rd.op = "tree" -> Goto("done")
                            [] OTHER          -> Goto("failed")
  /\ UNCHANGED <<vars, rotten, seen, kept, disturbed>>

Resolve ==
  /\ ReadAt("resolve") /\ Ok(rd.cur) /\ ~PathDone
  /\ CASE Here = 0     -> Goto("failed")                  \* path not found
       [] IsTree(Here) -> rd' = [rd EXCEPT !.cur = Here, !.lvl = @ + 1]
       [] IsBlob(Here) /\ rd.lvl < Len(rd.path) -> Goto("failed")   \* not a directory
       [] OTHER -> CASE rd.op = "cat"  -> rd' = [rd EXCEPT !.cur = Here, !.pc = "blob"]
                     [] rd.op = "tree" -> Goto("done")    \* only its name is printed
                     [] OTHER          -> Goto("failed")  \* list: not a directory
  /\ UNCHANGED <<vars, rotten, seen, kept, disturbed>>

(* The path ends at a directory: list shows it, tree goes into it, cat refuses it *)
Resolved ==
  /\ ReadAt("resolve") /\ Ok(rd.cur) /\ PathDone
  /\ CASE rd.op = "list" -> Goto("done")
       [] rd.op = "cat"  -> Goto("failed")
       [] OTHER          -> rd' = [rd EXCEPT !.pc = "visit", !.todo = <<Subdirs>>]
  /\ UNCHANGED <<vars, rotten, seen, kept, disturbed>>

ResolveMissing ==
  /\ ReadAt("resolve") /\ ~Ok(rd.cur)
  /\ Goto("failed")
  /\ UNCHANGED <<vars, rotten, seen, kept, disturbed>>

(* read_file_from_vault: the blob, downloaded, checked and decrypted *)
ReadFile ==
  /\ ReadAt("blob")
  /\ Goto(IF Ok(rd.cur) THEN "done" ELSE "failed")
  /\ UNCHANGED <<vars, rotten, seen, kept, disturbed>>

----------------------------------------------------------------------------
(* print_tree_recursive and scan_tree: depth first *)

Visiting == ReadAt("visit") /\ rd.todo # <<>>
Siblings == Last(rd.todo)
Without(h) == Append(Front(rd.todo), Siblings \ {h})

(* The entries of a loaded directory that take a call *)
Below(h) == LET sub == {obj[h].dir[n] : n \in Name} \ {0}
            IN IF Scanning THEN sub ELSE TreesIn(sub)

(* The loop over the entries of a directory ends *)
Return ==
  /\ Visiting /\ Siblings = {}
  /\ rd' = [rd EXCEPT !.todo = Front(@)]
  /\ UNCHANGED <<vars, rotten, seen, kept, disturbed>>

VisitTree ==
  /\ Visiting
  /\ \E h \in TreesIn(Siblings) :
       /\ Ok(h)
       /\ rd' = [rd EXCEPT !.todo = Append(Without(h), Below(h)), !.stats.trees = @ + 1]
  /\ UNCHANGED <<vars, rotten, seen, kept, disturbed>>

(* Mutant: a tree that cannot be loaded is counted as checked *)
TreeErrorUncounted(h) ==
  IF Scanning THEN rd' = [rd EXCEPT !.todo = Without(h), !.stats.trees = @ + 1] ELSE Goto("failed")

(* A tree that cannot be loaded: a scan counts one error for all that is below it *)
TreeError(h) ==
  IF Scanning THEN rd' = [rd EXCEPT !.todo = Without(h), !.stats.errors = @ + 1] ELSE Goto("failed")

TreeUnreadable ==
  /\ Visiting
  /\ \E h \in TreesIn(Siblings) : ~Ok(h) /\ TreeError(h)
  /\ UNCHANGED <<vars, rotten, seen, kept, disturbed>>

(* object_exists of a blob; deep-scan then downloads it *)
CheckBlob ==
  /\ Visiting
  /\ \E h \in BlobsIn(Siblings) :
       rd' = IF h \notin remote
             THEN [rd EXCEPT !.todo = Without(h), !.stats.blobs = @ + 1, !.stats.missing = @ + 1]
             ELSE IF rd.op = "deep"
             THEN [rd EXCEPT !.todo = Without(h), !.stats.blobs = @ + 1, !.cur = h, !.pc = "hash"]
             ELSE [rd EXCEPT !.todo = Without(h), !.stats.blobs = @ + 1]
  /\ UNCHANGED <<vars, rotten, seen, kept, disturbed>>

(* Mutant: the result of the comparison is not negated *)
HashBlobNegated ==
  /\ ReadAt("hash")
  /\ rd' = IF ~Ok(rd.cur) THEN [rd EXCEPT !.pc = "visit", !.stats.hashed = @ + 1]
           ELSE [rd EXCEPT !.pc = "visit", !.stats.errors = @ + 1]
  /\ UNCHANGED <<vars, rotten, seen, kept, disturbed>>

(* Mutant: the hash of the download is not compared with the name *)
HashBlobUnchecked ==
  /\ ReadAt("hash")
  /\ rd' = IF rd.cur \in remote THEN [rd EXCEPT !.pc = "visit", !.stats.hashed = @ + 1]
           ELSE [rd EXCEPT !.pc = "visit", !.stats.errors = @ + 1]
  /\ UNCHANGED <<vars, rotten, seen, kept, disturbed>>

(* read_object finds it gone since, or its hash is another: an error either way *)
HashBlob ==
  /\ ReadAt("hash")
  /\ rd' = IF Ok(rd.cur) THEN [rd EXCEPT !.pc = "visit", !.stats.hashed = @ + 1]
           ELSE [rd EXCEPT !.pc = "visit", !.stats.errors = @ + 1]
  /\ UNCHANGED <<vars, rotten, seen, kept, disturbed>>

Report ==
  /\ ReadAt("visit") /\ rd.todo = <<>>
  /\ Goto("done")
  /\ UNCHANGED <<vars, rotten, seen, kept, disturbed>>

Leave ==
  /\ rd.pc \in {"done", "failed"}
  /\ rd' = Idle /\ seen' = {} /\ kept' = {} /\ disturbed' = FALSE
  /\ UNCHANGED <<vars, rotten>>

----------------------------------------------------------------------------
(* A call of the reader throws: caught for an entry of a scan, the end otherwise *)
ReadFails ==
  /\ Fault
  /\ \/ rd.pc \in {"commit", "resolve", "blob"} /\ Goto("failed")
     \/ Visiting /\ \E h \in TreesIn(Siblings) : TreeError(h)
     \/ Visiting /\ \E h \in BlobsIn(Siblings) :
          rd' = [rd EXCEPT !.todo = Without(h), !.stats.blobs = @ + 1, !.stats.errors = @ + 1]
     \/ ReadAt("hash") /\ rd' = [rd EXCEPT !.pc = "visit", !.stats.errors = @ + 1]
  /\ disturbed' = TRUE
  /\ UNCHANGED <<storeVars, headVars, cmd, poolVars, ghostVars, cmds, rotten, seen, kept>>

(* The ghosts follow the store while the read lasts; its answer, once given, is
   judged before anything else happens. *)
Observe ==
  /\ rd.pc \notin {"done", "failed"}
  /\ seen' = IF Reading THEN seen \cup (SoundFor(rd.op)' \cap Snapshot(rd.head)) ELSE seen
  /\ kept' = IF Reading THEN kept \cap SoundFor(rd.op)' ELSE kept

(* The cloud returns other bytes than were put.  (A tree or a commit of other bytes
   is refused by everyone that loads it, as one that is not there.) *)
Rot ==
  /\ Fault
  /\ \E b \in BlobsIn(remote) \ rotten : rotten' = rotten \cup {b}
  /\ UNCHANGED <<storeVars, headVars, cmd, poolVars, ghostVars, cmds, rd, disturbed>>
  /\ Observe

(* An object is deleted behind the back of the program *)
Lose ==
  /\ Fault
  /\ \E h \in remote : remote' = remote \ {h}
  /\ UNCHANGED <<obj, reach, headVars, cmd, poolVars, ghostVars, cmds, rd, rotten, disturbed>>
  /\ Observe

EngineStep(d) ==
  /\ Start(d) \/ Proceed(d) \/ Answer(d) \/ Upload(d) \/ Fail(d)
  /\ UNCHANGED <<rd, rotten, disturbed>>
  /\ Observe

----------------------------------------------------------------------------
ScanInit ==
  /\ Init
  /\ rd = Idle /\ rotten = {} /\ seen = {} /\ kept = {} /\ disturbed = FALSE

Read ==
  \/ LoadCommit \/ Resolve \/ Resolved \/ ResolveMissing \/ ReadFile
  \/ Return \/ VisitTree \/ TreeUnreadable \/ CheckBlob \/ HashBlob \/ Report

ScanNext ==
  \/ \E d \in Device : EngineStep(d) \/ StartRead(d)
  \/ Read \/ Leave \/ ReadFails \/ Rot \/ Lose

ScanSpec == ScanInit /\ [][ScanNext]_scanVars

----------------------------------------------------------------------------
(* Properties *)

Whole == Snapshot(rd.head)
Clean == rd.stats.errors = 0 /\ rd.stats.missing = 0

(* A scan that reports neither an error nor a missing blob has vouched for the whole
   snapshot: each of its objects was in the cloud, and for deep-scan unaltered, at
   some moment of the scan, whatever commands and uploads went on meanwhile. *)
CleanMeansSound == ReadAt("done") /\ Scanning /\ Clean => Whole \subseteq seen

(* A scan whose calls all succeed raises no alarm over a snapshot that stayed sound
   while it ran, and its counts are exactly those of the snapshot. *)
NoFalseAlarm ==
  /\ Scanning /\ rd.pc \in {"done", "failed"} /\ ~disturbed /\ Whole # {}
  /\ Whole \subseteq kept
  => /\ ReadAt("done")
     /\ rd.stats =
          [trees   |-> Cardinality(TreesIn(Whole)),
           blobs   |-> Cardinality(BlobsIn(Whole)),
           missing |-> 0,
           hashed  |-> IF rd.op = "deep" THEN Cardinality(BlobsIn(Whole)) ELSE 0,
           errors  |-> 0]

(* What the path names in the snapshot the reader started from *)
Named == ResolvePath(obj, obj[rd.head].root, rd.path)

(* What list, tree and cat need to find there *)
Suits == CASE rd.op = "list" -> IsTree(Named)
           [] rd.op = "cat"  -> IsBlob(Named)
           [] OTHER          -> Named # 0

(* list, tree and cat answer for the snapshot HEAD named when they started, and
   exactly when the path names something of the right kind in it: as long as no call
   fails and the snapshot stays sound, whatever new commits are published meanwhile. *)
ReadersAnswer ==
  /\ rd.op \in {"list", "tree", "cat"} /\ rd.pc \in {"done", "failed"}
  /\ ~disturbed /\ Whole # {} /\ Whole \subseteq kept
  => (ReadAt("done") <=> Suits)
=============================================================================
