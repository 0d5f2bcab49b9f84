--------------------------- MODULE UploadPipeline ---------------------------
(***************************************************************************)
(* How files get into the vault: the main thread walks a folder            *)
(* (store_tree), encrypts each file into a temporary file and hands its    *)
(* upload to the pool (store_blob); the tasks upload, count and remove the *)
(* temporary file; init waits for them (lock_vault), add does not; at the  *)
(* end the engine is destroyed member by member while tasks may still run. *)
(*                                                                         *)
(* The pool is the TaskPool that ThreadPool implements.  A task is named   *)
(* by its file.  What is in a file is left out: encrypting it gives an     *)
(* object of its own.                                                      *)
(***************************************************************************)
EXTENDS Naturals, Sequences, FiniteSets

CONSTANTS
  File,       \* the regular files below the folder
  Dir,        \* the folder and those below it
  Root,       \* the folder
  Within,     \* Within[e]: the folder a file or another folder is in
  Added,      \* the file that add is called with
  Worker,     \* the threads of the pool
  Nothing     \* no task, no file, no tree

(* The folder is finite, and every folder in it is reached from Root *)
ASSUME UploadAssumption ==
  /\ Root \in Dir /\ Added \in File
  /\ IsFiniteSet(File)
  /\ File \cap Dir = {} /\ Nothing \notin File \cup Dir
  /\ \A S \in SUBSET (File \cup Dir) : Nothing # S
  /\ Within \in [(File \cup Dir) \ {Root} -> Dir]
  /\ \A S \in SUBSET Dir :
       Root \in S /\ (\A d \in Dir \ {Root} : Within[d] \in S => d \in S) => S = Dir

VARIABLES
  command,    \* "lock" (init with a folder) or "add"
  main,       \* where the main thread is
  stack,      \* the calls of store_tree: the folder, what it has not stored, what it has
  current,    \* the file store_blob is called with
  futures,    \* pending_uploads, then the vector wait_for_uploads swaps it into
  queue, running, ended, closed, gone,   \* the pool
  task,       \* task[w]: where the task of thread w is
  done,       \* done[w]: the number it has drawn from finished_uploads
  failed,     \* uploads whose future holds an exception
  temporary,  \* the temporary files on the disk
  uploaded,   \* the objects of files that are in the cloud
  trees,      \* trees[d]: what the tree object of folder d in the cloud lists
  head,       \* a new commit is published
  total_uploads,
  finished_uploads,
  lines,      \* ghost: progress lines printed, as <<done, total>>
  members,    \* what the tasks use of the engine and the store exists: "all", "store", "none"
  touched,    \* ghost: members a task has used after their destruction
  result      \* of the command: "ok" or "error"

poolVars  == <<queue, running, ended, closed, gone>>
taskVars  == <<task, done, failed, uploaded, finished_uploads, lines, touched>>
walkVars  == <<command, stack, current, futures, trees, head, total_uploads>>
vars == <<poolVars, taskVars, walkVars, main, temporary, members, result>>

Pool == INSTANCE TaskPool WITH Task <- File

In(d) == {e \in (File \cup Dir) \ {Root} : Within[e] = d}
Top   == stack[Len(stack)]

Call(d)  == [dir |-> d, left |-> In(d), kept |-> {}]
Keep(e)  == [stack EXCEPT ![Len(stack)].left = @ \ {e}, ![Len(stack)].kept = @ \cup {e}]

At(label) == main = label
Go(label) == main' = label

(* An exception unwinds to main, which destroys the engine; a local guard removes the
   temporary file if it is still store_blob's. *)
Throw ==
  /\ result' = "error"
  /\ Go("unwind")

----------------------------------------------------------------------------
(* The main thread: store_tree and store_blob *)

(* The next entry of a folder, in no particular order; any call on the way may throw *)
Enter(d) ==
  /\ At("walk")
  /\ d \in Top.left \cap Dir
  /\ stack' = Append(Keep(d), Call(d))
  /\ UNCHANGED <<poolVars, taskVars, command, current, futures, trees, head, total_uploads,
                 main, temporary, members, result>>

StoreBlob(f) ==
  /\ At("walk")
  /\ f \in Top.left \cap File
  /\ total_uploads' = total_uploads + 1
  /\ current' = f
  /\ Go("encrypt")
  /\ UNCHANGED <<poolVars, taskVars, command, stack, futures, trees, head,
                 temporary, members, result>>

(* The file is written to the end: the guard is released *)
Encrypt ==
  /\ At("encrypt")
  /\ temporary' = temporary \cup {current}
  /\ Go("enqueue")
  /\ UNCHANGED <<poolVars, taskVars, walkVars, members, result>>

(* Opening, reading or writing fails: the guard removes the temporary file *)
EncryptFails ==
  /\ At("encrypt")
  /\ Throw
  /\ UNCHANGED <<poolVars, taskVars, walkVars, temporary, members>>

Enqueue ==
  /\ At("enqueue")
  /\ Pool!Submit(current)
  /\ futures' = Append(futures, current)
  /\ stack' = Keep(current)
  /\ current' = Nothing
  /\ Go(IF command = "add" THEN "commit" ELSE "walk")
  /\ UNCHANGED <<taskVars, command, trees, head, total_uploads, temporary, members, result>>

(* A folder is done: its tree object is stored, at once, by the main thread *)
StoreTree ==
  /\ At("walk")
  /\ Top.left = {}
  /\ trees' = [trees EXCEPT ![Top.dir] = Top.kept]
  /\ stack' = SubSeq(stack, 1, Len(stack) - 1)
  /\ Go(IF Len(stack) = 1 THEN "wait" ELSE "walk")
  /\ UNCHANGED <<poolVars, taskVars, command, current, futures, head, total_uploads,
                 temporary, members, result>>

WalkFails ==
  /\ At("walk")
  /\ Throw
  /\ UNCHANGED <<poolVars, taskVars, walkVars, temporary, members>>

(* wait_for_uploads: get blocks until the task has returned, then rethrows its exception *)
Ready(f) == f \in ended

(* Mutant: the future is not waited for *)
WaitGetsAtOnce ==
  /\ At("wait") /\ futures # <<>>
  /\ Head(futures) \notin failed
  /\ futures' = Tail(futures)
  /\ UNCHANGED <<poolVars, taskVars, command, stack, current, trees, head, total_uploads,
                 main, temporary, members, result>>

WaitGets ==
  /\ At("wait") /\ futures # <<>>
  /\ Ready(Head(futures)) /\ Head(futures) \notin failed
  /\ futures' = Tail(futures)
  /\ UNCHANGED <<poolVars, taskVars, command, stack, current, trees, head, total_uploads,
                 main, temporary, members, result>>

WaitThrows ==
  /\ At("wait") /\ futures # <<>>
  /\ Ready(Head(futures)) /\ Head(futures) \in failed
  /\ futures' = Tail(futures)
  /\ Throw
  /\ UNCHANGED <<poolVars, taskVars, command, stack, current, trees, head, total_uploads,
                 temporary, members>>

WaitEnds ==
  /\ At("wait") /\ futures = <<>>
  /\ Go("commit")
  /\ UNCHANGED <<poolVars, taskVars, walkVars, temporary, members, result>>

(* store_commit publishes the commit, or throws (with or without effect) *)
Commit ==
  /\ At("commit")
  /\ head' = TRUE
  /\ result' = "ok"
  /\ Go("unwind")
  /\ UNCHANGED <<poolVars, taskVars, command, stack, current, futures, trees, total_uploads,
                 temporary, members>>

CommitFails ==
  /\ At("commit")
  /\ head' \in BOOLEAN
  /\ Throw
  /\ UNCHANGED <<poolVars, taskVars, command, stack, current, futures, trees, total_uploads,
                 temporary, members>>

----------------------------------------------------------------------------
(* The end of the engine: its body, its members last to first, then the store *)

DestroyProgress ==
  /\ At("unwind")
  /\ members' = "store"
  /\ Go("pool")
  /\ UNCHANGED <<poolVars, taskVars, walkVars, temporary, result>>

DestroyPool ==
  /\ At("pool")
  /\ Pool!Close
  /\ Go("join")
  /\ UNCHANGED <<taskVars, walkVars, temporary, members, result>>

(* Mutant: the threads are detached *)
DetachPool ==
  /\ At("join")
  /\ gone' = TRUE
  /\ Go("store")
  /\ UNCHANGED <<queue, running, ended, closed, taskVars, walkVars, temporary, members, result>>

JoinPool ==
  /\ At("join")
  /\ Pool!Gone
  /\ Go("store")
  /\ UNCHANGED <<taskVars, walkVars, temporary, members, result>>

DestroyStore ==
  /\ At("store")
  /\ members' = "none"
  /\ Go("exited")
  /\ UNCHANGED <<poolVars, taskVars, walkVars, temporary, result>>

----------------------------------------------------------------------------
(* A task *)

Step(w, label) == task' = [task EXCEPT ![w] = label]

Uses(m) == touched' = touched \cup (IF \/ members = "none"
                                       \/ members = "store" /\ m = "progress"
                                    THEN {m} ELSE {})

StartTask(w) ==
  /\ Pool!Start(w)
  /\ Step(w, "upload")
  /\ UNCHANGED <<done, failed, uploaded, finished_uploads, lines, touched,
                 walkVars, main, temporary, members, result>>

Upload(w) ==
  /\ task[w] = "upload"
  /\ uploaded' = uploaded \cup {running[w]}
  /\ Uses("store")
  /\ Step(w, "count")
  /\ UNCHANGED <<poolVars, done, failed, finished_uploads, lines,
                 walkVars, main, temporary, members, result>>

(* Mutant: a failed upload ends its thread *)
UploadFailsForGood(w) ==
  /\ task[w] = "upload"
  /\ Uses("store")
  /\ uploaded' \in {uploaded, uploaded \cup {running[w]}}
  /\ failed' = failed \cup {running[w]}
  /\ Step(w, "dead")
  /\ UNCHANGED <<poolVars, done, finished_uploads, lines,
                 walkVars, main, temporary, members, result>>

(* Reading the temporary file or the upload fails, perhaps after it took effect: the
   exception goes to the future, and nothing else of the task happens *)
UploadFails(w) ==
  /\ task[w] = "upload"
  /\ Uses("store")
  /\ uploaded' \in {uploaded, uploaded \cup {running[w]}}
  /\ failed' = failed \cup {running[w]}
  /\ Pool!Finish(w)
  /\ Step(w, "none")
  /\ UNCHANGED <<done, finished_uploads, lines,
                 walkVars, main, temporary, members, result>>

(* Mutant: the number before the increment is used *)
CountBefore(w) ==
  /\ task[w] = "count"
  /\ finished_uploads' = finished_uploads + 1
  /\ done' = [done EXCEPT ![w] = finished_uploads]
  /\ Uses("progress")
  /\ Step(w, "report")
  /\ UNCHANGED <<poolVars, failed, uploaded, lines,
                 walkVars, main, temporary, members, result>>

Count(w) ==
  /\ task[w] = "count"
  /\ finished_uploads' = finished_uploads + 1
  /\ done' = [done EXCEPT ![w] = finished_uploads + 1]
  /\ Uses("progress")
  /\ Step(w, "report")
  /\ UNCHANGED <<poolVars, failed, uploaded, lines,
                 walkVars, main, temporary, members, result>>

Report(w) ==
  /\ task[w] = "report"
  /\ lines' = lines \cup {<<done[w], total_uploads>>}
  /\ Uses("progress")
  /\ Step(w, "remove")
  /\ UNCHANGED <<poolVars, done, failed, uploaded, finished_uploads,
                 walkVars, main, temporary, members, result>>

(* Mutant: the temporary file stays *)
EndTaskOnly(w) ==
  /\ task[w] = "remove"
  /\ Pool!Finish(w)
  /\ Step(w, "none")
  /\ UNCHANGED <<done, failed, uploaded, finished_uploads, lines, touched,
                 walkVars, main, temporary, members, result>>

EndTask(w) ==
  /\ task[w] = "remove"
  /\ temporary' = temporary \ {running[w]}
  /\ Pool!Finish(w)
  /\ Step(w, "none")
  /\ UNCHANGED <<done, failed, uploaded, finished_uploads, lines, touched,
                 walkVars, main, members, result>>

----------------------------------------------------------------------------
Init ==
  /\ Pool!Init
  /\ command \in {"lock", "add"}
  /\ main = "walk"
  /\ stack = <<IF command = "lock" THEN Call(Root) ELSE [Call(Root) EXCEPT !.left = {Added}]>>
  /\ current = Nothing
  /\ futures = <<>>
  /\ task = [w \in Worker |-> "none"]
  /\ done = [w \in Worker |-> 0]
  /\ failed = {} /\ temporary = {} /\ uploaded = {}
  /\ trees = [d \in Dir |-> Nothing]
  /\ head = FALSE
  /\ total_uploads = 0 /\ finished_uploads = 0
  /\ lines = {} /\ touched = {}
  /\ members = "all"
  /\ result = "none"

Walk    == (\E d \in Dir : Enter(d)) \/ (\E f \in File : StoreBlob(f)) \/ StoreTree \/ WalkFails
Blob    == Encrypt \/ EncryptFails \/ Enqueue
Wait    == WaitGets \/ WaitThrows \/ WaitEnds
Publish == Commit \/ CommitFails
Destroy == DestroyProgress \/ DestroyPool \/ JoinPool \/ DestroyStore
Main    == Walk \/ Blob \/ Wait \/ Publish \/ Destroy

Task(w) == StartTask(w) \/ Upload(w) \/ UploadFails(w) \/ Count(w) \/ Report(w) \/ EndTask(w)

Next == Main \/ \E w \in Worker : Task(w)
Spec == Init /\ [][Next]_vars

(* The main thread and the threads of the pool run; every call returns or throws. *)
FairSpec == Spec /\ WF_vars(Main) /\ \A w \in Worker : WF_vars(Task(w))

----------------------------------------------------------------------------
(* Properties *)

Labels     == {"walk", "encrypt", "enqueue", "wait", "commit", "unwind", "pool", "join", "store",
               "exited"}
TaskLabels == {"none", "upload", "count", "report", "remove"}
Succeeded  == command = "lock" /\ result = "ok"

(* The types of the variables; never more uploads finished than were counted, nor more
   counted than there are files. *)
TypeOK ==
  /\ command \in {"lock", "add"} /\ main \in Labels
  /\ current \in File \cup {Nothing}
  /\ queue \in Seq(File) /\ running \in [Worker -> File \cup {Nothing}]
  /\ ended \subseteq File /\ closed \in BOOLEAN /\ gone \in BOOLEAN
  /\ futures \in Seq(File)
  /\ task \in [Worker -> TaskLabels] /\ done \in [Worker -> 0..Cardinality(File)]
  /\ failed \subseteq File /\ temporary \subseteq File /\ uploaded \subseteq File
  /\ trees \in [Dir -> {Nothing} \cup SUBSET (File \cup Dir)]
  /\ head \in BOOLEAN
  /\ total_uploads \in 0..Cardinality(File) /\ finished_uploads \in 0..total_uploads
  /\ members \in {"all", "store", "none"} /\ touched \subseteq {"store", "progress"}
  /\ result \in {"none", "ok", "error"}

(* init with a folder publishes a commit only when all of the folder is in the cloud: the
   object of every file, and for every folder a tree object with all of its entries,
   although the trees are stored while the uploads are under way. *)
LockComplete ==
  command = "lock" /\ head => uploaded = File /\ \A d \in Dir : trees[d] = In(d)

(* No task uses the store after its end, and after a lock_vault that succeeded no task uses
   the progress counters and their mutex, which are destroyed before the pool is drained. *)
NoUseAfterDestroy == "store" \notin touched /\ (Succeeded => touched = {})

(* When the process ends, the temporary files left are those of the failed uploads, however
   many tasks were still queued: in particular a lock_vault that succeeds leaves none. *)
TemporaryFilesRemoved == main = "exited" => temporary = failed

(* No progress line shows more uploads done than there are, and a lock_vault that succeeds
   has shown 100% of all files. *)
ProgressHonest ==
  /\ \A l \in lines : l[1] <= l[2]
  /\ Succeeded => <<Cardinality(File), Cardinality(File)>> \in lines

(* The command ends, whatever fails and however many uploads are still queued. *)
Exits == <>(main = "exited")
=============================================================================
