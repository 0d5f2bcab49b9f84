# A TLA+ model of GitVault

GitVault keeps an encrypted tree of files in a Dropbox folder, in the manner of
Git: immutable objects (blobs, trees, commits) named by the hash of their
ciphertext, and one `HEAD` file that names the current commit. This directory
models the part of it in which a vault, a key or a login can be damaged: the
commands that rewrite the tree, their cloud calls with failures and crashes,
several devices at once, the life of a vault name from init to destroy, the
uploads and their thread pool, the scans, the login, and the two algorithms
with boundaries in them (SHA-256's buffer, the byte format).

## 1. The system

| Part (source) | State | Operations | Hard behaviour | Modelled in |
|---|---|---|---|---|
| CLI and `Vault` (`main.cpp`, `vault.cpp`) | the refresh token file | one command per process: init, destroy, add, mkdir, remove, rmdir, list, tree, cat, quick/deep-scan, sync, login, logout | init removes local metadata before it knows whether the vault exists; rmdir asks and starts over | `VaultEngine`, `VaultLifecycle`, `VaultScan`, `OAuthLogin` |
| `VaultEngine` (`vault_engine.cpp`) | keys, config, the pool, pending futures, counters | the copy-on-write rewriting of trees (`upsert_*`, `remove_*_from_tree`), `store_commit`, deletion of what the old commit no longer shares, scans | 5 to 30 cloud calls without a transaction, each of which may fail, take effect without a reply, or be the last before a crash | `VaultEngine`, `VaultScan` |
| `ObjectStore` (`object_store.cpp`) | `~/.gitvault/<vault>/config` and `HEAD`; `objects/*`, `config`, `HEAD` in the cloud | `read_head` (local), `write_head` (local, then cloud), objects, config, sync's downloads | local and cloud HEAD diverge; torn local files; config replaced on any load failure | `VaultEngine`, `VaultLifecycle` |
| `DropboxStorage` (`dropbox_storage.cpp`) | token, root | `put` (attempts on 429), `get`, `exists`, `remove`; folders in `init`, `fetch`, `destroy` | lost replies, requests sent twice, an uninitialised wait | `CloudCall`, `VaultLifecycle` |
| `ThreadPool` (`thread_pool.h`) | queue, mutex, condition variable, `stop` | worker loop, `enqueue`, destructor | lost wakeups, shutdown with a non-empty queue | `ThreadPool` |
| Upload pipeline (`store_tree`, `store_blob`, `wait_for_uploads`) | temporary files, futures, progress counters | encrypt to a temporary file, enqueue, upload, count, remove the file | `add` never waits; a failed upload stays in its future; members destroyed before the pool drains | `UploadPipeline` |
| `LoginHandler`, the token file in `vault.cpp` | callback server thread, `auth_code`, the token | OAuth with PKCE; login, logout, token exchange | a poll without synchronisation or timeout; a port search; several logins at once | `OAuthLogin` |
| Crypto (`crypto/`) | SHA-256's buffer | AES-CTR, SHA-256, HMAC, PBKDF2 | block boundaries, padding | `Sha256Stream` (the rest not) |
| Format, util (`format.cpp`, `util.cpp`) | none | byte layouts; paths, hexadecimal names, files | lengths, flags and counts that must fit | `Format` (the rest not) |
| `httplib.h`, `json.hpp` | | vendored | | as used, see section 5 |

How they interact: `Vault::execute` makes an `ObjectStore` and a `VaultEngine`
for one command. The engine calls the store, the store calls `DropboxStorage`,
synchronously, except for blobs, which `store_blob` encrypts to a temporary
file and hands to the pool (three workers). The process ends when
`~ThreadPool` has drained the queue, also when the command threw. Processes on
different devices share nothing but the Dropbox folder. login starts an HTTP server
in a thread of its own and polls a string that a handler of it assigns.

What makes it correct: whatever fails, the snapshot HEAD names can be read; no
object a snapshot needs is deleted; nothing unused stays behind; a command
changes its one path and nothing else; commands and uploads come to an end; the
password stays enough to open a vault; a scan vouches only for what it has seen; only a
token granted for one's own login is kept.
`PROJECT.json` lists the hazards line by line.

## 2. Modules

| Module | Models |
|---|---|
| `VaultEngine` | the mutating commands of `vault_engine.cpp` with `ObjectStore` and the cloud calls below them, any number of devices |
| `VaultFS` | abstract specification: what a vault promises its user |
| `VaultVersions` | the version of the vault a commit stands for, and with it the mapping of `VaultEngine` to `VaultFS` |
| `VaultLifecycle` | init, sync, destroy and `ensure_store_config` of one vault name, with the commands in between, file by file |
| `VaultScan` | `VaultEngine` composed with the commands that only read |
| `CloudStore` | abstract specification: what a call of `DropboxStorage` promises |
| `CloudCall` | `put`, `get`, `exists` and `remove`, request by request |
| `TaskPool` | abstract specification: what a pool promises its owner |
| `ThreadPool` | `thread_pool.h` |
| `UploadPipeline` | `store_tree`, `store_blob`, `wait_for_uploads` and the destruction of the engine, over `TaskPool` |
| `OAuthLogin` | login, logout, the callback server, the token file |
| `Sha256Stream` | `Sha256::update` and `finalize` |
| `Format` | `serialize_tree`, `serialize_commit` and their readers |
| `MCVaultEngine`, `MCVaultLifecycle`, `MCVaultScan`, `MCCloudCall`, `MCUploadPipeline`, `MCOAuthLogin`, `MCFormat` | instances for TLC |
| `VaultEngineProofs`, `VaultScanProofs`, `VaultLifecycleProofs`, `ThreadPoolProofs`, `UploadPipelineProofs`, `CloudCallProofs`, `OAuthLoginProofs`, `Sha256StreamProofs` | theorems |

How the modules stack: `ThreadPool` implements `TaskPool`, and `UploadPipeline`
instantiates `TaskPool`; `CloudCall` implements `CloudStore`, and `VaultEngine`,
`VaultLifecycle` and `UploadPipeline` use a call as `CloudStore` allows: it takes
effect or not, and its reply arrives or not; `VaultEngine` implements `VaultFS`;
`VaultScan` extends `VaultEngine` (through `VaultVersions`), every action of which may come between two calls
of a reader.

### VaultEngine

State: `remote` is the set of hashes under `objects/`; `cloudHead` and
`localHead[d]` are the commits the HEAD files name (`NoHead`: no file,
`TornHead`: one that `read_head` rejects); `cmd[d]` is the process of device
`d`: `pc` says which call comes next, and the other fields are the locals of
`add`, `mkdir`, `remove`, `rmdir` and of the recursion (`old` is
`old_tree_hashes`, `base` is `old_commit_hash`, `trees` and `blobs` are
`removed_tree_hashes` and `removed_blob_hashes`, `ret` is the hash a level of
the recursion returns); `queue[d]` is the pool's queue.

An object is created by `encrypt_object` under a random IV, so its name is
fresh; the model names objects 1, 2, 3, ... and keeps their contents in `obj`.
`reach` is a ghost: what a traversal (`collect_subtree_hashes`) from an object
visits, recorded when the object is made. `ReachIsResolvable` checks it against
path resolution. `owner`, `unsent`, `clean` and `leaked` are ghosts of the
properties.

One action is one call that another device, a failure or a crash can precede:

- `Begin`, `Sync`, `InitExisting`: the user starts a command. `sync` and the
  `init` of an existing vault make one change each to the local HEAD, so each
  is one action (with `SyncTorn` for a death inside the write).
- `ReadHead*`: `read_head` and `load_commit_checked`. `remove` first resolves
  its path once more from the same local HEAD; that pass changes nothing and
  sees immutable objects, so it is merged with the second.
- `StoreBlob`/`StoreLeaf`: `add` encrypts and enqueues, `mkdir` stores an empty
  tree, both before anything about the path is checked.
- `Descend`, `MissingParent`, `StoreParent`, `Leaf*`, `AskConfirm`,
  `RejectEntry`, `LoadTreeMissing`: the four recursions downwards. They differ
  only at the last component and in what they do about a missing parent.
- `StoreTree` (once per level, upwards), `StoreCommit`, `WriteLocalHead`,
  `PutCloudHead`.
- `RemoveOldCommit`, `OldCommitGone`, `RemoveOldTree`, `RemoveSubtree`,
  `RemoveBlob`, `BlobGone`, `Done`: the deletions, in the code's order. The
  first and the last kind end the command when the object is not there; those
  of trees warn and go on.
- `Upload`, `UploadFails`, `Exit`: the pool as the engine sees it (that the
  pool behaves so is what `ThreadPool` shows: every task runs, the destructor
  returns only when all have).
- `CallFails`, `PutReplyLost`, `HeadReplyLost`, `RemoveReplyLost`,
  `TreeRemoveFails`, `LocalHeadTorn`, `DiesWritingHead`, `Crash`: failures, at any call.
  `LocalHeadTorn` is a write of the local HEAD that is cut short: `write_file_bytes` looks at
  the stream before it is flushed, so the command does not notice and goes on to the cloud
  HEAD and the deletions. `DiesWritingHead` is a death between the truncation and the flush.

`Disciplined = TRUE` is a user who runs one command at a time and runs `sync`
before he works on the other device; the code takes no lock, so `FALSE` lets
devices work at once and from stale HEADs. One process per device is assumed
throughout: two commands started at once on one device are not modelled.

The initial state is what a successful `init` leaves. Passwords and keys are
constant here; what happens to the salt is in `VaultLifecycle`.

### VaultFS

A version is a function from paths to directories or files. There is one in the
cloud and one per device. A command changes one path of its device's version
(`Edit`) and then publishes that version whole (`Publish`); the two are
separate because local and cloud HEAD are written separately, and a command
that fails in between leaves the version unpublished. That is also what
concurrent devices get: no merge, the last publication wins. `Lose` is the loss
of the local HEAD file. While a command is between the two HEADs the version of its device is the new
commit it holds in memory (`Held` in `VaultVersions`). If the write of the file was cut
short, `Publish` leaves the device without a version: the cloud has the new one, and the device
must sync before it can go on.

### ThreadPool

The worker loop with the mutex, the predicate, and the sleep as separate steps
(`Lock`, then `Block` or `Leave` or `Take`, then `Wait`), because lost wakeups
live between them; notifications are outside the mutex, as in the code. A
worker may wake spuriously. The owner enqueues any number of tasks and then
runs the destructor. A task that throws is no different from one that returns:
the exception goes to the future.

`TaskPool` is what is left when the mutex, the sleeps and the wakeups are hidden: a
queue in order, one task per thread, each task once, and a destructor that returns
when all are done.

### VaultLifecycle

A file is there, absent (`NoFile`) or `Torn`, and a config is its salt: the keys of a
device are determined by the password, which is constant, and the salt. `salts` draws
fresh ones; salt 0 is what a config parses to that was cut inside its salt. A commit
carries the salt it was encrypted under, which decides who can read it; what it
holds is `VaultEngine`'s business, and `edit` stands for any command that publishes.
`cmd[d]` is the process of device `d`, as in `VaultEngine`, and the actions are the
calls and the file writes of `Vault::execute`, `ObjectStore::init`, `fetch`,
`load_config`, `save_config`, `write_head`, the downloads of `sync` and the two halves
of `destroy`, in their order. `NoConfig` is the `catch (...)` of `ensure_store_config`:
whatever made the load fail, a new salt is drawn, written and uploaded.

`FaultKinds` says what may go wrong: `"call"` (a cloud call fails, or takes effect and
its reply is lost), `"crash"` (at any step, with what the file being written or the
directory being removed may then look like), `"write"` (a stream that fails when it is
closed, which nobody looks at), `"remove_all"` (its `error_code` is ignored). The users
run the commands of `Exclusive` alone; all others may overlap. destroy is exclusive in
every instance, because what Dropbox makes of an upload into a folder that is being
deleted is not determined by this code. `alone` and `replaced` are ghosts: no other command
overlapped this one; some config was overwritten in the cloud, or cut short on a disk without anybody noticing.

### CloudStore and CloudCall

`CloudCall` has one object and any callers. A request is sent, handled by the service at
some time or refused (429, 5xx), and answered; the answer arrives or the connection
breaks before or after the service has handled it. `PeerClosed` is the second attempt of
`ClientImpl::send` when the peer has closed the TLS connection: the request is sent again
whatever the first one did. `RateLimited` is the branch of `put` for status 429, where
`retry` keeps whatever it held (`Leftover`) unless the answer has no error object or one
with an integer (`RetryAfter`), and `Sleep` the wait of the larger of it and the
attempt. `outcome` (what the service last did for this call) and `waited` are ghosts.

`CloudStore` promises less than one might expect, and exactly what the other modules
use: between invocation and return a call is applied any number of times, not at all only if
it throws, and what it returns is the outcome of its last application.

### UploadPipeline

`stack` holds the active calls of `store_tree`, each with what its folder still has to
store and what the tree object will list; `current` is the file in `store_blob`. `TempFileGuard`
removes the temporary file if anything throws before it is released to the task.
A task uploads, counts, prints and removes its file (`task[w]` says which is next), and an exception
of the upload stays in its future. `WaitGets` and `WaitThrows` are the loop of
`wait_for_uploads` over the futures it has swapped out. After the command the members
of the engine go in reverse order: first the counters and their mutex, then the pool,
whose destructor runs what is queued, then the store. `touched` records what a task uses
after its destruction.

After `add`, and after a `lock_vault` that failed, tasks may still run when the counters
and the mutex are gone. That is undefined behaviour in the code (the members after `pool`
in `vault_engine.h:62-67`); the model records it in `touched` and goes on as if nothing
had happened, and `NoUseAfterDestroy` states what does hold: never after a `lock_vault`
that succeeded, and never the store.

### OAuthLogin

A process runs one command. `Bind`, `BindFails` and `NoPort` are the port search, with the
loop variable `try` that shadows the uninitialised member `port`, and httplib's
`svr_sock_` and `is_decommisioned`. A port can be bound when no other program has it; the
servers of other logins do not count, since httplib sets `SO_REUSEPORT`, and the
kernel gives a connection to one of them. `Handle`, `Assigned` and `Answer` are the
handler of `/callback` on an HTTP thread; `Poll` may see the old code, the new one or
a mixture while it is assigned, and two assignments at once may leave a mixture (`Outcomes`). `Stop`, `ServerEnds` and `Join` are `stop()`: the socket
is closed, `listen_internal` finishes what it has accepted, the thread is joined. A code is named
by the login it was issued for, because the PKCE verifier makes it useless to any other.
The user agrees, denies, reloads the page or does nothing.

### VaultScan

One reader at a time: readers change nothing, so two tell no more than one. `rd` is the
process; `todo` holds, per level of the recursion, the siblings still to visit. `seen` and
`kept` are ghosts, the objects that were sound at some moment of the read and all through it.
To `VaultEngine`'s steps it adds two faults of the cloud, an object that is deleted behind the
program's back (`Lose`) and a blob that comes back altered (`Rot`), and calls of the reader that fail.

### Sha256Stream and Format

`Sha256Stream` takes one iteration of a loop for a step, so the split of a message into
updates makes no difference, as in the code. `transform` is abstracted to the list of
blocks it was given; the four loops of `finalize` keep their bounds and the 64-bit counter
its bytes. `HashesPadded` compares with the padding of FIPS 180-4.

`Format` writes an object, may cut its tail off, and reads it back with the readers'
arithmetic on offsets. A byte has `Base` values instead of 256 and a hash fewer bytes than 32,
so that names longer than one byte's worth, and longer than two bytes', are small enough to check.

## 3. What is checked

Properties are stated, with their meaning, at the end of each module.

| Run | Instance | Shows |
|---|---|---|
| `engine_one_device` | 1 device, 2 names, paths of 1 or 2 components, 2 commands, 2 faults, fair | `SnapshotIntact`, `ExactStore`, `NoSharing`, `ReachIsResolvable`, `TypeOK`; that the commands implement `VaultFS`; every command ends (`CommandEnds`) and every published snapshot becomes complete (`EventuallyComplete`) |
| `engine_two_devices` | 2 devices at once, 2 names, 1 component, 3 commands, 1 fault | `HeadCommitExists`, `OwnSnapshotKept`, and that the interleaved commands implement `VaultFS` |
| `lifecycle` | 2 devices, 5 commands of init, sync, edit, read (overlapping) and destroy (alone), 2 faults: lost or failed calls, crashes, writes cut short unnoticed | `KeysAgree`, `OkMeansDone`, `TypeOK` |
| `call` | 2 callers, 2 calls, 2 contents, 3 attempts, `retry_after` -1 or 7, leftover 0 or 7, fair | `ImplementsCloudStore`, `BackedOff`, `CallReturns`, `TypeOK` |
| `pool` | 3 workers, 5 tasks, 2 spurious wakeups, fair | `ImplementsTaskPool`, `WorkConserving`, `AllWoken`, `DestructorReturns`, `TypeOK`, no deadlock |
| `upload` | 3 files in 2 folders, 2 threads, any call may fail, fair | `LockComplete`, `NoUseAfterDestroy`, `TemporaryFilesRemoved`, `ProgressHonest`, `Exits` |
| `login` | 2 processes, ports 1 to 3 with one or all in use by others, fair | `TokenGranted`, `ServerGone`, `CodeEndsLogin`, `AgreedEndsLogin` |
| `scan` | the engine with 1 device, 2 names, 2 components, add and rmdir, 2 commands, 1 fault, and every reading command on every path, during and after the second command | `CleanMeansSound`, `NoFalseAlarm`, `ReadersAnswer` |
| `sha_stream` | messages of every length to 200 bytes | `HashesPadded`, `LengthReadsBack`, `TypeOK` (the buffer is never overrun) |
| `format` | trees of at most 2 entries, every commit, every cut | `RoundTrip`, `CutIsRefused` |
| `engine_upload_order` | as `engine_one_device`, smaller | violated: see below |
| `password_lost` | 2 devices, 1 failed call | violated: see below |

Bounds. `MaxCmds` bounds the commands a run starts, `MaxFaults` the failures, `ReadLast` when reads start,
`MaxDepth` the components of a path,
`MaxCalls` the calls, `MaxTasks` the tasks, `MaxWakes` the spurious wakeups, `MaxLen` the length
of a message, `MaxEntries` the entries of a tree.
Two names are what sharing and siblings need; two components are what a
missing parent, a tree beside the path, a file on the way and a recursive rmdir need (`engine_one_device`,
where one `add` or `mkdir` makes missing parents and the next command goes through, replaces or
removes what it made). With three commands (`engine_two_devices`) something is created, built upon and then
removed or replaced while another device works; one
fault reaches every place a command can be interrupted, followed by at least
one command on what it left, and two let that command fail as well. Runs with both two components and three
commands, or with two devices at that depth, take longer than is useful; the
theorems of section 4 have none of these bounds. Five commands in `lifecycle` let a vault be made,
used on both devices, destroyed and made again, and two faults let a command fail
on what another failure left. Two calls of two threads are what an application between
a request and its repetition takes; the limit of three attempts stands for five. Two
threads and three files make a task wait in the queue while others run, and a file of
an inner folder be encrypted after one of the outer is being uploaded. In `scan` the first command builds what is read, and no read starts before the
second (until then there is only the empty vault and what the first made of it). Two logins can share
a port, and 3 is the port that the search stops before. 200 bytes pass three block
boundaries with each of the paddings at 55, 56, 63 and 64. In `format` a byte has fewer
values, so that names pass both limits of their two length bytes.

All runs but `pool` turn the deadlock check off: after the last command, call or byte the system
stops. In `pool` the only state without a further step is the one in which the
destructor has returned.

Two devices that work at once do lose updates and leave dangling trees; that
follows from the lack of a lock and is why `SnapshotIntact` is stated for the
disciplined user only. What holds without discipline is what
`engine_two_devices` and `lifecycle` check. That a device which syncs after another has
worked finds the whole snapshot at every depth is checked only for trees of one level
(`engine_two_devices`, by the refinement) and at the level of commits (`lifecycle`).

`SnapshotIntact` allows the blobs in `unsent`, those whose upload has not
succeeded: an upload fails or dies with its process without any trace in the
command's result. That HEAD names a commit holds unconditionally; the rest of `KeysAgree` and
parts of `OkMeansDone` are conditional on `~replaced`; that
a config can be replaced is the finding of `password_lost`. `OkMeansDone` promises what it does of init, an edit and
sync only if the device's files are whole (`Whole`): writes cut short do happen in the run, and the code
reports success over them. `NoFalseAlarm` needs
the snapshot to stay sound: a scan that runs while another device publishes may well raise an alarm
over an old snapshot. `AgreedEndsLogin` excludes a shared port, where the
callback may reach the other login and the first then waits for ever.

Some hazards have no property, because the code does what the hazard fears and promises nothing
else; the models contain the behaviour all the same. Tasks that use destroyed members after `add` or a failed
`lock_vault` (`touched`; `NoUseAfterDestroy` is about the other cases); a login whose user never answers, and one
that finds every port taken (`NoPort` takes both outcomes; the liveness properties of the login are
about users who agree and a port that is free); a token file that is cut short and then decides
whether one is logged in (`Save`; `TokenGranted` says that nothing but a granted token is in it).

Fairness. Engine: a process whose next step is possible takes
it (the calls return: the client has time-outs, and a time-out is a failed call)
and the pool's workers run. Nothing is assumed of users (they need not
answer the question of rmdir) nor of failures. Pool: each
thread that can run eventually does; for a thread that waits for the mutex weak
fairness is enough because the mutex is not contended for ever (spurious wakeups
are bounded). The owner need not enqueue anything, but it sends the notification
it owes, and it runs the destructor (the pool is a member of an object on the
stack of `execute`). Calls: the client and the service go on; the service is not assumed to
accept anything. Uploads: the main thread and the tasks go on, and calls may all
fail. Login: the process and its HTTP threads run; nothing makes the user answer.

### Disagreements with the documentation

Shown by a run:

- `PublishedIsUploaded` (run `engine_upload_order`): the design report describes
  locking bottom-up, blobs uploaded first and the commit last. `init` with a
  folder does it so (`lock_vault` calls `wait_for_uploads`, and `LockComplete` holds); `add` does not wait.
- `PasswordSuffices` (run `password_lost`): the design report says the password is all a
  user needs on another device. One failed download of the config on a device that has none
  (`vault_engine.cpp:370` catches everything) replaces the salt in the cloud, and no device
  that syncs afterwards can open the vault. The same property fails in two more ways,
  with the other values of `FaultKinds`: with `"write"`, a config that could not be written whole is
  uploaded by init, which reports success (`object_store.cpp:151`); with `"remove_all"`, init on a
  device with the metadata of an earlier vault of that name works with its old
  config and uploads none (`vault.cpp:138`).

Seen while the code was modelled, and part of the actions named:

- A missing local HEAD does not fall back to the cloud HEAD, as the README says: the code for it
  is commented out (`object_store.cpp:180`; `ReadHeadMissing` in `VaultEngine`).
- A delete that is sent twice finds nothing the second time, so `remove` says the object was
  not there and the command stops although it has deleted it (`CloudCall`, `NotFound`).
- The comment at `dropbox_storage.cpp:278` speaks of exponential backoff; the waits grow by one
  second per attempt. `retry` is read uninitialised when the error object of an answer has no
  integer `retry_after` (`RateLimited`).
- Two logins of one user bind the same port (`Bind`); the range documented as 8080-8100 is searched
  up to 8099 (`BindFails`); with no free port, an uninitialised member decides whether login fails or
  waits without a server (`NoPort`).
- A full disk goes unnoticed: `write_file_bytes` checks the stream before it is flushed (`util.cpp:70`), so a
  command that leaves a torn local HEAD publishes its commit, deletes the old one and
  reports success; the next command of that device fails until `sync` (`LocalHeadTorn`).
- login reports a saved token although the file could not be opened or written (`Save`), and refuses
  to replace a token that is revoked or torn (`Login`), while the other commands tell the user to log in.

## 4. What is proved

For every set of devices, names, depth, number of commands and of failures
(assumption `ConstantsAssumption`), in `VaultEngineProofs`:

- `TypeCorrect`: `Spec => []TypeOK`.
- `NothingShared`: `Spec => []NoSharing`.
- `OwnSnapshotSafe`: `Spec => []OwnSnapshotKept`.

They follow from one inductive invariant, `IInv` (theorem `Invariance`).
`OwnSnapshotKept` alone is not inductive: it says nothing of a command before it
has stored its commit. The invariant therefore follows a command from the start.
The store is a forest: what an object reaches is itself and what its entries
reach, always older objects of the right kinds, and the reaches of two entries of one
directory are disjoint. The trees a command has visited form a path: each is the
entry of the one before. What will be deleted is on that path, or below the
entry the path ends in. Each new tree is a copy in which the one entry on the
path is replaced by the result of the level below, so by disjointness what it
reaches has nothing in common with the deleted, level by level up to the root and
the commit. That objects have fresh names is used throughout: it is what
encryption under a random IV gives, and `StoreLeafDeduplicated` shows what
happens without it.

`Refinement` (`Spec => RefinesVaultFS`, with `HeadAssumption`: a missing or torn HEAD is not a version):
the commands of any number of devices, at once and with any failures, implement `VaultFS`. A version
is the paths that resolve from a commit's root (`VaultVersions`), so the proof is about trails: what
is met on the way along a path. `EditInv` follows a command by `OldTrailFacts`: the trees it has loaded
are the beginning of the trail of its path in the version it read. On the way up the new trees are those of the old
trail with the one entry on the path replaced (`Rewritten`), and at the end of it is what the
command puts there (`LeafFits`). `RewriteIsEdit` is the lemma that such a rewriting, complete up to the root, changes the
version in exactly one path, as one of the four edits of `VaultFS` does: a path that leaves the trail
goes on in an old subtree, one that goes beyond its end comes to nothing in a new leaf. It
is about constants; `EditGrows` says that the objects other commands add in the meantime do
not change it. Where a proof runs along a path, it takes the first component at which the
claim would fail (`LeastElement`, `Climb`), since the induction rules of the library cannot be used. `HeadSteps`
maps the steps: `WriteLocalHead` is an edit, the change of the cloud's HEAD with or without its reply
a publication, `Sync` a sync, the renewal of the local HEAD or a death inside its write a loss, and all others leave every version
alone. A local HEAD cut short unnoticed is an edit too, since the command still
holds the new commit; what is lost is lost when it publishes, or when it fails to.

`TraversalMeetsPaths` (`Spec => []ReachIsResolvable`): what a traversal gathers from a commit's root
and what paths resolve to are the same objects, in every commit ever stored. One half is an
induction along a path (`TrailReached`). The other, that each object reached is at the end of some path (`ReachedByPath`),
goes by the age of the objects, and needs `ReachInv`: trees and blobs reach no commit, and no path longer
than `MaxDepth` leads anywhere from a commit's root (`Shallow`), for otherwise a traversal would find what no
command could name. It is kept because a command puts a blob, an empty directory or nothing at
the end of its path, so a rewriting is no deeper than what it rewrites (`RewriteIsShallow`).

From the same assumption: `HeadNamesStoredCommit`
(`Spec => []HeadCommitExists`). The formula says nothing of why the commit a command
is about to delete is not the one HEAD names by then, so it is not inductive either.
`HeadInv` adds that a commit belongs to the command that made it until HEAD names it: no other
device has it as its local HEAD or works from it (`Private`); that a command deletes its old commit
only while HEAD names another one (`Outdated`), because HEAD moves only to commits that were
private until then; and that nothing else a command deletes is a commit (`SparesCommits`).
A new commit is private because its hash is new. `QuietStep` is about the steps that
change neither HEAD nor the commits and tell nobody of one; storing a commit, moving HEAD and deleting
the old commit, each with or without its reply, have lemmas of their own.

`SnapshotNeverLosesAnObject` (`Spec => []SnapshotIntact`): used one command at a time, neither
the published snapshot nor the one the working device builds on loses an object, through
every failure and crash. `SnapInv` is its induction. `Serial` says that only the owner's
command can be under way, `HeadsSafe` that the snapshots of both HEADs are in the cloud but
for blobs still unsent, and `Holds` follows the one command: what it has loaded (`base`, the
path, what hangs beside the path) is there because the published snapshot is, each tree it
stores reaches only what is there already, and from the moment a HEAD names the new
commit only `Doomed` objects go, which by `OwnSnapshotKept` that commit does not reach.

`NothingLeftBehind` (`Spec => []ExactStore`): used one command at a time, and as long as none has failed
or warned after it stored something, the cloud holds between two commands exactly the
published snapshot and the blobs that `add` replaced (the ghost `leaked`). `ExactInv` is the other half
of `SnapInv`. `Claims` is what the running command knows of: what it will delete, what hangs off its path
(`Beside`), what is below the tree it has loaded and below what it has `Returned`; after the commit,
the new snapshot and what `Remaining` deletions are to remove. `Balanced` says that each object in the
cloud is claimed or leaked and that no leaked one is claimed; `Settled` is the same before
anything is stored. `Queued` and `Waiting` say that what the pool has still to upload belongs to
what is returned or to the new snapshot, and `NoCommitBelow` that the trees and blobs
which `rmdir` collects are all of the subtree. Each step moves objects from one part of
`Claims` to another; only the blob that `add` replaces drops out of it, into `leaked`.

For any finite set of workers and any number of tasks, in `ThreadPoolProofs`
(assumption `PoolAssumption`): `NoLostWakeup` (`Spec => []WorkConserving`),
`NobodyLeftAsleep` (`Spec => []AllWoken`), `DrainedAtJoin` (`Spec => []Drained`),
from `PoolInv` (`PoolInvariance`). A worker that has found the predicate false
holds the mutex until it sleeps, so neither a push nor `stop` can come in
between; each notification that finds a sleeper adds one to the workers on
their way, and a worker falls asleep or leaves only when the queue is empty;
counting them gives `WorkConserving`. Every task is in the queue, with a worker,
or finished.

`PoolTypes` (`Spec => []TypeOK`) and `PoolImplementsTaskPool`
(`Spec => ImplementsTaskPool`) follow from the same invariant: a step of the pool is a
step of `TaskPool` when it pushes, takes, finishes, sets `stop` or returns from the
destructor, and a stutter otherwise.

For any finite folder, any threads, failures and orders of the uploads, in
`UploadPipelineProofs` (assumption `UploadAssumption`: `Within` makes the folders a tree, every
folder reached from `Root`, and `Nothing` is neither an entry nor a set of them):
`LockStoresTheWholeFolder` (`Spec => []LockComplete`), `TasksUseWhatExists`
(`Spec => []NoUseAfterDestroy`), `OnlyFailedUploadsLeaveFiles` (`Spec => []TemporaryFilesRemoved`),
`ProgressIsHonest` (`Spec => []ProgressHonest`) and `TypesHold` (`Spec => []TypeOK`, proved only), from `IInv`. A file handed over is
in one place, the queue, a thread or among the ended (`PoolInv`). While the folder is walked, a folder is
visited exactly when its parent has listed it, and the files listed are those handed
over (`WalkInv`), so when the stack is empty the visited folders are closed under
`Within` and hold `Root`: they are all of them. `LockComplete` needs also that each
upload without an exception is still in a future or has succeeded (`LockInv`);
`NoUseAfterDestroy`, that `wait_for_uploads` leaves no task running when it returns;
`TemporaryFilesRemoved`, that the temporary files are at each moment those of the uploads
queued, running or failed, with the one in `store_blob`'s guard (`TempInv`); `ProgressHonest`, that
every number drawn from `finished_uploads` is in a task about to print it or has been
printed, and that the counters are the sizes of what was handed over and what has
finished (`CountInv`).

For any commands, uploads, losses, altered blobs and failed calls during the
scan, in `VaultScanProofs` (assumption `ConstantsAssumption`): `ACleanScanVouches`
(`ScanSpec => []CleanMeansSound`) and `ScansRaiseNoFalseAlarm` (`ScanSpec => []NoFalseAlarm`), from
`ScanInv` (`ScanInvariance`), which extends the engine's `IInv`. What a scan has still to visit
(`Rest`) is what the entries on its list lead to; by `NoSharing` no two entries lead to a
common object (`Parted`), so each visit takes exactly one object out of `Rest`. What the
scan has passed and `Rest` together are its snapshot: everything passed without an error was seen
(`Vouched`), and the counts of the report with those of `Rest` are the counts of the snapshot (`Tally`). Other
processes only append objects, which changes neither (`Grown`).

`ReadersAnswerForTheirSnapshot` (`ScanSpec => []ReadersAnswer`) is about list, tree and cat. `ReaderInv` adds to
`ScanInv` the engine's `EditInv` and `ReachInv`, and `AnswerInv`: while the path is resolved, the directory in hand is
what the trail of the path meets at that level, and below it tree has only directories of its snapshot
on its list. A read that gives up early, at a missing entry or a file on the way, is right because a trail
does not go on from there (`HereFacts`); one that cannot load an object of a sound snapshot is
excluded. Other processes append objects, which leaves trails as they are (`WorldAnswers`).

For any callers, contents, answers and number of attempts, in `CloudCallProofs` (assumption
`CallAssumption`): `CallTypes`, `NoBurst` (`Spec => []BackedOff`) and `CallsAreAtomic`
(`Spec => ImplementsCloudStore`), from `CallInv`. An answer on its way carries the outcome of
the last application and nothing is applied after it has been sent; before the n-th
attempt the waits add up to n(n-1)/2 seconds, since each is at least as long as the attempts before it.

For messages of any length, in `Sha256StreamProofs` (assumption `StreamAssumption`): `BufferBounded`
(`Spec => []TypeOK`), `PaddingCorrect` (`Spec => []HashesPadded`) and `StreamComplete` (the hashed
blocks and the buffer are the message). The invariant says, for each of the loops of `finalize`, how much
of the padding is in the buffer; that the zeros are the least number that fills the last block is
arithmetic modulo 64. `LengthDecodes`: `LengthFits => (Spec => []LengthReadsBack)`, the eight bytes of the length, read most significant
first as FIPS 180-4 has it, are the length in bits, if that fits `bitlen_`'s 64 bits (`LengthFits`).

For any number of logins, ports and users' answers, in `OAuthLoginProofs` (assumption `LoginAssumption`):
`ServerStopped` (`Spec => []ServerGone`) and `TokensGranted` (`Spec => []TokenGranted`), from `Inv`
(`LoginInvariance`). Handlers run only on a server thread that runs, and that thread exists only
from the start of the server to the join in `stop`; so when a login exchanges its code
nothing writes `auth_code` any more, and a token is only ever saved for the code that was granted
to that login, whatever the racing read returned and whichever server the callback reached.

For any number of devices, commands and faults, in `VaultLifecycleProofs` (assumption
`LifecycleAssumption`): `LifecycleTypes` (`Spec => []TypeOK`) and `HeadNamesCommit`, the first half of
`KeysAgree`. `KeysAgree` itself is `KeysStayTogether`: `FoldersAreSafe => (Spec => []KeysAgree)`, where
`FoldersAreSafe` says that a folder which is removed is gone (no fault of the kind `"remove_all"`; calls
may fail or lose their replies, processes may die anywhere and writes be cut short unnoticed, as in the run).
Without it the formula is false: an init that keeps the config of an earlier vault encrypts
under a salt which the cloud does not have.

Neither half is inductive. `HeadInv` adds that from the moment a commit is stored to the
moment HEAD names it no other device has it in hand (`Private`), which rests on the numbers
of the commits (`Numbered`); that an edit which is about to remove its base has moved HEAD
away from it, and whoever moved HEAD since moved it to a commit of its own (`Outdated`);
and that a destroy runs alone (`Alone`). Most steps change neither HEAD nor the commits
and bring nothing new into anybody's hands: `QuietStep` is about them, and `CloudStep`
and `PutCommitKeeps` about the four that do. `KeysInv` adds what a command knows of the config when it
comes to encrypt: an edit has authenticated a commit under its salt, and everything stored is
under the salt in the cloud; an init has cleared its directory, so what it loads is what the cloud
has or what it uploads itself (`HasKeys`). The first upload of a config changes the salt under
nobody, because without one nothing can have been stored.

`SuccessIsReal`: `FilesAreSafe => (Spec => OkMeansDone)`, where `FilesAreSafe` excludes writes cut short as
well, the property of the steps by which a command
ends. It rests on the two invariants above and on `DoneInv`: which labels a command of
each name comes to (`OnRoute`); that a command which is still marked as alone has nobody else running
(`Solitary`), so that nothing changes under it; and what it has brought about at each label (`SoFar`), that
is, whose salt its keys are (`KeysOnDisk`), where its commit is stored and
named (`CommitInHand`), and what a sync has copied and a destroy emptied (`Copied`). `KeysOnDisk` is
where `FilesAreSafe` matters: after a write that was cut short unnoticed, the engine would go on with a salt
that is not on the disk.

Only model-checked: the properties of `Format`, whose readers and writers recurse over bytes (an induction
over data), and all liveness (`CommandEnds`, `EventuallyComplete`, `CodeEndsLogin`,
`AgreedEndsLogin` and the others), which is out of the prover's reach.

## 5. Not modelled

- The mathematics of AES, SHA-256's compression, HMAC and PBKDF2: straight-line bit arithmetic
  without state between calls. The models use what follows from it: names
  are fresh, data made under another salt is refused.
- `httplib.h` and `json.hpp` are vendored and make up nine tenths of the lines under `src/`. Only
  what the program relies on is modelled, at the lines where it happens: the request that
  is sent twice, the socket options of the server, its stop. Parsing JSON and HTTP is left out.
- A request that Dropbox applies after the client has given up on it and gone on; commands that
  overlap a destroy; two commands at once on one device (they would share the local HEAD).
- Refusals of commands that no modelled input reaches: a path made of slashes only ("path resolution failed",
  `vault_engine.cpp:689`), and the writers' checks of more than 65535 entries and of a flag
  without its field (`format.cpp:9,25,30`), which no caller produces.
- Hexadecimal names, comparison in constant time, random bytes, time stamps, messages and their layout.
- In `UploadPipeline`, what a task does with members that are gone is undefined and not followed further.
- The random values of PKCE are abstracted to the owner of a code; the browser and Dropbox are external.
