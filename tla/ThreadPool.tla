----------------------------- MODULE ThreadPool -----------------------------
(***************************************************************************)
(* The thread pool that uploads blobs: a queue of tasks under one mutex,   *)
(* workers that sleep on one condition variable, a main thread that        *)
(* enqueues and at last destroys the pool.                                 *)
(*                                                                         *)
(* A worker evaluates the wait predicate with the mutex held (check) and   *)
(* goes to sleep later (block, then waiting); cv.wait gives the mutex back *)
(* and sleeps in one step.  The notifications happen outside the mutex, in *)
(* steps of their own, and wake nobody when nobody sleeps.                 *)
(***************************************************************************)
EXTENDS Naturals, Sequences, FiniteSets

CONSTANTS
  Worker,     \* the threads the constructor starts
  MaxTasks,   \* bound: tasks enqueued
  MaxWakes,   \* bound: spurious wakeups
  Free        \* the mutex is not held

ASSUME PoolAssumption ==
  /\ IsFiniteSet(Worker) /\ Worker # {}
  /\ MaxTasks \in Nat /\ MaxWakes \in Nat
  /\ Free \notin Worker

VARIABLES
  mutex,      \* Free or the worker that holds it
  tasks,      \* the queue; a task is the number of its enqueue
  stop,
  worker,     \* where each worker is
  task,       \* the task a worker runs, or 0
  main,       \* where the owner of the pool is
  enqueued,   \* ghost: tasks enqueued so far
  finished,   \* ghost: tasks that have run
  wakes

vars == <<mutex, tasks, stop, worker, task, main, enqueued, finished, wakes>>

Waiting == {w \in Worker : worker[w] = "waiting"}

Go(w, label) == worker' = [worker EXCEPT ![w] = label]

----------------------------------------------------------------------------
(* A worker's loop *)

Lock(w) ==
  /\ worker[w] = "lock"
  /\ mutex = Free
  /\ mutex' = w
  /\ Go(w, "check")
  /\ UNCHANGED <<tasks, stop, task, main, enqueued, finished, wakes>>

(* The predicate is false: the worker is going to sleep, still with the mutex *)
Block(w) ==
  /\ worker[w] = "check"
  /\ ~stop /\ tasks = <<>>
  /\ Go(w, "block")
  /\ UNCHANGED <<mutex, tasks, stop, task, main, enqueued, finished, wakes>>

Wait(w) ==
  /\ worker[w] = "block"
  /\ mutex' = Free
  /\ Go(w, "waiting")
  /\ UNCHANGED <<tasks, stop, task, main, enqueued, finished, wakes>>

SpuriousWake(w) ==
  /\ worker[w] = "waiting"
  /\ wakes < MaxWakes
  /\ wakes' = wakes + 1
  /\ Go(w, "lock")
  /\ UNCHANGED <<mutex, tasks, stop, task, main, enqueued, finished>>

(* Mutant: a stopped pool's workers return at once *)
LeaveAtOnce(w) ==
  /\ worker[w] = "check"
  /\ stop
  /\ mutex' = Free
  /\ Go(w, "exited")
  /\ UNCHANGED <<tasks, stop, task, main, enqueued, finished, wakes>>

Leave(w) ==
  /\ worker[w] = "check"
  /\ stop /\ tasks = <<>>
  /\ mutex' = Free
  /\ Go(w, "exited")
  /\ UNCHANGED <<tasks, stop, task, main, enqueued, finished, wakes>>

(* Mutant: the queue is a stack *)
TakeNewest(w) ==
  /\ worker[w] = "check"
  /\ tasks # <<>>
  /\ task' = [task EXCEPT ![w] = tasks[Len(tasks)]]
  /\ tasks' = SubSeq(tasks, 1, Len(tasks) - 1)
  /\ mutex' = Free
  /\ Go(w, "run")
  /\ UNCHANGED <<stop, main, enqueued, finished, wakes>>

Take(w) ==
  /\ worker[w] = "check"
  /\ tasks # <<>>
  /\ task' = [task EXCEPT ![w] = Head(tasks)]
  /\ tasks' = Tail(tasks)
  /\ mutex' = Free
  /\ Go(w, "run")
  /\ UNCHANGED <<stop, main, enqueued, finished, wakes>>

(* Mutant: what runs is the task object that was moved from (0) *)
RunMovedFrom(w) ==
  /\ worker[w] = "run"
  /\ finished' = finished \cup {0}
  /\ task' = [task EXCEPT ![w] = 0]
  /\ Go(w, "lock")
  /\ UNCHANGED <<mutex, tasks, stop, main, enqueued, wakes>>

(* The packaged task runs outside the mutex; an exception stays in its future *)
Run(w) ==
  /\ worker[w] = "run"
  /\ finished' = finished \cup {task[w]}
  /\ task' = [task EXCEPT ![w] = 0]
  /\ Go(w, "lock")
  /\ UNCHANGED <<mutex, tasks, stop, main, enqueued, wakes>>

----------------------------------------------------------------------------
(* The owner *)

(* Mutant: only the task that fills an empty queue is notified *)
EnqueueNotifiesIfEmpty ==
  /\ main = "idle"
  /\ mutex = Free
  /\ enqueued < MaxTasks
  /\ tasks' = Append(tasks, enqueued + 1)
  /\ enqueued' = enqueued + 1
  /\ main' = IF tasks = <<>> THEN "notify" ELSE "idle"
  /\ UNCHANGED <<mutex, stop, worker, task, finished, wakes>>

Enqueue ==
  /\ main = "idle"
  /\ mutex = Free
  /\ enqueued < MaxTasks
  /\ tasks' = Append(tasks, enqueued + 1)
  /\ enqueued' = enqueued + 1
  /\ main' = "notify"
  /\ UNCHANGED <<mutex, stop, worker, task, finished, wakes>>

NotifyOne ==
  /\ main = "notify"
  /\ \/ \E w \in Waiting : Go(w, "lock")
     \/ Waiting = {} /\ UNCHANGED worker
  /\ main' = "idle"
  /\ UNCHANGED <<mutex, tasks, stop, task, enqueued, finished, wakes>>

(* Mutant: stop is set without the mutex *)
SetStopUnlocked ==
  /\ main = "idle"
  /\ stop' = TRUE
  /\ main' = "notifyall"
  /\ UNCHANGED <<mutex, tasks, worker, task, enqueued, finished, wakes>>

SetStop ==
  /\ main = "idle"
  /\ mutex = Free
  /\ stop' = TRUE
  /\ main' = "notifyall"
  /\ UNCHANGED <<mutex, tasks, worker, task, enqueued, finished, wakes>>

(* Mutant: the destructor wakes a single worker *)
NotifyAllOnlyOne ==
  /\ main = "notifyall"
  /\ \/ \E w \in Waiting : Go(w, "lock")
     \/ Waiting = {} /\ UNCHANGED worker
  /\ main' = "join"
  /\ UNCHANGED <<mutex, tasks, stop, task, enqueued, finished, wakes>>

NotifyAll ==
  /\ main = "notifyall"
  /\ worker' = [w \in Worker |-> IF w \in Waiting THEN "lock" ELSE worker[w]]
  /\ main' = "join"
  /\ UNCHANGED <<mutex, tasks, stop, task, enqueued, finished, wakes>>

Join ==
  /\ main = "join"
  /\ \A w \in Worker : worker[w] = "exited"
  /\ main' = "joined"
  /\ UNCHANGED <<mutex, tasks, stop, worker, task, enqueued, finished, wakes>>

(* The only state in which nothing is left to do *)
Terminated == main = "joined" /\ UNCHANGED vars

----------------------------------------------------------------------------
Init ==
  /\ mutex = Free
  /\ tasks = <<>>
  /\ stop = FALSE
  /\ worker = [w \in Worker |-> "lock"]
  /\ task = [w \in Worker |-> 0]
  /\ main = "idle"
  /\ enqueued = 0
  /\ finished = {}
  /\ wakes = 0

WorkerStep(w) == Lock(w) \/ Block(w) \/ Wait(w) \/ Leave(w) \/ Take(w) \/ Run(w)
Destroy       == SetStop \/ NotifyAll \/ Join
Owner         == Enqueue \/ NotifyOne \/ Destroy

Next ==
  \/ \E w \in Worker : WorkerStep(w) \/ SpuriousWake(w)
  \/ Owner
  \/ Terminated

Spec == Init /\ [][Next]_vars

(* The scheduler runs every thread that can run.  No fairness of the mutex beyond
   that: the spurious wakeups that could keep it busy forever are bounded. *)
Fairness == WF_vars(NotifyOne) /\ WF_vars(Destroy) /\ \A w \in Worker : WF_vars(WorkerStep(w))
FairSpec == Spec /\ Fairness

----------------------------------------------------------------------------
(* Properties *)

WorkerLabel == {"lock", "check", "block", "waiting", "run", "exited"}
MainLabel   == {"idle", "notify", "notifyall", "join", "joined"}

(* The types of the variables; what runs is a task, never the empty one a move leaves. *)
TypeOK ==
  /\ mutex \in Worker \cup {Free}
  /\ tasks \in Seq(Nat)
  /\ stop \in BOOLEAN
  /\ worker \in [Worker -> WorkerLabel]
  /\ task \in [Worker -> Nat]
  /\ main \in MainLabel
  /\ enqueued \in Nat
  /\ finished \subseteq Nat \ {0}
  /\ wakes \in Nat

Awake   == {w \in Worker : worker[w] \in {"lock", "check"}}
Pending == IF main = "notify" THEN 1 ELSE 0

(* While a worker sleeps, each queued task has a worker of its own on the way to the
   queue, or its notification is about to be sent: no wakeup is ever lost or missing
   (enqueue notifies after it has released the mutex). *)
WorkConserving == Waiting # {} => Len(tasks) <= Cardinality(Awake) + Pending

(* Once the destructor waits in join, no worker sleeps or is about to: stop is set
   under the mutex, so a worker that saw it unset is asleep before notify_all. *)
AllWoken == main \in {"join", "joined"} =>
              \A w \in Worker : worker[w] \notin {"block", "waiting"}

(* The destructor returns only after every task ever enqueued has run: the uploads
   add leaves in the queue are drained, not dropped. *)
Drained == main = "joined" => finished = 1..enqueued

(* The pool its owner sees, with its queue, its lock and its wakeups hidden: tasks start in
   order, each once, and are all run before the destructor returns. *)
Abstract == INSTANCE TaskPool WITH
  Task <- 1..MaxTasks, Nothing <- 0, queue <- tasks, running <- task, ended <- finished,
  closed <- stop, gone <- (main = "joined")
ImplementsTaskPool == Abstract!Spec

(* The destructor returns, whatever the workers were doing when it started: with the tasks
   before it, as TaskPool demands, so every task that was enqueued runs. *)
DestructorReturns == stop ~> main = "joined"
=============================================================================
