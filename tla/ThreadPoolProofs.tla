-------------------------- MODULE ThreadPoolProofs --------------------------
(***************************************************************************)
(* Proofs about ThreadPool, for any finite set of workers and any bounds.  *)
(*                                                                         *)
(* The argument: the worker that has seen the predicate false holds the    *)
(* mutex until it sleeps (Exclusion), so neither a push nor stop can fall  *)
(* in between.  Each notification that finds a sleeper makes one more      *)
(* worker come to the queue, and a worker falls asleep or leaves only when *)
(* the queue is empty; counting the workers on their way gives             *)
(* WorkConserving.  Every task is in the queue, with a worker that runs    *)
(* it, or finished (Accounted), and a worker that left found the queue     *)
(* empty.                                                                  *)
(***************************************************************************)
EXTENDS ThreadPool, TLAPS, FiniteSetTheorems

Exclusion ==
  /\ \A w \in Worker : worker[w] \in {"check", "block"} <=> mutex = w
  /\ \A w \in Worker : worker[w] = "block" => ~stop /\ tasks = <<>>

Phases ==
  /\ main \in {"idle", "notify"} <=> ~stop
  /\ \A w \in Worker : worker[w] = "exited" => stop /\ tasks = <<>>
  /\ main = "joined" => \A w \in Worker : worker[w] = "exited"

Accounted ==
  /\ \A w \in Worker : IF worker[w] = "run" THEN task[w] \in 1..enqueued ELSE task[w] = 0
  /\ \A i \in 1..Len(tasks) : tasks[i] \in 1..enqueued
  /\ finished \subseteq 1..enqueued
  /\ \A t \in 1..enqueued :
       \/ t \in finished
       \/ \E i \in 1..Len(tasks) : tasks[i] = t
       \/ \E w \in Worker : task[w] = t

PoolInv == TypeOK /\ Exclusion /\ Phases /\ AllWoken /\ WorkConserving /\ Accounted

----------------------------------------------------------------------------
(* The workers on their way to the queue can be counted. *)
LEMMA AwakeFinite ==
  IsFiniteSet(Awake) /\ Cardinality(Awake) \in Nat
<1>1. IsFiniteSet(Worker) /\ Awake \subseteq Worker
  BY PoolAssumption DEF Awake
<1>2. IsFiniteSet(Awake)
  BY <1>1, FS_Subset
<1> QED BY <1>2, FS_CardinalityType

LEMMA PendingType == Pending \in {0, 1}
  BY DEF Pending

(* With an empty queue nothing is owed to a sleeper. *)
LEMMA EmptyQueue ==
  ASSUME tasks' = <<>>
  PROVE  WorkConserving'
<1>1. IsFiniteSet(Worker) /\ Awake' \subseteq Worker
  BY PoolAssumption DEF Awake
<1>2. IsFiniteSet(Awake')
  BY <1>1, FS_Subset
<1>3. Cardinality(Awake') \in Nat
  BY <1>2, FS_CardinalityType
<1>4. Pending' \in {0, 1} /\ Len(tasks') = 0
  BY DEF Pending
<1> QED BY <1>3, <1>4 DEF WorkConserving

(* One more worker on its way. *)
LEMMA OneMoreAwake ==
  ASSUME NEW w \in Worker, worker[w] \notin {"lock", "check"}, Awake' = Awake \cup {w}
  PROVE  Cardinality(Awake') = Cardinality(Awake) + 1
<1>1. w \notin Awake
  BY DEF Awake
<1> QED BY <1>1, AwakeFinite, FS_AddElement

LEMMA OneLessAwake ==
  ASSUME NEW w \in Awake, Awake' = Awake \ {w}
  PROVE  Cardinality(Awake') = Cardinality(Awake) - 1
  BY AwakeFinite, FS_RemoveElement

LEMMA InitPool == Init => PoolInv
<1> SUFFICES ASSUME Init PROVE PoolInv
  OBVIOUS
<1>1. TypeOK
  <2>1. tasks \in Seq(Nat)
    BY DEF Init
  <2> QED BY <2>1, PoolAssumption DEF Init, TypeOK, WorkerLabel, MainLabel
<1>2. Exclusion
  BY PoolAssumption DEF Init, Exclusion
<1>3. Phases
  BY DEF Init, Phases
<1>4. AllWoken
  BY DEF Init, AllWoken
<1>5. WorkConserving
  BY DEF Init, WorkConserving, Waiting
<1>6. Accounted
  BY DEF Init, Accounted
<1> QED BY <1>1, <1>2, <1>3, <1>4, <1>5, <1>6 DEF PoolInv

----------------------------------------------------------------------------
(* One action of a worker or of the owner after the other. *)

LEMMA LockPool ==
  ASSUME PoolInv, NEW w \in Worker, Lock(w)
  PROVE  PoolInv'
<1> USE DEF PoolInv
<1>1. TypeOK'
  BY PoolAssumption DEF TypeOK, WorkerLabel, MainLabel, Go, Lock
<1>2. Exclusion'
  BY PoolAssumption DEF TypeOK, WorkerLabel, Exclusion, Phases, Go, Lock
<1>3. Phases'
  BY DEF TypeOK, WorkerLabel, MainLabel, Phases, Go, Lock
<1>4. AllWoken'
  BY DEF TypeOK, WorkerLabel, MainLabel, Exclusion, Phases, AllWoken, Go, Lock
<1>5. WorkConserving'
  <2>1. Awake' = Awake /\ Waiting' = Waiting
    BY DEF TypeOK, WorkerLabel, Awake, Waiting, Go, Lock
  <2>2. Pending' = Pending /\ tasks' = tasks
    BY DEF Pending, Lock
  <2> QED BY <2>1, <2>2 DEF WorkConserving
<1>6. Accounted'
  BY DEF TypeOK, WorkerLabel, Accounted, Go, Lock
<1> QED BY <1>1, <1>2, <1>3, <1>4, <1>5, <1>6

LEMMA BlockPool ==
  ASSUME PoolInv, NEW w \in Worker, Block(w)
  PROVE  PoolInv'
<1> USE DEF PoolInv
<1>1. TypeOK'
  BY PoolAssumption DEF TypeOK, WorkerLabel, MainLabel, Go, Block
<1>2. Exclusion'
  BY PoolAssumption DEF TypeOK, WorkerLabel, Exclusion, Phases, Go, Block
<1>3. Phases'
  BY DEF TypeOK, WorkerLabel, MainLabel, Phases, Go, Block
<1>4. AllWoken'
  BY DEF TypeOK, WorkerLabel, MainLabel, Exclusion, Phases, AllWoken, Go, Block
<1>5. WorkConserving'
  <2>1. tasks' = <<>>
    BY DEF Exclusion, Block
  <2> QED BY <2>1, EmptyQueue
<1>6. Accounted'
  BY DEF TypeOK, WorkerLabel, Accounted, Go, Block
<1> QED BY <1>1, <1>2, <1>3, <1>4, <1>5, <1>6

LEMMA WaitPool ==
  ASSUME PoolInv, NEW w \in Worker, Wait(w)
  PROVE  PoolInv'
<1> USE DEF PoolInv
<1>1. TypeOK'
  BY PoolAssumption DEF TypeOK, WorkerLabel, MainLabel, Go, Wait
<1>2. Exclusion'
  BY PoolAssumption DEF TypeOK, WorkerLabel, Exclusion, Phases, Go, Wait
<1>3. Phases'
  BY DEF TypeOK, WorkerLabel, MainLabel, Phases, Go, Wait
<1>4. AllWoken'
  BY DEF TypeOK, WorkerLabel, MainLabel, Exclusion, Phases, AllWoken, Go, Wait
<1>5. WorkConserving'
  <2>1. tasks' = <<>>
    BY DEF Exclusion, Wait
  <2> QED BY <2>1, EmptyQueue
<1>6. Accounted'
  BY DEF TypeOK, WorkerLabel, Accounted, Go, Wait
<1> QED BY <1>1, <1>2, <1>3, <1>4, <1>5, <1>6

LEMMA SpuriousWakePool ==
  ASSUME PoolInv, NEW w \in Worker, SpuriousWake(w)
  PROVE  PoolInv'
<1> USE DEF PoolInv
<1>1. TypeOK'
  BY PoolAssumption DEF TypeOK, WorkerLabel, MainLabel, Go, SpuriousWake
<1>2. Exclusion'
  BY PoolAssumption DEF TypeOK, WorkerLabel, Exclusion, Phases, Go, SpuriousWake
<1>3. Phases'
  BY DEF TypeOK, WorkerLabel, MainLabel, Phases, Go, SpuriousWake
<1>4. AllWoken'
  BY DEF TypeOK, WorkerLabel, MainLabel, Exclusion, Phases, AllWoken, Go, SpuriousWake
<1>5. WorkConserving'
  <2>1. worker[w] \notin {"lock", "check"} /\ Awake' = Awake \cup {w}
    BY DEF TypeOK, WorkerLabel, Awake, Go, SpuriousWake
  <2>2. Cardinality(Awake') = Cardinality(Awake) + 1
    BY <2>1, OneMoreAwake
  <2>3. Waiting' \subseteq Waiting
    BY DEF TypeOK, WorkerLabel, Waiting, Go, SpuriousWake
  <2>4. Pending' = Pending /\ tasks' = tasks
    BY DEF Pending, SpuriousWake
  <2>5. Len(tasks) \in Nat
    BY DEF TypeOK
  <2> QED BY <2>2, <2>3, <2>4, <2>5, AwakeFinite, PendingType DEF WorkConserving
<1>6. Accounted'
  BY DEF TypeOK, WorkerLabel, Accounted, Go, SpuriousWake
<1> QED BY <1>1, <1>2, <1>3, <1>4, <1>5, <1>6

LEMMA LeavePool ==
  ASSUME PoolInv, NEW w \in Worker, Leave(w)
  PROVE  PoolInv'
<1> USE DEF PoolInv
<1>1. TypeOK'
  BY PoolAssumption DEF TypeOK, WorkerLabel, MainLabel, Go, Leave
<1>2. Exclusion'
  BY PoolAssumption DEF TypeOK, WorkerLabel, Exclusion, Phases, Go, Leave
<1>3. Phases'
  BY DEF TypeOK, WorkerLabel, MainLabel, Phases, Go, Leave
<1>4. AllWoken'
  BY DEF TypeOK, WorkerLabel, MainLabel, Exclusion, Phases, AllWoken, Go, Leave
<1>5. WorkConserving'
  <2>1. tasks' = <<>>
    BY DEF Exclusion, Leave
  <2> QED BY <2>1, EmptyQueue
<1>6. Accounted'
  BY DEF TypeOK, WorkerLabel, Accounted, Go, Leave
<1> QED BY <1>1, <1>2, <1>3, <1>4, <1>5, <1>6

LEMMA TakePool ==
  ASSUME PoolInv, NEW w \in Worker, Take(w)
  PROVE  PoolInv'
<1> USE DEF PoolInv
<1>1. TypeOK'
  <2>1. Head(tasks) \in Nat /\ Tail(tasks) \in Seq(Nat)
    BY DEF TypeOK, Take
  <2> QED BY <2>1, PoolAssumption DEF TypeOK, WorkerLabel, MainLabel, Go, Take
<1>2. Exclusion'
  BY PoolAssumption DEF TypeOK, WorkerLabel, Exclusion, Phases, Go, Take
<1>3. Phases'
  BY DEF TypeOK, WorkerLabel, MainLabel, Phases, Go, Take
<1>4. AllWoken'
  BY DEF TypeOK, WorkerLabel, MainLabel, Exclusion, Phases, AllWoken, Go, Take
<1>5. WorkConserving'
  <2>1. w \in Awake /\ Awake' = Awake \ {w}
    BY DEF TypeOK, WorkerLabel, Awake, Go, Take
  <2>2. Cardinality(Awake') = Cardinality(Awake) - 1
    BY <2>1, OneLessAwake
  <2>3. Waiting' = Waiting
    BY DEF TypeOK, WorkerLabel, Waiting, Go, Take
  <2>4. Pending' = Pending
    BY DEF Pending, Take
  <2>5. Len(tasks) \in Nat /\ Len(tasks') = Len(tasks) - 1
    BY DEF TypeOK, Take
  <2> QED BY <2>2, <2>3, <2>4, <2>5, AwakeFinite, PendingType DEF WorkConserving
<1>6. Accounted'
  <2>1. /\ tasks \in Seq(Nat) /\ tasks # <<>> /\ Head(tasks) = tasks[1]
        /\ Len(tasks) \in Nat \ {0} /\ Len(tasks') = Len(tasks) - 1
        /\ \A i \in 1..Len(tasks') : tasks'[i] = tasks[i + 1]
    BY DEF TypeOK, Take
  <2>2. task[w] = 0 /\ task' = [task EXCEPT ![w] = tasks[1]] /\ UNCHANGED <<finished, enqueued>>
    BY <2>1 DEF TypeOK, Accounted, Take
  <2>3. \A v \in Worker : IF worker'[v] = "run" THEN task'[v] \in 1..enqueued' ELSE task'[v] = 0
    BY <2>1, <2>2 DEF TypeOK, Accounted, Go, Take
  <2>4. \A i \in 1..Len(tasks') : tasks'[i] \in 1..enqueued'
    <3> SUFFICES ASSUME NEW i \in 1..Len(tasks') PROVE tasks'[i] \in 1..enqueued'
      OBVIOUS
    <3>1. i + 1 \in 1..Len(tasks)
      BY <2>1
    <3> QED BY <3>1, <2>1, <2>2 DEF Accounted
  <2>5. ASSUME NEW t \in 1..enqueued'
        PROVE  \/ t \in finished'
               \/ \E i \in 1..Len(tasks') : tasks'[i] = t
               \/ \E v \in Worker : task'[v] = t
    <3>1. CASE t \in finished
      BY <3>1, <2>2
    <3>2. CASE \E i \in 1..Len(tasks) : tasks[i] = t
      <4>1. PICK i \in 1..Len(tasks) : tasks[i] = t
        BY <3>2
      <4>2. CASE i = 1
        BY <4>1, <4>2, <2>2 DEF TypeOK
      <4>3. CASE i # 1
        <5>1. i - 1 \in 1..Len(tasks') /\ (i - 1) + 1 = i
          BY <2>1, <4>3
        <5> QED BY <5>1, <4>1, <2>1
      <4> QED BY <4>2, <4>3
    <3>3. CASE \E v \in Worker : task[v] = t
      <4>1. PICK v \in Worker : task[v] = t
        BY <3>3
      <4>2. t # 0
        BY <2>2
      <4> QED BY <4>1, <4>2, <2>2 DEF TypeOK
    <3> QED BY <3>1, <3>2, <3>3, <2>2 DEF Accounted
  <2> QED BY <2>2, <2>3, <2>4, <2>5 DEF Accounted
<1> QED BY <1>1, <1>2, <1>3, <1>4, <1>5, <1>6

LEMMA RunPool ==
  ASSUME PoolInv, NEW w \in Worker, Run(w)
  PROVE  PoolInv'
<1> USE DEF PoolInv
<1>1. TypeOK'
  <2>1. task[w] \in Nat \ {0}
    BY DEF TypeOK, Accounted, Run
  <2> QED BY <2>1, PoolAssumption DEF TypeOK, WorkerLabel, MainLabel, Go, Run
<1>2. Exclusion'
  BY PoolAssumption DEF TypeOK, WorkerLabel, Exclusion, Phases, Go, Run
<1>3. Phases'
  BY DEF TypeOK, WorkerLabel, MainLabel, Phases, Go, Run
<1>4. AllWoken'
  BY DEF TypeOK, WorkerLabel, MainLabel, Exclusion, Phases, AllWoken, Go, Run
<1>5. WorkConserving'
  <2>1. worker[w] \notin {"lock", "check"} /\ Awake' = Awake \cup {w}
    BY DEF TypeOK, WorkerLabel, Awake, Go, Run
  <2>2. Cardinality(Awake') = Cardinality(Awake) + 1
    BY <2>1, OneMoreAwake
  <2>3. Waiting' \subseteq Waiting
    BY DEF TypeOK, WorkerLabel, Waiting, Go, Run
  <2>4. Pending' = Pending /\ tasks' = tasks
    BY DEF Pending, Run
  <2>5. Len(tasks) \in Nat
    BY DEF TypeOK
  <2> QED BY <2>2, <2>3, <2>4, <2>5, AwakeFinite, PendingType DEF WorkConserving
<1>6. Accounted'
  BY DEF TypeOK, WorkerLabel, Accounted, Go, Run
<1> QED BY <1>1, <1>2, <1>3, <1>4, <1>5, <1>6

LEMMA EnqueuePool ==
  ASSUME PoolInv, Enqueue
  PROVE  PoolInv'
<1> USE DEF PoolInv
<1>1. TypeOK'
  BY PoolAssumption DEF TypeOK, WorkerLabel, MainLabel, Go, Enqueue
<1>2. Exclusion'
  BY PoolAssumption DEF TypeOK, WorkerLabel, Exclusion, Phases, Go, Enqueue
<1>3. Phases'
  BY DEF TypeOK, WorkerLabel, MainLabel, Phases, Go, Enqueue
<1>4. AllWoken'
  BY DEF TypeOK, WorkerLabel, MainLabel, Exclusion, Phases, AllWoken, Go, Enqueue
<1>5. WorkConserving'
  <2>1. Awake' = Awake /\ Waiting' = Waiting
    BY DEF Awake, Waiting, Enqueue
  <2>2. Pending = 0 /\ Pending' = 1
    BY DEF Pending, Enqueue
  <2>3. Len(tasks) \in Nat /\ Len(tasks') = Len(tasks) + 1
    BY DEF TypeOK, Enqueue
  <2> QED BY <2>1, <2>2, <2>3, AwakeFinite DEF WorkConserving
<1>6. Accounted'
  <2>1. /\ Len(tasks) \in Nat /\ Len(tasks') = Len(tasks) + 1
        /\ \A i \in 1..Len(tasks) : tasks'[i] = tasks[i]
        /\ tasks'[Len(tasks) + 1] = enqueued + 1
    BY DEF TypeOK, Enqueue
  <2>2. enqueued \in Nat /\ enqueued' = enqueued + 1 /\ UNCHANGED <<worker, task, finished>>
    BY DEF TypeOK, Enqueue
  <2>3. \A v \in Worker : IF worker'[v] = "run" THEN task'[v] \in 1..enqueued' ELSE task'[v] = 0
    BY <2>2 DEF Accounted
  <2>4. \A i \in 1..Len(tasks') : tasks'[i] \in 1..enqueued'
    <3> SUFFICES ASSUME NEW i \in 1..Len(tasks') PROVE tasks'[i] \in 1..enqueued'
      OBVIOUS
    <3>1. i \in 1..Len(tasks) \/ i = Len(tasks) + 1
      BY <2>1
    <3> QED BY <3>1, <2>1, <2>2 DEF Accounted
  <2>5. ASSUME NEW t \in 1..enqueued'
        PROVE  \/ t \in finished'
               \/ \E i \in 1..Len(tasks') : tasks'[i] = t
               \/ \E v \in Worker : task'[v] = t
    <3>1. CASE t = enqueued + 1
      <4>1. Len(tasks) + 1 \in 1..Len(tasks')
        BY <2>1
      <4> QED BY <3>1, <4>1, <2>1
    <3>2. CASE t \in 1..enqueued
      <4>1. 1..Len(tasks) \subseteq 1..Len(tasks')
        BY <2>1
      <4> QED BY <3>2, <4>1, <2>1, <2>2 DEF Accounted
    <3> QED BY <3>1, <3>2, <2>2
  <2>6. finished' \subseteq 1..enqueued'
    BY <2>2 DEF Accounted
  <2> QED BY <2>3, <2>4, <2>5, <2>6 DEF Accounted
<1> QED BY <1>1, <1>2, <1>3, <1>4, <1>5, <1>6

LEMMA NotifyOnePool ==
  ASSUME PoolInv, NotifyOne
  PROVE  PoolInv'
<1> USE DEF PoolInv
<1>1. TypeOK'
  BY PoolAssumption DEF TypeOK, WorkerLabel, MainLabel, Waiting, Go, NotifyOne
<1>2. Exclusion'
  BY PoolAssumption DEF TypeOK, WorkerLabel, Exclusion, Phases, Waiting, Go, NotifyOne
<1>3. Phases'
  BY DEF TypeOK, WorkerLabel, MainLabel, Phases, Waiting, Go, NotifyOne
<1>4. AllWoken'
  BY DEF TypeOK, WorkerLabel, MainLabel, Exclusion, Phases, AllWoken, Waiting, Go, NotifyOne
<1>5. WorkConserving'
  <2>1. CASE Waiting = {} /\ UNCHANGED worker
    BY <2>1 DEF Waiting, WorkConserving
  <2>2. ASSUME NEW w \in Waiting, Go(w, "lock") PROVE WorkConserving'
    <3>1. w \in Worker /\ worker[w] \notin {"lock", "check"} /\ Awake' = Awake \cup {w}
      BY <2>2 DEF TypeOK, WorkerLabel, Awake, Waiting, Go
    <3>2. Cardinality(Awake') = Cardinality(Awake) + 1
      BY <3>1, OneMoreAwake
    <3>3. Waiting # {} /\ Pending = 1 /\ Pending' = 0 /\ tasks' = tasks
      BY DEF Pending, NotifyOne
    <3>4. Len(tasks) \in Nat
      BY DEF TypeOK
    <3> QED BY <3>2, <3>3, <3>4, AwakeFinite DEF WorkConserving
  <2> QED BY <2>1, <2>2 DEF NotifyOne
<1>6. Accounted'
  BY DEF TypeOK, WorkerLabel, Accounted, Waiting, Go, NotifyOne
<1> QED BY <1>1, <1>2, <1>3, <1>4, <1>5, <1>6

LEMMA SetStopPool ==
  ASSUME PoolInv, SetStop
  PROVE  PoolInv'
<1> USE DEF PoolInv
<1>1. TypeOK'
  BY PoolAssumption DEF TypeOK, WorkerLabel, MainLabel, Go, SetStop
<1>2. Exclusion'
  BY PoolAssumption DEF TypeOK, WorkerLabel, Exclusion, Phases, Go, SetStop
<1>3. Phases'
  BY DEF TypeOK, WorkerLabel, MainLabel, Phases, Go, SetStop
<1>4. AllWoken'
  BY DEF TypeOK, WorkerLabel, MainLabel, Exclusion, Phases, AllWoken, Go, SetStop
<1>5. WorkConserving'
  <2>1. Awake' = Awake /\ Waiting' = Waiting
    BY DEF TypeOK, WorkerLabel, Awake, Waiting, Go, SetStop
  <2>2. Pending' = Pending /\ tasks' = tasks
    BY DEF Pending, SetStop
  <2> QED BY <2>1, <2>2 DEF WorkConserving
<1>6. Accounted'
  BY DEF TypeOK, WorkerLabel, Accounted, Go, SetStop
<1> QED BY <1>1, <1>2, <1>3, <1>4, <1>5, <1>6

LEMMA NotifyAllPool ==
  ASSUME PoolInv, NotifyAll
  PROVE  PoolInv'
<1> USE DEF PoolInv
<1>1. TypeOK'
  BY PoolAssumption DEF TypeOK, WorkerLabel, MainLabel, Waiting, Go, NotifyAll
<1>2. Exclusion'
  BY PoolAssumption DEF TypeOK, WorkerLabel, Exclusion, Phases, Waiting, Go, NotifyAll
<1>3. Phases'
  BY DEF TypeOK, WorkerLabel, MainLabel, Phases, Waiting, Go, NotifyAll
<1>4. AllWoken'
  BY DEF TypeOK, WorkerLabel, MainLabel, Exclusion, Phases, AllWoken, Waiting, Go, NotifyAll
<1>5. WorkConserving'
  <2>1. Waiting' = {}
    BY DEF Waiting, NotifyAll
  <2> QED BY <2>1 DEF WorkConserving
<1>6. Accounted'
  BY DEF TypeOK, WorkerLabel, Accounted, Waiting, Go, NotifyAll
<1> QED BY <1>1, <1>2, <1>3, <1>4, <1>5, <1>6

LEMMA JoinPool ==
  ASSUME PoolInv, Join
  PROVE  PoolInv'
<1> USE DEF PoolInv
<1>1. TypeOK'
  BY PoolAssumption DEF TypeOK, WorkerLabel, MainLabel, Go, Join
<1>2. Exclusion'
  BY PoolAssumption DEF TypeOK, WorkerLabel, Exclusion, Phases, Go, Join
<1>3. Phases'
  BY DEF TypeOK, WorkerLabel, MainLabel, Phases, Go, Join
<1>4. AllWoken'
  BY DEF TypeOK, WorkerLabel, MainLabel, Exclusion, Phases, AllWoken, Go, Join
<1>5. WorkConserving'
  <2>1. Awake' = Awake /\ Waiting' = Waiting
    BY DEF TypeOK, WorkerLabel, Awake, Waiting, Go, Join
  <2>2. Pending' = Pending /\ tasks' = tasks
    BY DEF Pending, Join
  <2> QED BY <2>1, <2>2 DEF WorkConserving
<1>6. Accounted'
  BY DEF TypeOK, WorkerLabel, Accounted, Go, Join
<1> QED BY <1>1, <1>2, <1>3, <1>4, <1>5, <1>6

LEMMA NextPool == PoolInv /\ [Next]_vars => PoolInv'
<1> SUFFICES ASSUME PoolInv, [Next]_vars PROVE PoolInv'
  OBVIOUS
<1>1. ASSUME NEW w \in Worker, WorkerStep(w) PROVE PoolInv'
  BY <1>1, LockPool, BlockPool, WaitPool, LeavePool, TakePool, RunPool DEF WorkerStep
<1>2. ASSUME NEW w \in Worker, SpuriousWake(w) PROVE PoolInv'
  BY <1>2, SpuriousWakePool
<1>3. CASE Owner
  BY <1>3, EnqueuePool, NotifyOnePool, SetStopPool, NotifyAllPool, JoinPool
  DEF Owner, Destroy
<1>4. CASE UNCHANGED vars
  BY <1>4 DEF vars, PoolInv, TypeOK, Exclusion, Phases, AllWoken, WorkConserving, Accounted,
    Awake, Waiting, Pending
<1> QED BY <1>1, <1>2, <1>3, <1>4 DEF Next, Terminated

----------------------------------------------------------------------------
(* The inductive invariant of the pool. *)
THEOREM PoolInvariance == Spec => []PoolInv
<1>1. Init => PoolInv
  BY InitPool
<1>2. PoolInv /\ [Next]_vars => PoolInv'
  BY NextPool
<1> QED BY <1>1, <1>2, PTL DEF Spec

(* For every number of workers, tasks and spurious wakeups: while a worker sleeps, no
   queued task lacks a worker on its way or a notification about to be sent. *)
THEOREM NoLostWakeup == Spec => []WorkConserving
<1>1. PoolInv => WorkConserving
  BY DEF PoolInv
<1> QED BY <1>1, PoolInvariance, PTL

(* When the destructor waits in join, nobody sleeps on the condition variable. *)
THEOREM NobodyLeftAsleep == Spec => []AllWoken
<1>1. PoolInv => AllWoken
  BY DEF PoolInv
<1> QED BY <1>1, PoolInvariance, PTL

(* The destructor returns only when every task ever enqueued has run. *)
THEOREM DrainedAtJoin == Spec => []Drained
<1>1. PoolInv => Drained
  <2> SUFFICES ASSUME PoolInv, main = "joined" PROVE finished = 1..enqueued
    BY DEF Drained
  <2>1. tasks = <<>> /\ \A w \in Worker : task[w] = 0
    BY PoolAssumption DEF PoolInv, Phases, Accounted
  <2>2. 1..Len(tasks) = {}
    BY <2>1
  <2>3. \A t \in 1..enqueued : t \in finished
    <3> SUFFICES ASSUME NEW t \in 1..enqueued, t \notin finished PROVE FALSE
      OBVIOUS
    <3>1. t # 0
      OBVIOUS
    <3> QED BY <2>1, <2>2, <3>1 DEF PoolInv, Accounted
  <2>4. finished \subseteq 1..enqueued
    BY DEF PoolInv, Accounted
  <2> QED BY <2>3, <2>4
<1> QED BY <1>1, PoolInvariance, PTL

(* The types of the variables, with what PoolInvariance knows. *)
THEOREM PoolTypes == Spec => []TypeOK
<1>1. PoolInv => TypeOK
  BY DEF PoolInv
<1> QED BY <1>1, PoolInvariance, PTL

----------------------------------------------------------------------------
(* The queue holds the last tasks enqueued, in order; what was taken from it came before
   them, and belongs to one worker or is finished. *)
InOrder ==
  /\ Len(tasks) <= enqueued
  /\ \A i \in 1..Len(tasks) : tasks[i] = enqueued - Len(tasks) + i
  /\ \A w \in Worker : task[w] <= enqueued - Len(tasks) /\ task[w] \notin finished
  /\ \A t \in finished : t <= enqueued - Len(tasks)
  /\ \A v, w \in Worker : v # w /\ task[v] # 0 => task[v] # task[w]

LEMMA TakeInOrder ==
  ASSUME PoolInv, InOrder, NEW w \in Worker, Take(w)
  PROVE  InOrder'
<1>1. /\ tasks \in Seq(Nat) /\ tasks # <<>> /\ tasks' = Tail(tasks)
      /\ task \in [Worker -> Nat] /\ task' = [task EXCEPT ![w] = Head(tasks)]
      /\ enqueued \in Nat /\ enqueued' = enqueued /\ finished' = finished
      /\ finished \subseteq Nat \ {0}
  BY DEF Take, PoolInv, TypeOK
<1>2. /\ Len(tasks) \in Nat \ {0} /\ Len(tasks') = Len(tasks) - 1
      /\ \A i \in 1..Len(tasks') : tasks'[i] = tasks[i + 1]
      /\ Head(tasks) = tasks[1]
  BY <1>1
<1>3. task'[w] = enqueued' - Len(tasks')
  BY <1>1, <1>2 DEF InOrder
<1>4. \A i \in 1..Len(tasks') : tasks'[i] = enqueued' - Len(tasks') + i
  <2> SUFFICES ASSUME NEW i \in 1..Len(tasks') PROVE tasks'[i] = enqueued' - Len(tasks') + i
    OBVIOUS
  <2>1. i + 1 \in 1..Len(tasks)
    BY <1>2
  <2>2. tasks[i + 1] = enqueued - Len(tasks) + (i + 1)
    BY <2>1 DEF InOrder
  <2> QED BY <1>1, <1>2, <2>2
<1>5. \A t \in finished : t < enqueued' - Len(tasks')
  BY <1>1, <1>2 DEF InOrder
<1>6. \A v \in Worker : v # w => task'[v] = task[v] /\ task[v] < enqueued' - Len(tasks')
  BY <1>1, <1>2 DEF InOrder
<1>7. \A v \in Worker : task'[v] <= enqueued' - Len(tasks') /\ task'[v] \notin finished'
  <2> SUFFICES ASSUME NEW v \in Worker
               PROVE  task'[v] <= enqueued' - Len(tasks') /\ task'[v] \notin finished'
    OBVIOUS
  <2>1. CASE v = w
    BY <1>1, <1>2, <1>3, <1>5, <2>1
  <2>2. CASE v # w
    BY <1>1, <1>2, <1>6, <2>2 DEF InOrder
  <2> QED BY <2>1, <2>2
<1>8. \A u, v \in Worker : u # v /\ task'[u] # 0 => task'[u] # task'[v]
  <2> SUFFICES ASSUME NEW u \in Worker, NEW v \in Worker, u # v, task'[u] # 0
               PROVE  task'[u] # task'[v]
    OBVIOUS
  <2>1. CASE u = w
    BY <1>1, <1>2, <1>3, <1>6, <2>1
  <2>2. CASE v = w
    BY <1>1, <1>2, <1>3, <1>6, <2>2
  <2>3. CASE u # w /\ v # w
    BY <1>6, <2>3 DEF InOrder
  <2> QED BY <2>1, <2>2, <2>3
<1>9. Len(tasks') <= enqueued'
  BY <1>1, <1>2 DEF InOrder
<1>10. \A t \in finished' : t <= enqueued' - Len(tasks')
  BY <1>1, <1>2, <1>5
<1> QED BY <1>4, <1>7, <1>8, <1>9, <1>10 DEF InOrder

LEMMA RunInOrder ==
  ASSUME PoolInv, InOrder, NEW w \in Worker, Run(w)
  PROVE  InOrder'
<1>1. /\ task \in [Worker -> Nat] /\ task' = [task EXCEPT ![w] = 0]
      /\ tasks' = tasks /\ enqueued' = enqueued /\ finished' = finished \cup {task[w]}
      /\ finished \subseteq Nat \ {0} /\ task[w] # 0
      /\ enqueued \in Nat /\ Len(tasks) \in Nat
  BY DEF Run, PoolInv, TypeOK, Accounted
<1>2. \A v \in Worker : v # w => task'[v] = task[v] /\ task[v] \notin finished'
  BY <1>1 DEF InOrder
<1>3. task'[w] = 0 /\ 0 \notin finished'
  BY <1>1
<1>4. \A v \in Worker : task'[v] <= enqueued' - Len(tasks') /\ task'[v] \notin finished'
  BY <1>1, <1>2, <1>3 DEF InOrder
<1>5. \A u, v \in Worker : u # v /\ task'[u] # 0 => task'[u] # task'[v]
  <2> SUFFICES ASSUME NEW u \in Worker, NEW v \in Worker, u # v, task'[u] # 0
               PROVE  task'[u] # task'[v]
    OBVIOUS
  <2>1. u # w
    BY <1>3
  <2>2. CASE v = w
    BY <1>3, <2>2
  <2>3. CASE v # w
    BY <1>2, <2>1, <2>3 DEF InOrder
  <2> QED BY <2>2, <2>3
<1>6. \A t \in finished' : t <= enqueued' - Len(tasks')
  BY <1>1 DEF InOrder
<1>7. Len(tasks') <= enqueued' /\ \A i \in 1..Len(tasks') : tasks'[i] = enqueued' - Len(tasks') + i
  BY <1>1 DEF InOrder
<1> QED BY <1>4, <1>5, <1>6, <1>7 DEF InOrder

LEMMA EnqueueInOrder ==
  ASSUME PoolInv, InOrder, Enqueue
  PROVE  InOrder'
<1>1. /\ tasks \in Seq(Nat) /\ tasks' = Append(tasks, enqueued + 1)
      /\ enqueued \in Nat /\ enqueued' = enqueued + 1
      /\ task' = task /\ finished' = finished
  BY DEF Enqueue, PoolInv, TypeOK
<1>2. /\ Len(tasks) \in Nat /\ Len(tasks') = Len(tasks) + 1
      /\ \A i \in 1..Len(tasks) : tasks'[i] = tasks[i]
      /\ tasks'[Len(tasks) + 1] = enqueued + 1
  BY <1>1
<1>3. enqueued' - Len(tasks') = enqueued - Len(tasks)
  BY <1>1, <1>2
<1>4. \A i \in 1..Len(tasks') : tasks'[i] = enqueued' - Len(tasks') + i
  <2> SUFFICES ASSUME NEW i \in 1..Len(tasks') PROVE tasks'[i] = enqueued - Len(tasks) + i
    BY <1>3
  <2>1. CASE i = Len(tasks) + 1
    BY <1>1, <1>2, <2>1
  <2>2. CASE i \in 1..Len(tasks)
    BY <1>2, <2>2 DEF InOrder
  <2> QED BY <1>2, <2>1, <2>2
<1>5. Len(tasks') <= enqueued'
  BY <1>1, <1>2 DEF InOrder
<1> QED BY <1>1, <1>3, <1>4, <1>5 DEF InOrder

LEMMA OrderPreserved == PoolInv /\ InOrder /\ [Next]_vars => InOrder'
<1> SUFFICES ASSUME PoolInv, InOrder, [Next]_vars PROVE InOrder'
  OBVIOUS
<1> DEFINE Still == UNCHANGED <<tasks, task, enqueued, finished>>
<1>1. Still => InOrder'
  BY DEF InOrder
<1>2. ASSUME NEW w \in Worker, WorkerStep(w) PROVE InOrder'
  BY <1>1, <1>2, TakeInOrder, RunInOrder DEF WorkerStep, Lock, Block, Wait, Leave
<1>3. ASSUME NEW w \in Worker, SpuriousWake(w) PROVE InOrder'
  BY <1>1, <1>3 DEF SpuriousWake
<1>4. CASE Owner
  BY <1>1, <1>4, EnqueueInOrder DEF Owner, Destroy, NotifyOne, SetStop, NotifyAll, Join
<1>5. CASE UNCHANGED vars
  BY <1>1, <1>5 DEF vars
<1> QED BY <1>2, <1>3, <1>4, <1>5 DEF Next, Terminated

----------------------------------------------------------------------------
LEMMA TakeStarts ==
  ASSUME PoolInv, InOrder, NEW w \in Worker, Take(w)
  PROVE  Abstract!Start(w)
<1>1. task[w] = 0
  BY DEF Take, PoolInv, Accounted
<1> QED BY <1>1 DEF Take, Abstract!Start

LEMMA RunFinishes ==
  ASSUME PoolInv, InOrder, NEW w \in Worker, Run(w)
  PROVE  Abstract!Finish(w)
<1>1. task[w] \in 1..enqueued /\ enqueued \in Nat
  BY DEF Run, PoolInv, TypeOK, Accounted
<1>2. task[w] # 0
  BY <1>1
<1> QED BY <1>2 DEF Run, InOrder, Abstract!Finish, Abstract!Busy

LEMMA EnqueueSubmits ==
  ASSUME PoolInv, InOrder, Enqueue
  PROVE  Abstract!Submit(enqueued + 1) /\ enqueued + 1 \in 1..MaxTasks
<1>1. enqueued \in Nat /\ enqueued < MaxTasks /\ MaxTasks \in Nat /\ tasks \in Seq(Nat)
  BY PoolAssumption DEF Enqueue, PoolInv, TypeOK
<1>2. enqueued + 1 \notin finished
  BY <1>1 DEF PoolInv, Accounted
<1>3. \A i \in 1..Len(tasks) : tasks[i] # enqueued + 1
  BY <1>1 DEF PoolInv, Accounted
<1>4. \A w \in Worker : task[w] # enqueued + 1
  <2> SUFFICES ASSUME NEW w \in Worker, task[w] = enqueued + 1 PROVE FALSE
    OBVIOUS
  <2>1. task[w] \in Nat /\ task[w] <= enqueued - Len(tasks) /\ Len(tasks) \in Nat
    BY <1>1 DEF InOrder, PoolInv, TypeOK
  <2> QED BY <1>1, <2>1
<1>5. ~stop /\ main' # "joined" /\ main # "joined"
  BY DEF Enqueue, PoolInv, Phases
<1> QED BY <1>1, <1>2, <1>3, <1>4, <1>5 DEF Enqueue, Abstract!Submit, Abstract!Queued

LEMMA JoinIsGone ==
  ASSUME PoolInv, InOrder, Join
  PROVE  Abstract!Gone
<1>1. /\ main = "join" /\ main' = "joined" /\ \A w \in Worker : worker[w] = "exited"
      /\ UNCHANGED <<tasks, task, finished, stop>>
  BY DEF Join
<1>2. tasks = <<>> /\ stop
  BY <1>1, PoolAssumption DEF PoolInv, Phases
<1>3. \A w \in Worker : task[w] = 0
  BY <1>1 DEF PoolInv, Accounted
<1> QED BY <1>1, <1>2, <1>3 DEF Abstract!Gone, Abstract!Busy

LEMMA PoolSimulated == PoolInv /\ InOrder /\ [Next]_vars => [Abstract!Next]_Abstract!vars
<1> SUFFICES ASSUME PoolInv, InOrder, [Next]_vars PROVE [Abstract!Next]_Abstract!vars
  OBVIOUS
<1>1. ASSUME NEW w \in Worker, WorkerStep(w) PROVE [Abstract!Next]_Abstract!vars
  <2>1. CASE Take(w)
    BY <2>1, TakeStarts DEF Abstract!Next
  <2>2. CASE Run(w)
    BY <2>2, RunFinishes DEF Abstract!Next
  <2>3. CASE Lock(w) \/ Block(w) \/ Wait(w) \/ Leave(w)
    BY <2>3 DEF Lock, Block, Wait, Leave, Abstract!vars
  <2> QED BY <1>1, <2>1, <2>2, <2>3 DEF WorkerStep
<1>2. ASSUME NEW w \in Worker, SpuriousWake(w) PROVE [Abstract!Next]_Abstract!vars
  BY <1>2 DEF SpuriousWake, Abstract!vars
<1>3. CASE Owner
  <2>1. CASE Enqueue
    BY <2>1, EnqueueSubmits DEF Abstract!Next
  <2>2. CASE NotifyOne \/ NotifyAll
    BY <2>2 DEF NotifyOne, NotifyAll, Abstract!vars
  <2>3. CASE SetStop
    <3>1. ~stop /\ (main = "joined") = FALSE /\ (main' = "joined") = FALSE
      BY <2>3 DEF SetStop, PoolInv, Phases
    <3>2. Abstract!Close
      BY <2>3, <3>1 DEF SetStop, Abstract!Close
    <3> QED BY <3>2 DEF Abstract!Next
  <2>4. CASE Join
    BY <2>4, JoinIsGone DEF Abstract!Next
  <2> QED BY <1>3, <2>1, <2>2, <2>3, <2>4 DEF Owner, Destroy
<1>4. CASE UNCHANGED vars
  BY <1>4 DEF vars, Abstract!vars
<1> QED BY <1>1, <1>2, <1>3, <1>4 DEF Next, Terminated

(* For any number of workers and tasks, in any interleaving: the pool implements TaskPool.
   Tasks start in the order of their enqueue, each runs once, on one worker, and the
   destructor returns when all of them have run. *)
THEOREM PoolImplementsTaskPool == Spec => ImplementsTaskPool
<1>1. Init => InOrder
  <2>1. Init => tasks = <<>> /\ enqueued = 0 /\ finished = {} /\ \A w \in Worker : task[w] = 0
    BY DEF Init
  <2>2. Len(<<>>) = 0
    OBVIOUS
  <2> QED BY <2>1, <2>2 DEF InOrder
<1>2. Init => Abstract!Init
  BY DEF Init, Abstract!Init
<1> QED BY <1>1, <1>2, PoolInvariance, OrderPreserved, PoolSimulated, PTL
     DEF Spec, ImplementsTaskPool, Abstract!Spec
=============================================================================
