------------------------------ MODULE TaskPool ------------------------------
(***************************************************************************)
(* What a pool of threads promises its owner: tasks are started in the     *)
(* order they were submitted, each once, at most one per thread at a time; *)
(* a pool that is destroyed first runs everything submitted before.        *)
(***************************************************************************)
EXTENDS Naturals, Sequences

CONSTANTS
  Worker,   \* the threads
  Task,     \* what can be submitted
  Nothing   \* what a thread without a task runs

VARIABLES
  queue,    \* submitted and not started
  running,  \* running[w]: the task of thread w
  ended,    \* the tasks that have run
  closed,   \* the destructor has started
  gone      \* the destructor has returned

vars == <<queue, running, ended, closed, gone>>

Queued == {queue[i] : i \in 1..Len(queue)}
Busy   == {w \in Worker : running[w] # Nothing}

Init ==
  /\ queue = <<>>
  /\ running = [w \in Worker |-> Nothing]
  /\ ended = {}
  /\ closed = FALSE
  /\ gone = FALSE

Submit(t) ==
  /\ ~closed
  /\ t \notin ended \cup Queued
  /\ \A w \in Worker : running[w] # t
  /\ queue' = Append(queue, t)
  /\ UNCHANGED <<running, ended, closed, gone>>

Start(w) ==
  /\ running[w] = Nothing
  /\ queue # <<>>
  /\ running' = [running EXCEPT ![w] = Head(queue)]
  /\ queue' = Tail(queue)
  /\ UNCHANGED <<ended, closed, gone>>

Finish(w) ==
  /\ w \in Busy
  /\ running[w] \notin ended
  /\ ended' = ended \cup {running[w]}
  /\ running' = [running EXCEPT ![w] = Nothing]
  /\ UNCHANGED <<queue, closed, gone>>

Close ==
  /\ ~closed
  /\ closed' = TRUE
  /\ UNCHANGED <<queue, running, ended, gone>>

Gone ==
  /\ closed /\ ~gone
  /\ queue = <<>> /\ Busy = {}
  /\ gone' = TRUE
  /\ UNCHANGED <<queue, running, ended, closed>>

Next ==
  \/ \E t \in Task : Submit(t)
  \/ \E w \in Worker : Start(w) \/ Finish(w)
  \/ Close
  \/ Gone

Spec == Init /\ [][Next]_vars
=============================================================================
