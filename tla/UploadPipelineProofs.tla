------------------------ MODULE UploadPipelineProofs ------------------------
(***************************************************************************)
(* Proofs about UploadPipeline, for any folder, any number of threads and  *)
(* any failures.                                                           *)
(***************************************************************************)
EXTENDS UploadPipeline, FiniteSetTheorems, SequenceTheorems, TLAPS

----------------------------------------------------------------------------
(* The inductive invariant *)

Elements(s) == {s[i] : i \in 1..Len(s)}
Running     == {running[w] : w \in Worker} \ {Nothing}

(* The files whose upload has been submitted; those counted in total_uploads; those
   counted in finished_uploads *)
Handed   == Elements(queue) \cup Running \cup ended
Counted  == Handed \cup ({current} \ {Nothing})
Finished == (ended \ failed) \cup {running[w] : w \in {v \in Worker : task[v] \in {"report", "remove"}}}

(* A file is in one place: once in the queue, with one thread, or ended *)
PoolInv ==
  /\ \A i, j \in 1..Len(queue) : queue[i] = queue[j] => i = j
  /\ Elements(queue) \cap Running = {} /\ Elements(queue) \cap ended = {}
  /\ \A v, w \in Worker : running[v] = running[w] => running[v] = Nothing \/ v = w
  /\ Running \cap ended = {}
  /\ gone => queue = <<>> /\ Running = {}

TaskInv ==
  /\ \A w \in Worker : task[w] = "none" <=> running[w] = Nothing
  /\ \A w \in Worker : task[w] \in {"count", "report", "remove"} => running[w] \in uploaded
  /\ failed \subseteq ended /\ ended \ failed \subseteq uploaded

(* Where the main thread is, and what is left of the engine there *)
MainInv ==
  /\ current \notin Handed
  /\ main \in {"walk", "wait", "commit"} => current = Nothing
  /\ main \in {"encrypt", "enqueue"} => current \in File
  /\ closed <=> main \in {"join", "store", "exited"}
  /\ gone <=> main \in {"store", "exited"}
  /\ members = CASE main = "exited" -> "none"
                 [] main \in {"pool", "join", "store"} -> "store"
                 [] OTHER -> "all"
  /\ main \in {"walk", "encrypt", "enqueue", "wait", "commit"} => ~head /\ result = "none"
  /\ result = "ok" => head

TempInv ==
  temporary = failed \cup Elements(queue) \cup Running
              \cup IF main = "enqueue" THEN {current} ELSE {}

(* Every number drawn from finished_uploads is being reported or has been *)
CountInv ==
  /\ total_uploads = Cardinality(Counted)
  /\ finished_uploads = Cardinality(Finished)
  /\ \A w \in Worker : done[w] <= finished_uploads
  /\ lines \subseteq {l \in Nat \X Nat : l[1] <= l[2] /\ l[2] <= Cardinality(File)}
  /\ \A k \in 1..finished_uploads :
       \/ \E w \in Worker : task[w] = "report" /\ done[w] = k
       \/ \E t \in Nat : k <= t /\ <<k, t>> \in lines

(* store_tree: what the calls on the stack and the trees stored have kept so far *)
Visited(d) == trees[d] # Nothing \/ \E i \in 1..Len(stack) : stack[i].dir = d
KeptBy(s)    == UNION {s[i].kept : i \in 1..Len(s)}
KeptIn(t)    == UNION {t[d] : d \in {e \in Dir : t[e] # Nothing}}
Kept         == KeptBy(stack) \cup KeptIn(trees)

WalkInv ==
  command = "lock" =>
    /\ \A i \in 1..Len(stack) :
         /\ trees[stack[i].dir] = Nothing
         /\ stack[i].kept \subseteq In(stack[i].dir)
         /\ stack[i].left = In(stack[i].dir) \ stack[i].kept
    /\ \A i, j \in 1..Len(stack) : stack[i].dir = stack[j].dir => i = j
    /\ \A d \in Dir : trees[d] # Nothing => trees[d] = In(d)
    /\ \A d \in Dir : Visited(d) <=> d = Root \/ d \in Kept
    /\ Kept \cap File = Handed

(* How far init has come with the folder *)
LockInv ==
  command = "lock" =>
    /\ main = "walk" => stack # <<>>
    /\ main \in {"encrypt", "enqueue"} => stack # <<>> /\ current \in Top.left
    /\ main \in {"walk", "encrypt", "enqueue", "wait"} =>
         Handed \subseteq Elements(futures) \cup (ended \ failed)
    /\ main = "wait" => stack = <<>>
    /\ main = "commit" \/ head => /\ File = ended \ failed
                                  /\ \A d \in Dir : trees[d] = In(d)

AddInv ==
  command = "add" =>
    /\ main # "wait"
    /\ main \in {"walk", "encrypt", "enqueue"} => Handed = {} /\ Len(stack) = 1 /\ Top.left = {Added}

(* What has been used after its end *)
UseInv ==
  /\ "store" \notin touched
  /\ members = "all" => touched = {}
  /\ command = "lock" /\ head => touched = {}

Frame == [dir : Dir, left : SUBSET (File \cup Dir), kept : SUBSET (File \cup Dir)]

IInv ==
  /\ TypeOK /\ stack \in Seq(Frame)
  /\ PoolInv /\ TaskInv /\ MainInv /\ TempInv /\ CountInv
  /\ WalkInv /\ LockInv /\ AddInv /\ UseInv

----------------------------------------------------------------------------
(* Sequences *)

LEMMA AppendElements ==
  ASSUME NEW S, NEW s \in Seq(S), NEW e \in S
  PROVE  /\ Append(s, e) \in Seq(S)
         /\ Len(Append(s, e)) = Len(s) + 1 /\ Append(s, e)[Len(s) + 1] = e
         /\ \A i \in 1..Len(s) : Append(s, e)[i] = s[i]
         /\ \A i \in 1..Len(Append(s, e)) : i \in 1..Len(s) \/ i = Len(s) + 1
         /\ Elements(Append(s, e)) = Elements(s) \cup {e}
<1>1. /\ Append(s, e) \in Seq(S) /\ Len(s) \in Nat
      /\ Len(Append(s, e)) = Len(s) + 1 /\ Append(s, e)[Len(s) + 1] = e
      /\ \A i \in 1..Len(s) : Append(s, e)[i] = s[i]
  OBVIOUS
<1>2. \A i \in 1..Len(Append(s, e)) : i \in 1..Len(s) \/ i = Len(s) + 1
  BY <1>1
<1>3. Elements(Append(s, e)) \subseteq Elements(s) \cup {e}
  BY <1>1, <1>2 DEF Elements
<1>4. ASSUME NEW i \in 1..Len(s) PROVE s[i] \in Elements(Append(s, e))
  <2>1. i \in 1..Len(Append(s, e)) /\ s[i] = Append(s, e)[i]
    BY <1>1
  <2> QED
    BY <2>1 DEF Elements
<1>5. e \in Elements(Append(s, e))
  <2>1. Len(s) + 1 \in 1..Len(Append(s, e))
    BY <1>1
  <2> QED
    BY <1>1, <2>1 DEF Elements
<1>6. Elements(s) \cup {e} \subseteq Elements(Append(s, e))
  BY <1>4, <1>5 DEF Elements
<1> QED
  BY <1>1, <1>2, <1>3, <1>6

LEMMA TailElements ==
  ASSUME NEW S, NEW s \in Seq(S), s # <<>>
  PROVE  /\ Head(s) \in S /\ Tail(s) \in Seq(S) /\ Head(s) = s[1]
         /\ Len(s) \in Nat \ {0} /\ Len(Tail(s)) = Len(s) - 1
         /\ \A i \in 1..Len(Tail(s)) : i + 1 \in 1..Len(s) /\ Tail(s)[i] = s[i + 1]
         /\ Elements(s) = {Head(s)} \cup Elements(Tail(s))
<1>1. /\ Head(s) \in S /\ Tail(s) \in Seq(S) /\ Head(s) = s[1]
      /\ Len(s) \in Nat \ {0} /\ Len(Tail(s)) = Len(s) - 1
      /\ \A i \in 1..Len(Tail(s)) : i + 1 \in 1..Len(s) /\ Tail(s)[i] = s[i + 1]
  OBVIOUS
<1>2. {Head(s)} \cup Elements(Tail(s)) \subseteq Elements(s)
  BY <1>1 DEF Elements
<1>3. ASSUME NEW i \in 1..Len(s) PROVE s[i] \in {Head(s)} \cup Elements(Tail(s))
  <2>1. CASE i = 1
    BY <1>1, <2>1
  <2>2. CASE i # 1
    <3>1. i - 1 \in 1..Len(Tail(s)) /\ Tail(s)[i - 1] = s[i]
      BY <1>1, <2>2
    <3> QED
      BY <3>1 DEF Elements
  <2> QED
    BY <2>1, <2>2
<1> QED
  BY <1>1, <1>2, <1>3 DEF Elements

LEMMA NoElements == Elements(<<>>) = {}
  BY DEF Elements

----------------------------------------------------------------------------
(* The pool *)

LEMMA SubmitStep ==
  ASSUME TypeOK, PoolInv, NEW f \in File, Pool!Submit(f), ~gone
  PROVE  /\ PoolInv'
         /\ Elements(queue)' = Elements(queue) \cup {f} /\ queue' \in Seq(File)
         /\ f \notin Handed /\ Handed' = Handed \cup {f}
         /\ UNCHANGED <<running, ended, closed, gone>>
<1>1. /\ queue' = Append(queue, f) /\ UNCHANGED <<running, ended, closed, gone>>
      /\ f \notin ended /\ \A i \in 1..Len(queue) : queue[i] # f
      /\ \A w \in Worker : running[w] # f
  BY DEF Pool!Submit, Pool!Queued
<1>2. /\ queue \in Seq(File) /\ queue' \in Seq(File) /\ Len(queue) \in Nat
      /\ Len(queue') = Len(queue) + 1 /\ queue'[Len(queue) + 1] = f
      /\ \A i \in 1..Len(queue) : queue'[i] = queue[i]
      /\ \A i \in 1..Len(queue') : i \in 1..Len(queue) \/ i = Len(queue) + 1
      /\ Elements(queue') = Elements(queue) \cup {f}
  BY <1>1, AppendElements DEF TypeOK
<1>3. f \notin Elements(queue) /\ f \notin Running /\ f \notin Handed
  BY <1>1 DEF Elements, Running, Handed
<1>4. Running' = Running /\ Handed' = Handed \cup {f}
  BY <1>1, <1>2 DEF Running, Handed
<1>5. \A i, j \in 1..Len(queue') : queue'[i] = queue'[j] => i = j
  BY <1>1, <1>2 DEF PoolInv
<1>6. PoolInv'
  BY <1>1, <1>2, <1>3, <1>4, <1>5 DEF PoolInv
<1> QED
  BY <1>1, <1>2, <1>3, <1>4, <1>6

LEMMA StartStep ==
  ASSUME TypeOK, PoolInv, NEW w \in Worker, Pool!Start(w)
  PROVE  /\ PoolInv' /\ queue' \in Seq(File)
         /\ running[w] = Nothing /\ running'[w] \in Elements(queue)
         /\ running' \in [Worker -> File \cup {Nothing}]
         /\ \A v \in Worker \ {w} : running'[v] = running[v]
         /\ (Elements(queue) \cup Running)' = Elements(queue) \cup Running
         /\ Handed' = Handed
         /\ UNCHANGED <<ended, closed, gone>>
<1> DEFINE f == Head(queue)
<1>1. /\ running[w] = Nothing /\ queue # <<>> /\ queue' = Tail(queue)
      /\ running' = [running EXCEPT ![w] = f] /\ UNCHANGED <<ended, closed, gone>>
  BY DEF Pool!Start
<1>2. /\ queue \in Seq(File) /\ running \in [Worker -> File \cup {Nothing}]
  BY DEF TypeOK
<1>3. /\ f \in File /\ queue' \in Seq(File) /\ f = queue[1] /\ Len(queue) \in Nat \ {0}
      /\ Len(queue') = Len(queue) - 1
      /\ \A i \in 1..Len(queue') : i + 1 \in 1..Len(queue) /\ queue'[i] = queue[i + 1]
      /\ Elements(queue) = {f} \cup Elements(queue')
  BY <1>1, <1>2, TailElements
<1> HIDE DEF f
<1>4. /\ running' \in [Worker -> File \cup {Nothing}] /\ running'[w] = f
      /\ \A v \in Worker \ {w} : running'[v] = running[v]
  BY <1>1, <1>2, <1>3
<1>5. f # Nothing /\ f \in Elements(queue) /\ f \notin Running /\ f \notin ended
  BY <1>3, UploadAssumption DEF PoolInv
<1>6. Running' = Running \cup {f}
  BY <1>1, <1>4, <1>5 DEF Running
<1>7. f \notin Elements(queue')
  <2>1. ASSUME NEW i \in 1..Len(queue'), queue'[i] = f PROVE FALSE
    <3>1. i + 1 \in 1..Len(queue) /\ 1 \in 1..Len(queue) /\ queue[i + 1] = queue[1] /\ i + 1 # 1
      BY <1>3, <2>1
    <3> QED
      BY <3>1 DEF PoolInv
  <2> QED
    BY <2>1 DEF Elements
<1>8. \A i, j \in 1..Len(queue') : queue'[i] = queue'[j] => i = j
  <2> SUFFICES ASSUME NEW i \in 1..Len(queue'), NEW j \in 1..Len(queue'), queue'[i] = queue'[j]
               PROVE  i = j
    OBVIOUS
  <2>1. i + 1 \in 1..Len(queue) /\ j + 1 \in 1..Len(queue) /\ queue[i + 1] = queue[j + 1]
    BY <1>3
  <2>2. i + 1 = j + 1
    BY <2>1 DEF PoolInv
  <2> QED
    BY <2>2
<1>9. \A v, u \in Worker : running'[v] = running'[u] => running'[v] = Nothing \/ v = u
  BY <1>4, <1>5 DEF PoolInv, Running
<1>10. ~gone
  BY <1>1 DEF PoolInv
<1>11. PoolInv'
  BY <1>1, <1>3, <1>5, <1>6, <1>7, <1>8, <1>9, <1>10 DEF PoolInv
<1>12. /\ Elements(queue') \cup Running' = Elements(queue) \cup Running
       /\ Handed' = Handed
  BY <1>1, <1>3, <1>6 DEF Handed
<1> QED
  BY <1>1, <1>3, <1>4, <1>5, <1>11, <1>12

LEMMA FinishStep ==
  ASSUME TypeOK, PoolInv, NEW w \in Worker, Pool!Finish(w)
  PROVE  /\ PoolInv'
         /\ running[w] \in File /\ running'[w] = Nothing
         /\ running[w] \notin Elements(queue) /\ running[w] \notin ended
         /\ running' \in [Worker -> File \cup {Nothing}]
         /\ \A v \in Worker \ {w} : running'[v] = running[v] /\ running[v] # running[w]
         /\ Running' = Running \ {running[w]} /\ ended' = ended \cup {running[w]}
         /\ Handed' = Handed
         /\ UNCHANGED <<queue, closed, gone>>
<1>1. /\ running[w] # Nothing /\ running[w] \notin ended
      /\ ended' = ended \cup {running[w]} /\ running' = [running EXCEPT ![w] = Nothing]
      /\ UNCHANGED <<queue, closed, gone>>
  BY DEF Pool!Finish, Pool!Busy
<1>2. running \in [Worker -> File \cup {Nothing}]
  BY DEF TypeOK
<1>3. /\ running[w] \in File /\ running'[w] = Nothing /\ running[w] \in Running
      /\ running' \in [Worker -> File \cup {Nothing}]
      /\ \A v \in Worker \ {w} : running'[v] = running[v]
  BY <1>1, <1>2 DEF Running
<1>4. \A v \in Worker \ {w} : running[v] # running[w]
  BY <1>1 DEF PoolInv
<1>5. Running' = Running \ {running[w]}
  BY <1>1, <1>3, <1>4 DEF Running
<1>6. running[w] \notin Elements(queue)
  BY <1>3 DEF PoolInv
<1>7. \A v, u \in Worker : running'[v] = running'[u] => running'[v] = Nothing \/ v = u
  BY <1>3 DEF PoolInv
<1>8. PoolInv'
  BY <1>1, <1>3, <1>5, <1>6, <1>7 DEF PoolInv
<1>9. Handed' = Handed
  BY <1>1, <1>3, <1>5 DEF Handed
<1> QED
  BY <1>1, <1>3, <1>4, <1>5, <1>6, <1>8, <1>9

----------------------------------------------------------------------------
(* The walk of store_tree *)

LEMMA TopFacts ==
  ASSUME stack \in Seq(Frame), stack # <<>>
  PROVE  /\ Len(stack) \in Nat \ {0} /\ Len(stack) \in 1..Len(stack)
         /\ Top \in Frame /\ Top = stack[Len(stack)]
  BY DEF Top

(* Keep moves an entry of the last call from what is left to what is kept. *)
LEMMA KeepFacts ==
  ASSUME stack \in Seq(Frame), stack # <<>>, NEW e \in File \cup Dir, NEW s, s = Keep(e)
  PROVE  /\ s \in Seq(Frame) /\ Len(s) = Len(stack)
         /\ \A i \in 1..Len(stack) : s[i].dir = stack[i].dir
         /\ \A i \in 1..Len(stack) : i # Len(stack) => s[i] = stack[i]
         /\ s[Len(stack)].left = Top.left \ {e} /\ s[Len(stack)].kept = Top.kept \cup {e}
         /\ KeptBy(s) = KeptBy(stack) \cup {e}
<1> DEFINE n == Len(stack)
           f == [Top EXCEPT !.left = @ \ {e}, !.kept = @ \cup {e}]
<1>1. n \in Nat \ {0} /\ n \in 1..n /\ Top \in Frame /\ Top = stack[n]
  BY TopFacts
<1>2. f \in Frame /\ f.dir = Top.dir /\ f.left = Top.left \ {e} /\ f.kept = Top.kept \cup {e}
  BY <1>1 DEF Frame
<1>3. s = [stack EXCEPT ![n] = f]
  BY DEF Keep, Top
<1> HIDE DEF f
<1>4. s \in Seq(Frame) /\ Len(s) = n
  BY <1>1, <1>2, <1>3
<1>5. \A i \in 1..n : s[i] = IF i = n THEN f ELSE stack[i]
  BY <1>1, <1>2, <1>3
<1>6. \A i \in 1..n : s[i].kept = stack[i].kept \cup (IF i = n THEN {e} ELSE {})
  BY <1>1, <1>2, <1>5
<1>7. KeptBy(s) = KeptBy(stack) \cup {e}
  BY <1>1, <1>4, <1>6 DEF KeptBy
<1> QED
  BY <1>1, <1>2, <1>4, <1>5, <1>7

(* An entry that is left is new: it is in no other folder. *)
LEMMA FreshEntry ==
  ASSUME stack \in Seq(Frame), stack # <<>>, WalkInv, command = "lock", NEW e \in Top.left
  PROVE  /\ e \in In(Top.dir) /\ e \notin Kept /\ e # Root
         /\ e \in Dir => ~Visited(e)
         /\ e \in File => e \notin Handed
<1> DEFINE n == Len(stack)
<1>1. n \in Nat \ {0} /\ n \in 1..n /\ Top \in Frame /\ Top = stack[n]
  BY TopFacts
<1>2. e \in In(Top.dir) /\ e \notin Top.kept /\ trees[Top.dir] = Nothing
  BY <1>1 DEF WalkInv
<1>3. e # Root /\ e \in File \cup Dir /\ Within[e] = Top.dir
  BY <1>2 DEF In
<1>4. ASSUME NEW i \in 1..n, e \in stack[i].kept PROVE FALSE
  <2>1. e \in In(stack[i].dir)
    BY <1>4 DEF WalkInv
  <2>2. stack[i].dir = stack[n].dir
    BY <1>1, <1>3, <2>1 DEF In
  <2>3. i = n
    BY <1>1, <2>2 DEF WalkInv
  <2> QED
    BY <1>1, <1>2, <1>4, <2>3
<1>5. ASSUME NEW d \in Dir, trees[d] # Nothing, e \in trees[d] PROVE FALSE
  <2>1. e \in In(d)
    BY <1>5 DEF WalkInv
  <2> QED
    BY <1>2, <1>3, <1>5, <2>1 DEF In
<1>6. e \notin Kept
  BY <1>4, <1>5 DEF Kept, KeptBy, KeptIn
<1> QED
  BY <1>2, <1>3, <1>6 DEF WalkInv

(* A folder is entered. *)
LEMMA EnterWalk ==
  ASSUME NEW d \in Dir, stack \in Seq(Frame), stack # <<>>, WalkInv, d \in Top.left,
         command = "lock" , stack' = Append(Keep(d), Call(d)),
         UNCHANGED <<trees, command>>, Handed' = Handed
  PROVE  stack' \in Seq(Frame) /\ stack' # <<>> /\ WalkInv'
<1> DEFINE n == Len(stack)
           s == Keep(d)
           c == Call(d)
<1>1. n \in Nat \ {0} /\ n \in 1..n /\ Top \in Frame /\ Top = stack[n]
  BY TopFacts
<1>2. /\ s \in Seq(Frame) /\ Len(s) = n
      /\ \A i \in 1..n : s[i].dir = stack[i].dir
      /\ \A i \in 1..n : i # n => s[i] = stack[i]
      /\ s[n].left = Top.left \ {d} /\ s[n].kept = Top.kept \cup {d}
      /\ KeptBy(s) = KeptBy(stack) \cup {d}
  BY KeepFacts
<1> HIDE DEF s
<1>3. c \in Frame /\ c.dir = d /\ c.left = In(d) /\ c.kept = {}
  BY DEF Call, Frame, In
<1> HIDE DEF c
<1>4. stack' = Append(s, c)
  BY DEF s, c
<1>5. /\ stack' \in Seq(Frame) /\ Len(stack') = n + 1 /\ stack'[n + 1] = c
      /\ \A i \in 1..n : stack'[i] = s[i]
      /\ \A i \in 1..Len(stack') : i \in 1..n \/ i = n + 1
  BY <1>2, <1>3, <1>4, AppendElements
<1>6. d \in In(Top.dir) /\ d \notin Kept /\ d # Root /\ ~Visited(d)
  BY FreshEntry
<1>7. \A i \in 1..n : stack'[i].dir = stack[i].dir /\ stack[i].dir # d
  BY <1>2, <1>5, <1>6 DEF Visited
<1>8. KeptBy(stack') = KeptBy(s)
  BY <1>1, <1>2, <1>3, <1>5 DEF KeptBy
<1>9. Kept' = Kept \cup {d}
  BY <1>2, <1>8 DEF Kept
<1>10. ASSUME NEW i \in 1..Len(stack')
       PROVE  /\ trees'[stack'[i].dir] = Nothing
              /\ stack'[i].kept \subseteq In(stack'[i].dir)
              /\ stack'[i].left = In(stack'[i].dir) \ stack'[i].kept
  <2>1. CASE i = n + 1
    BY <1>3, <1>5, <1>6, <2>1 DEF Visited
  <2>2. CASE i = n
    <3>1. /\ trees[Top.dir] = Nothing /\ Top.kept \subseteq In(Top.dir)
          /\ Top.left = In(Top.dir) \ Top.kept
      BY <1>1 DEF WalkInv
    <3>2. /\ stack'[i].dir = Top.dir /\ stack'[i].left = Top.left \ {d}
          /\ stack'[i].kept = Top.kept \cup {d}
      BY <1>1, <1>2, <1>5, <2>2
    <3> QED
      BY <1>6, <3>1, <3>2
  <2>3. CASE i \in 1..n /\ i # n
    BY <1>1, <1>2, <1>5, <2>3 DEF WalkInv
  <2> QED
    BY <1>5, <2>1, <2>2, <2>3
<1>11. \A i, j \in 1..Len(stack') : stack'[i].dir = stack'[j].dir => i = j
  BY <1>3, <1>5, <1>7 DEF WalkInv
<1>12. ASSUME NEW e \in Dir PROVE Visited(e)' <=> Visited(e) \/ e = d
  <2>1. n + 1 \in 1..Len(stack') /\ \A i \in 1..n : i \in 1..Len(stack')
    BY <1>1, <1>5
  <2>2. (\E i \in 1..Len(stack') : stack'[i].dir = e)
        <=> (\E i \in 1..n : stack[i].dir = e) \/ e = d
    BY <1>3, <1>5, <1>7, <2>1
  <2> QED
    BY <2>2 DEF Visited
<1>13. \A e \in Dir : Visited(e)' <=> e = Root \/ e \in Kept'
  BY <1>9, <1>12 DEF WalkInv
<1>14. Kept' \cap File = Handed'
  BY <1>9, UploadAssumption DEF WalkInv
<1>15. \A e \in Dir : trees'[e] # Nothing => trees'[e] = In(e)
  BY DEF WalkInv
<1> QED
  BY <1>1, <1>5, <1>10, <1>11, <1>13, <1>14, <1>15 DEF WalkInv, In

(* A file is handed to the pool. *)
LEMMA FileWalk ==
  ASSUME NEW f \in File, stack \in Seq(Frame), stack # <<>>, WalkInv, f \in Top.left,
         command = "lock", stack' = Keep(f),
         UNCHANGED <<trees, command>>, Handed' = Handed \cup {f}
  PROVE  stack' \in Seq(Frame) /\ stack' # <<>> /\ WalkInv'
<1> DEFINE n == Len(stack)
<1>1. n \in Nat \ {0} /\ n \in 1..n /\ Top \in Frame /\ Top = stack[n]
  BY TopFacts
<1>2. /\ stack' \in Seq(Frame) /\ Len(stack') = n
      /\ \A i \in 1..n : stack'[i].dir = stack[i].dir
      /\ \A i \in 1..n : i # n => stack'[i] = stack[i]
      /\ stack'[n].left = Top.left \ {f} /\ stack'[n].kept = Top.kept \cup {f}
      /\ KeptBy(stack') = KeptBy(stack) \cup {f}
  BY KeepFacts
<1>3. f \in In(Top.dir)
  BY FreshEntry
<1>4. Kept' = Kept \cup {f}
  BY <1>2 DEF Kept
<1>5. ASSUME NEW i \in 1..Len(stack')
      PROVE  /\ trees'[stack'[i].dir] = Nothing
             /\ stack'[i].kept \subseteq In(stack'[i].dir)
             /\ stack'[i].left = In(stack'[i].dir) \ stack'[i].kept
  <2>1. CASE i = n
    BY <1>1, <1>2, <1>3, <2>1 DEF WalkInv
  <2>2. CASE i \in 1..n /\ i # n
    BY <1>1, <1>2, <2>2 DEF WalkInv
  <2> QED
    BY <1>2, <2>1, <2>2
<1>6. \A e \in Dir : Visited(e)' <=> Visited(e)
  BY <1>1, <1>2 DEF Visited
<1>7. f \notin Dir
  BY UploadAssumption
<1>8. \A e \in Dir : Visited(e)' <=> e = Root \/ e \in Kept'
  BY <1>4, <1>6, <1>7 DEF WalkInv
<1>9. Kept' \cap File = Handed'
  BY <1>4 DEF WalkInv
<1>10. \A i, j \in 1..Len(stack') : stack'[i].dir = stack'[j].dir => i = j
  BY <1>2 DEF WalkInv
<1>11. \A e \in Dir : trees'[e] # Nothing => trees'[e] = In(e)
  BY DEF WalkInv
<1> QED
  BY <1>1, <1>2, <1>5, <1>8, <1>9, <1>10, <1>11 DEF WalkInv, In

(* The tree of a folder is stored. *)
LEMMA TreeWalk ==
  ASSUME stack \in Seq(Frame), stack # <<>>, WalkInv, Top.left = {}, command = "lock",
         trees \in [Dir -> {Nothing} \cup SUBSET (File \cup Dir)],
         trees' = [trees EXCEPT ![Top.dir] = Top.kept],
         stack' = SubSeq(stack, 1, Len(stack) - 1),
         UNCHANGED command, Handed' = Handed
  PROVE  /\ stack' \in Seq(Frame) /\ Len(stack') = Len(stack) - 1 /\ WalkInv'
         /\ trees' \in [Dir -> {Nothing} \cup SUBSET (File \cup Dir)]
<1> DEFINE n == Len(stack)
           t == Top.dir
<1>1. n \in Nat \ {0} /\ n \in 1..n /\ Top \in Frame /\ Top = stack[n]
  BY TopFacts
<1>2. /\ stack' \in Seq(Frame) /\ Len(stack') = n - 1
      /\ \A i \in 1..(n - 1) : stack'[i] = stack[i] /\ i \in 1..n /\ i # n
  <2> DEFINE m == n - 1
  <2>1. m \in Int /\ \A i \in 1..m : stack[i] \in Frame /\ i \in 1..n /\ i # n
    BY <1>1
  <2>2. stack' = SubSeq(stack, 1, m)
    OBVIOUS
  <2> HIDE DEF m
  <2>3. /\ stack' \in Seq(Frame) /\ Len(stack') = IF 1 <= m THEN m - 1 + 1 ELSE 0
        /\ \A i \in 1..(m - 1 + 1) : stack'[i] = stack[1 + i - 1]
    BY <2>1, <2>2, SubSeqProperties
  <2>a. m \in Nat
    BY <1>1 DEF m
  <2>b. m = 0 \/ 1 <= m
    BY <2>a
  <2>4. m \in Nat /\ m - 1 + 1 = m /\ (m = 0 \/ 1 <= m)
    BY <2>a, <2>b
  <2>5. Len(stack') = m /\ \A i \in 1..m : stack'[i] = stack[i]
    BY <2>3, <2>4
  <2> QED
    BY <2>1, <2>3, <2>5 DEF m
<1>3. t \in Dir /\ Top.kept \subseteq File \cup Dir
  BY <1>1 DEF Frame
<1>4. Top.kept = In(t) /\ trees[t] = Nothing
  BY <1>1 DEF WalkInv
<1>5. Top.kept # Nothing
  BY <1>3, UploadAssumption
<1>6. /\ trees'[t] = Top.kept /\ \A d \in Dir : d # t => trees'[d] = trees[d]
      /\ trees' \in [Dir -> {Nothing} \cup SUBSET (File \cup Dir)]
  BY <1>3
<1> HIDE DEF t
<1>7. stack[n].dir = t
  BY <1>1 DEF t
<1>8. \A i \in 1..(n - 1) : stack[i].dir # t
  BY <1>1, <1>2, <1>7 DEF WalkInv
<1>9. ASSUME NEW d \in Dir PROVE Visited(d)' <=> Visited(d)
  <2>1. CASE d = t
    BY <1>1, <1>5, <1>6, <1>7, <2>1 DEF Visited
  <2>2. CASE d # t
    <3>0. \A i \in 1..n : i = n \/ i \in 1..(n - 1)
      BY <1>1
    <3>1. (\E i \in 1..Len(stack') : stack'[i].dir = d) <=> (\E i \in 1..n : stack[i].dir = d)
      BY <1>2, <1>7, <2>2, <3>0
    <3> QED
      BY <1>6, <2>2, <3>1 DEF Visited
  <2> QED
    BY <2>1, <2>2
<1>10. Kept' = Kept
  <2>1. KeptBy(stack') \cup Top.kept = KeptBy(stack)
    <3>1. \A i \in 1..n : i = n \/ i \in 1..(n - 1)
      BY <1>1
    <3>2. Top.kept \subseteq KeptBy(stack) /\ KeptBy(stack') \subseteq KeptBy(stack)
      BY <1>1, <1>2 DEF KeptBy
    <3>3. KeptBy(stack) \subseteq KeptBy(stack') \cup Top.kept
      BY <1>1, <1>2, <3>1 DEF KeptBy
    <3> QED
      BY <3>2, <3>3
  <2>2. {e \in Dir : trees'[e] # Nothing} = {e \in Dir : trees[e] # Nothing} \cup {t}
    BY <1>3, <1>5, <1>6 DEF t
  <2>3. KeptIn(trees') = KeptIn(trees) \cup Top.kept
    BY <1>3, <1>4, <1>6, <2>2 DEF KeptIn, t
  <2> QED
    BY <2>1, <2>3 DEF Kept
<1>11. ASSUME NEW i \in 1..Len(stack')
       PROVE  /\ trees'[stack'[i].dir] = Nothing
              /\ stack'[i].kept \subseteq In(stack'[i].dir)
              /\ stack'[i].left = In(stack'[i].dir) \ stack'[i].kept
  <2>1. stack'[i] = stack[i] /\ stack[i] \in Frame /\ i \in 1..n
    BY <1>1, <1>2
  <2>2. stack[i].dir \in Dir /\ stack[i].dir # t
    BY <1>2, <1>8, <2>1 DEF Frame
  <2> QED
    BY <1>6, <2>1, <2>2 DEF WalkInv
<1>12. \A i, j \in 1..Len(stack') : stack'[i].dir = stack'[j].dir => i = j
  BY <1>2 DEF WalkInv
<1>13. \A e \in Dir : trees'[e] # Nothing => trees'[e] = In(e)
  BY <1>4, <1>6 DEF WalkInv
<1>14. \A e \in Dir : Visited(e)' <=> e = Root \/ e \in Kept'
  BY <1>9, <1>10 DEF WalkInv
<1>15. Kept' \cap File = Handed'
  BY <1>10 DEF WalkInv
<1> QED
  BY <1>2, <1>6, <1>11, <1>12, <1>13, <1>14, <1>15 DEF WalkInv, In

----------------------------------------------------------------------------
(* Counting the uploads *)

(* The types but for the counters, which follow from what they count *)
BaseType ==
  /\ command \in {"lock", "add"} /\ main \in Labels
  /\ current \in File \cup {Nothing}
  /\ queue \in Seq(File) /\ running \in [Worker -> File \cup {Nothing}]
  /\ ended \subseteq File /\ closed \in BOOLEAN /\ gone \in BOOLEAN
  /\ futures \in Seq(File)
  /\ task \in [Worker -> TaskLabels] /\ done \in [Worker -> Nat]
  /\ failed \subseteq File /\ temporary \subseteq File /\ uploaded \subseteq File
  /\ trees \in [Dir -> {Nothing} \cup SUBSET (File \cup Dir)]
  /\ head \in BOOLEAN
  /\ members \in {"all", "store", "none"} /\ touched \subseteq {"store", "progress"}
  /\ result \in {"none", "ok", "error"}

LEMMA FileCount == IsFiniteSet(File) /\ Cardinality(File) \in Nat
  BY UploadAssumption, FS_CardinalityType

LEMMA TypeBase == TypeOK => BaseType
<1> SUFFICES ASSUME TypeOK PROVE BaseType
  OBVIOUS
<1>1. done \in [Worker -> Nat]
  BY FileCount DEF TypeOK
<1> QED
  BY <1>1 DEF TypeOK, BaseType

LEMMA CountedFiles ==
  ASSUME BaseType, TaskInv
  PROVE  /\ Finished \subseteq Counted /\ Counted \subseteq File
         /\ IsFiniteSet(Finished) /\ IsFiniteSet(Counted)
         /\ Cardinality(Finished) \in Nat /\ Cardinality(Counted) \in Nat
         /\ Cardinality(Finished) <= Cardinality(Counted)
         /\ Cardinality(Counted) <= Cardinality(File)
<1>1. Elements(queue) \subseteq File
  BY DEF BaseType, Elements
<1>2. Running \subseteq File
  BY DEF BaseType, Running
<1>3. Counted \subseteq File
  BY <1>1, <1>2 DEF Counted, Handed, BaseType
<1>4. Finished \subseteq Counted
  BY DEF Finished, Counted, Handed, Running, TaskInv
<1> QED
  BY <1>3, <1>4, FileCount, FS_Subset, FS_CardinalityType

LEMMA CountedFilesNext ==
  ASSUME BaseType', TaskInv'
  PROVE  /\ Finished' \subseteq Counted' /\ Counted' \subseteq File
         /\ IsFiniteSet(Finished') /\ IsFiniteSet(Counted')
         /\ Cardinality(Finished') \in Nat /\ Cardinality(Counted') \in Nat
         /\ Cardinality(Finished') <= Cardinality(Counted')
         /\ Cardinality(Counted') <= Cardinality(File)
<1>1. Elements(queue') \subseteq File
  BY DEF BaseType, Elements
<1>2. Running' \subseteq File
  BY DEF BaseType, Running
<1>3. Counted' \subseteq File
  BY <1>1, <1>2 DEF Counted, Handed, BaseType
<1>4. Finished' \subseteq Counted'
  BY DEF Finished, Counted, Handed, Running, TaskInv
<1> QED
  BY <1>3, <1>4, FileCount, FS_Subset, FS_CardinalityType

LEMMA TypeNext ==
  ASSUME BaseType', TaskInv', CountInv'
  PROVE  TypeOK'
<1>1. /\ total_uploads' = Cardinality(Counted') /\ finished_uploads' = Cardinality(Finished')
      /\ \A w \in Worker : done'[w] <= finished_uploads'
  BY DEF CountInv
<1>2. /\ total_uploads' \in 0..Cardinality(File)
      /\ finished_uploads' \in 0..total_uploads'
  BY <1>1, CountedFilesNext, FileCount
<1>3. done' \in [Worker -> 0..Cardinality(File)]
  <2>1. \A w \in Worker : done'[w] \in 0..Cardinality(File)
    BY <1>1, <1>2, FileCount DEF BaseType
  <2> QED
    BY <2>1 DEF BaseType
<1> QED
  BY <1>2, <1>3 DEF BaseType, TypeOK

----------------------------------------------------------------------------
(* What a step leaves alone *)

LEMMA PoolSame ==
  ASSUME UNCHANGED <<queue, running, ended>>
  PROVE  Handed' = Handed /\ Running' = Running /\ Elements(queue)' = Elements(queue)
  BY DEF Handed, Running

LEMMA CountSame ==
  ASSUME CountInv, UNCHANGED <<queue, running, ended, task, done, failed>>,
         UNCHANGED <<finished_uploads, lines, total_uploads>>, Counted' = Counted
  PROVE  CountInv'
<1>1. Finished' = Finished
  BY DEF Finished
<1> QED
  BY <1>1 DEF CountInv

LEMMA TaskSame ==
  ASSUME TaskInv, UNCHANGED <<running, ended, task, failed, uploaded>>
  PROVE  TaskInv'
  BY DEF TaskInv

LEMMA WalkSame ==
  ASSUME WalkInv, UNCHANGED <<stack, trees, command>>, Handed' = Handed
  PROVE  WalkInv'
<1>1. Kept' = Kept /\ \A d \in Dir : Visited(d)' <=> Visited(d)
  BY DEF Kept, Visited
<1> QED
  BY <1>1 DEF WalkInv, In

(* A step of the main thread that hands nothing to the pool *)
LEMMA QuietStep ==
  ASSUME IInv, UNCHANGED <<queue, running, ended, command, current>>,
         UNCHANGED taskVars, UNCHANGED <<total_uploads, temporary>>,
         stack' \in Seq(Frame), trees' \in [Dir -> {Nothing} \cup SUBSET (File \cup Dir)],
         main # "enqueue", main' # "enqueue", main' \in Labels,
         closed' \in BOOLEAN, gone' \in BOOLEAN, gone' => queue = <<>> /\ Running = {},
         futures' \in Seq(File), head' \in BOOLEAN, members' \in {"all", "store", "none"},
         result' \in {"none", "ok", "error"},
         WalkInv', MainInv', LockInv', AddInv', UseInv'
  PROVE  IInv'
<1>1. /\ Handed' = Handed /\ Running' = Running /\ Elements(queue)' = Elements(queue)
      /\ Counted' = Counted
  BY PoolSame DEF Counted
<1>2. UNCHANGED <<task, done, failed, uploaded, finished_uploads, lines, touched>>
  BY DEF taskVars
<1>3. CountInv' /\ TaskInv'
  BY <1>1, <1>2, CountSame, TaskSame DEF IInv
<1>4. PoolInv'
  BY <1>1 DEF IInv, PoolInv
<1>5. TempInv'
  BY <1>1, <1>2 DEF IInv, TempInv
<1>6. BaseType
  BY TypeBase DEF IInv
<1>7. BaseType'
  BY <1>2, <1>6 DEF BaseType
<1> QED
  BY <1>3, <1>4, <1>5, <1>7, TypeNext DEF IInv

(* The same for one that is not of the walk *)
LEMMA MainStep ==
  ASSUME IInv, UNCHANGED <<queue, running, ended, stack, trees, command, current>>,
         UNCHANGED taskVars, UNCHANGED <<total_uploads, temporary>>,
         main # "enqueue", main' # "enqueue", main' \in Labels,
         closed' \in BOOLEAN, gone' \in BOOLEAN, gone' => queue = <<>> /\ Running = {},
         futures' \in Seq(File), head' \in BOOLEAN, members' \in {"all", "store", "none"},
         result' \in {"none", "ok", "error"},
         MainInv', LockInv', AddInv', UseInv'
  PROVE  IInv'
<1>1. Handed' = Handed
  BY PoolSame
<1>2. WalkInv'
  BY <1>1, WalkSame DEF IInv
<1>3. stack' \in Seq(Frame) /\ trees' \in [Dir -> {Nothing} \cup SUBSET (File \cup Dir)]
  BY DEF IInv, TypeOK
<1> QED
  BY <1>2, <1>3, QuietStep

(* A step of a task *)
LEMMA TaskStep ==
  ASSUME IInv, UNCHANGED walkVars, UNCHANGED <<main, members, result, closed, gone>>,
         Handed' = Handed, ended \ failed \subseteq ended' \ failed',
         \/ touched' = touched
         \/ Running # {} /\ \E m \in {"store", "progress"} : Uses(m),
         queue' \in Seq(File), running' \in [Worker -> File \cup {Nothing}], ended' \subseteq File,
         task' \in [Worker -> TaskLabels], done' \in [Worker -> Nat], failed' \subseteq File,
         temporary' \subseteq File, uploaded' \subseteq File,
         PoolInv', TaskInv', TempInv', CountInv'
  PROVE  IInv'
<1>0. BaseType
  BY TypeBase DEF IInv
<1>1. /\ UNCHANGED <<command, stack, current, futures, trees, head, total_uploads>>
  BY DEF walkVars
<1>2. MainInv'
  BY <1>1 DEF IInv, MainInv
<1>3. WalkInv'
  BY <1>1, WalkSame DEF IInv
<1>4. LockInv'
  <2>1. LockInv
    BY DEF IInv
  <2> QED
    BY <1>1, <2>1 DEF LockInv, Top, In
<1>5. AddInv'
  BY <1>1 DEF IInv, AddInv, Top
<1>6. UseInv'
  <2>1. CASE touched' = touched
    BY <1>1, <2>1 DEF IInv, UseInv
  <2>2. ASSUME Running # {}, NEW m \in {"store", "progress"}, Uses(m) PROVE UseInv'
    <3>1. ~gone
      BY <2>2 DEF IInv, PoolInv
    <3>2. members # "none"
      BY <3>1 DEF IInv, MainInv
    <3>3. ~(command = "lock" /\ head)
      <4>1. Running \subseteq File /\ Running \cap ended = {}
        BY <1>0 DEF IInv, PoolInv, Running, BaseType
      <4> QED
        BY <2>2, <4>1 DEF IInv, LockInv
    <3> QED
      BY <1>1, <2>2, <3>2, <3>3 DEF IInv, UseInv, Uses
  <2> QED
    BY <2>1, <2>2
<1>7. touched' \subseteq {"store", "progress"}
  BY <1>0 DEF Uses, BaseType
<1>8. BaseType'
  BY <1>0, <1>1, <1>7 DEF BaseType
<1> QED
  BY <1>1, <1>2, <1>3, <1>4, <1>5, <1>6, <1>8, TypeNext DEF IInv

----------------------------------------------------------------------------
(* The initial state *)

LEMMA InitIInv == Init => IInv
<1> SUFFICES ASSUME Init PROVE IInv
  OBVIOUS
<1>1. /\ queue = <<>> /\ running = [w \in Worker |-> Nothing] /\ ended = {}
      /\ closed = FALSE /\ gone = FALSE
  BY DEF Init, Pool!Init
<1>2. /\ command \in {"lock", "add"} /\ main = "walk" /\ current = Nothing /\ futures = <<>>
      /\ task = [w \in Worker |-> "none"] /\ done = [w \in Worker |-> 0]
      /\ failed = {} /\ temporary = {} /\ uploaded = {} /\ trees = [d \in Dir |-> Nothing]
      /\ head = FALSE /\ total_uploads = 0 /\ finished_uploads = 0
      /\ lines = {} /\ touched = {} /\ members = "all" /\ result = "none"
  BY DEF Init
<1> DEFINE c == IF command = "lock" THEN Call(Root) ELSE [Call(Root) EXCEPT !.left = {Added}]
<1>3. stack = <<c>>
  BY DEF Init
<1>4. /\ c \in Frame /\ c.dir = Root /\ c.kept = {}
      /\ command = "lock" => c.left = In(Root)
      /\ command = "add" => c.left = {Added}
  BY <1>2, UploadAssumption DEF Call, Frame, In
<1> HIDE DEF c
<1>5. /\ stack \in Seq(Frame) /\ Len(stack) = 1 /\ stack[1] = c /\ stack # <<>>
      /\ Top = c /\ \A i \in 1..Len(stack) : i = 1
  BY <1>3, <1>4 DEF Top
<1>6. Elements(queue) = {} /\ Elements(futures) = {} /\ Running = {} /\ Handed = {}
  BY <1>1, <1>2, NoElements DEF Running, Handed
<1>7. Counted = {} /\ Finished = {}
  BY <1>1, <1>2, <1>6 DEF Counted, Finished
<1>8. Cardinality({}) = 0
  BY FS_EmptySet
<1>9. TypeOK
  <2>1. /\ running \in [Worker -> File \cup {Nothing}] /\ queue \in Seq(File)
        /\ futures \in Seq(File) /\ task \in [Worker -> TaskLabels]
        /\ trees \in [Dir -> {Nothing} \cup SUBSET (File \cup Dir)]
    BY <1>1, <1>2 DEF TaskLabels
  <2>2. /\ done \in [Worker -> 0..Cardinality(File)]
        /\ total_uploads \in 0..Cardinality(File) /\ finished_uploads \in 0..total_uploads
    BY <1>2, FileCount
  <2> QED
    BY <1>1, <1>2, <2>1, <2>2 DEF TypeOK, Labels
<1>10. PoolInv /\ TaskInv /\ TempInv /\ UseInv
  BY <1>1, <1>2, <1>6 DEF PoolInv, TaskInv, TempInv, UseInv
<1>11. MainInv
  BY <1>1, <1>2, <1>6 DEF MainInv
<1>12. CountInv
  BY <1>2, <1>7, <1>8 DEF CountInv
<1>13. WalkInv
  <2>1. KeptBy(stack) = {} /\ KeptIn(trees) = {} /\ Kept = {}
    BY <1>2, <1>4, <1>5 DEF KeptBy, KeptIn, Kept
  <2>2. \A d \in Dir : Visited(d) <=> d = Root
    BY <1>2, <1>4, <1>5 DEF Visited
  <2>3. Root \in Dir
    BY UploadAssumption
  <2> QED
    BY <1>2, <1>4, <1>5, <1>6, <2>1, <2>2, <2>3 DEF WalkInv
<1>14. LockInv /\ AddInv
  BY <1>2, <1>5, <1>4, <1>6 DEF LockInv, AddInv
<1> QED
  BY <1>5, <1>9, <1>10, <1>11, <1>12, <1>13, <1>14 DEF IInv

----------------------------------------------------------------------------
(* The steps of the main thread after the walk *)

(* What every exception leaves of the invariant: the pool, the engine and the folder as they
   were, and no command that succeeded. *)
LEMMA ThrowStep ==
  ASSUME IInv, Throw, main \in {"walk", "encrypt", "wait", "commit"},
         UNCHANGED poolVars, UNCHANGED taskVars,
         UNCHANGED <<command, stack, current, trees, total_uploads, temporary, members>>,
         futures' \in Seq(File), head' \in BOOLEAN, head' => head \/ main = "commit"
  PROVE  IInv'
<1>1. /\ UNCHANGED <<queue, running, ended, closed, gone>> /\ UNCHANGED <<failed, touched>>
      /\ result' = "error" /\ main' = "unwind"
  BY DEF poolVars, taskVars, Throw, Go
<1>2. Handed' = Handed
  BY <1>1, PoolSame
<1>3. TypeOK /\ MainInv /\ LockInv /\ AddInv /\ UseInv
  BY DEF IInv
<1>4. main' \in Labels /\ main # "enqueue" /\ main' # "enqueue"
  BY <1>1 DEF Labels
<1>5. MainInv'
  BY <1>1, <1>2, <1>3 DEF MainInv
<1>6. LockInv'
  <2> SUFFICES ASSUME command = "lock", head'
               PROVE  File = ended \ failed /\ \A d \in Dir : trees[d] = In(d)
    BY <1>1 DEF LockInv, In
  <2> QED
    BY <1>3 DEF LockInv
<1>7. AddInv'
  BY <1>1 DEF AddInv
<1>8. UseInv'
  <2>1. touched = {}
    BY <1>3 DEF UseInv, MainInv
  <2> QED
    BY <1>1, <2>1 DEF UseInv
<1>9. /\ closed' \in BOOLEAN /\ gone' \in BOOLEAN /\ members' \in {"all", "store", "none"}
      /\ result' \in {"none", "ok", "error"}
  BY <1>1, <1>3 DEF TypeOK
<1>10. gone' => queue = <<>> /\ Running = {}
  BY <1>1 DEF IInv, PoolInv
<1> QED
  BY <1>1, <1>4, <1>5, <1>6, <1>7, <1>8, <1>9, <1>10, MainStep

LEMMA EncryptFailsStep == IInv /\ EncryptFails => IInv'
<1> SUFFICES ASSUME IInv, EncryptFails PROVE IInv'
  OBVIOUS
<1>1. /\ Throw /\ main = "encrypt" /\ UNCHANGED poolVars /\ UNCHANGED taskVars
      /\ UNCHANGED walkVars /\ UNCHANGED <<temporary, members>>
  BY DEF EncryptFails, At
<1>2. UNCHANGED <<command, stack, current, trees, total_uploads, futures, head>>
  BY <1>1 DEF walkVars
<1>3. futures' \in Seq(File) /\ head' \in BOOLEAN
  BY <1>2 DEF IInv, TypeOK
<1> QED
  BY <1>1, <1>2, <1>3, ThrowStep

LEMMA WalkFailsStep == IInv /\ WalkFails => IInv'
<1> SUFFICES ASSUME IInv, WalkFails PROVE IInv'
  OBVIOUS
<1>1. /\ Throw /\ main = "walk" /\ UNCHANGED poolVars /\ UNCHANGED taskVars
      /\ UNCHANGED walkVars /\ UNCHANGED <<temporary, members>>
  BY DEF WalkFails, At
<1>2. UNCHANGED <<command, stack, current, trees, total_uploads, futures, head>>
  BY <1>1 DEF walkVars
<1>3. futures' \in Seq(File) /\ head' \in BOOLEAN
  BY <1>2 DEF IInv, TypeOK
<1> QED
  BY <1>1, <1>2, <1>3, ThrowStep

LEMMA WaitThrowsStep == IInv /\ WaitThrows => IInv'
<1> SUFFICES ASSUME IInv, WaitThrows PROVE IInv'
  OBVIOUS
<1>1. /\ Throw /\ main = "wait" /\ UNCHANGED poolVars /\ UNCHANGED taskVars
      /\ UNCHANGED <<command, stack, current, trees, total_uploads, temporary, members>>
      /\ head' = head /\ futures # <<>> /\ futures' = Tail(futures)
  BY DEF WaitThrows, At
<1>2. futures' \in Seq(File) /\ head' \in BOOLEAN
  BY <1>1, TailElements DEF IInv, TypeOK
<1> QED
  BY <1>1, <1>2, ThrowStep

LEMMA CommitFailsStep == IInv /\ CommitFails => IInv'
<1> SUFFICES ASSUME IInv, CommitFails PROVE IInv'
  OBVIOUS
<1>1. /\ Throw /\ main = "commit" /\ UNCHANGED poolVars /\ UNCHANGED taskVars
      /\ UNCHANGED <<command, stack, current, trees, total_uploads, temporary, members>>
      /\ head' \in BOOLEAN /\ futures' = futures
  BY DEF CommitFails, At
<1>2. futures' \in Seq(File)
  BY <1>1 DEF IInv, TypeOK
<1> QED
  BY <1>1, <1>2, ThrowStep

LEMMA WaitGetsStep == IInv /\ WaitGets => IInv'
<1> SUFFICES ASSUME IInv, WaitGets PROVE IInv'
  OBVIOUS
<1>1. /\ main = "wait" /\ UNCHANGED poolVars /\ UNCHANGED taskVars
      /\ UNCHANGED <<command, stack, current, trees, total_uploads, temporary, members>>
      /\ UNCHANGED <<head, main, result>>
      /\ futures # <<>> /\ futures' = Tail(futures)
      /\ Head(futures) \in ended /\ Head(futures) \notin failed
  BY DEF WaitGets, At, Ready
<1>2. /\ UNCHANGED <<queue, running, ended, closed, gone>> /\ UNCHANGED <<failed, touched>>
  BY <1>1 DEF poolVars, taskVars
<1>3. Handed' = Handed /\ Running' = Running
  BY <1>2, PoolSame
<1>4. TypeOK /\ MainInv /\ LockInv /\ AddInv /\ UseInv
  BY DEF IInv
<1>5. futures' \in Seq(File) /\ Elements(futures) = {Head(futures)} \cup Elements(futures')
  BY <1>1, <1>4, TailElements DEF TypeOK
<1>6. MainInv'
  BY <1>1, <1>2, <1>3, <1>4 DEF MainInv
<1>7. LockInv'
  BY <1>1, <1>2, <1>3, <1>4, <1>5 DEF LockInv, In, Top
<1>8. AddInv'
  BY <1>1, <1>4 DEF AddInv
<1>9. UseInv'
  BY <1>1, <1>2, <1>4 DEF UseInv
<1>10. /\ closed' \in BOOLEAN /\ gone' \in BOOLEAN /\ members' \in {"all", "store", "none"}
       /\ result' \in {"none", "ok", "error"} /\ head' \in BOOLEAN
       /\ main # "enqueue" /\ main' # "enqueue" /\ main' \in Labels
  BY <1>1, <1>2, <1>4 DEF TypeOK
<1>11. gone' => queue = <<>> /\ Running = {}
  BY <1>2 DEF IInv, PoolInv
<1> QED
  BY <1>1, <1>2, <1>5, <1>6, <1>7, <1>8, <1>9, <1>10, <1>11, MainStep

(* The walk has ended: every folder was entered, so the folder is stored whole. *)
LEMMA WalkedAll ==
  ASSUME IInv, command = "lock", stack = <<>>
  PROVE  (\A d \in Dir : trees[d] = In(d)) /\ File \subseteq Handed
<1> DEFINE S == {d \in Dir : trees[d] # Nothing}
<1>1. WalkInv
  BY DEF IInv
<1>2. Len(stack) = 0 /\ KeptBy(stack) = {}
  BY DEF KeptBy
<1>3. Kept = KeptIn(trees) /\ \A d \in Dir : Visited(d) <=> d \in S
  BY <1>2 DEF Kept, Visited
<1>4. \A d \in S : trees[d] = In(d) /\ In(d) \subseteq Kept
  BY <1>1, <1>3 DEF WalkInv, KeptIn
<1>5. Root \in S
  BY <1>1, <1>3, UploadAssumption DEF WalkInv
<1>6. ASSUME NEW d \in Dir \ {Root}, Within[d] \in S PROVE d \in S
  <2>1. d \in In(Within[d])
    BY DEF In
  <2> QED
    BY <1>1, <1>3, <1>4, <1>6, <2>1 DEF WalkInv
<1>7. S = Dir
  <2>1. S \in SUBSET Dir
    OBVIOUS
  <2> HIDE DEF S
  <2> QED
    BY <1>5, <1>6, <2>1, UploadAssumption
<1>8. ASSUME NEW f \in File PROVE f \in Kept
  <2>1. f \in (File \cup Dir) \ {Root} /\ Within[f] \in Dir
    BY UploadAssumption
  <2>2. f \in In(Within[f])
    BY <2>1 DEF In
  <2> QED
    BY <1>4, <1>7, <2>1, <2>2
<1> QED
  BY <1>1, <1>4, <1>7, <1>8 DEF WalkInv

LEMMA WaitEndsStep == IInv /\ WaitEnds => IInv'
<1> SUFFICES ASSUME IInv, WaitEnds PROVE IInv'
  OBVIOUS
<1>1. /\ main = "wait" /\ main' = "commit" /\ UNCHANGED poolVars /\ UNCHANGED taskVars
      /\ UNCHANGED walkVars /\ UNCHANGED <<temporary, members, result>> /\ futures = <<>>
  BY DEF WaitEnds, At, Go
<1>2. /\ UNCHANGED <<queue, running, ended, closed, gone>> /\ UNCHANGED <<failed, touched>>
      /\ UNCHANGED <<command, stack, current, futures, trees, head, total_uploads>>
  BY <1>1 DEF poolVars, taskVars, walkVars
<1>3. Handed' = Handed /\ Running' = Running
  BY <1>2, PoolSame
<1>4. TypeOK /\ MainInv /\ LockInv /\ AddInv /\ UseInv
  BY DEF IInv
<1>5. command = "lock" /\ stack = <<>> /\ Handed \subseteq ended \ failed
  BY <1>1, <1>4, NoElements DEF TypeOK, AddInv, LockInv
<1>6. (\A d \in Dir : trees[d] = In(d)) /\ File = ended \ failed
  BY <1>4, <1>5, WalkedAll DEF TypeOK
<1>7. MainInv'
  BY <1>1, <1>2, <1>3, <1>4 DEF MainInv
<1>8. LockInv'
  BY <1>1, <1>2, <1>6 DEF LockInv, In
<1>9. AddInv'
  BY <1>2, <1>5 DEF AddInv
<1>10. UseInv'
  BY <1>1, <1>2, <1>4 DEF UseInv
<1>11. /\ closed' \in BOOLEAN /\ gone' \in BOOLEAN /\ members' \in {"all", "store", "none"}
       /\ result' \in {"none", "ok", "error"} /\ head' \in BOOLEAN /\ futures' \in Seq(File)
       /\ main # "enqueue" /\ main' # "enqueue" /\ main' \in Labels
  BY <1>1, <1>2, <1>4 DEF TypeOK, Labels
<1>12. gone' => queue = <<>> /\ Running = {}
  BY <1>2 DEF IInv, PoolInv
<1> QED
  BY <1>1, <1>2, <1>7, <1>8, <1>9, <1>10, <1>11, <1>12, MainStep

LEMMA CommitStep == IInv /\ Commit => IInv'
<1> SUFFICES ASSUME IInv, Commit PROVE IInv'
  OBVIOUS
<1>1. /\ main = "commit" /\ main' = "unwind" /\ UNCHANGED poolVars /\ UNCHANGED taskVars
      /\ UNCHANGED <<command, stack, current, futures, trees, total_uploads>>
      /\ UNCHANGED <<temporary, members>> /\ head' = TRUE /\ result' = "ok"
  BY DEF Commit, At, Go
<1>2. /\ UNCHANGED <<queue, running, ended, closed, gone>> /\ UNCHANGED <<failed, touched>>
  BY <1>1 DEF poolVars, taskVars
<1>3. Handed' = Handed /\ Running' = Running
  BY <1>2, PoolSame
<1>4. TypeOK /\ MainInv /\ LockInv /\ AddInv /\ UseInv
  BY DEF IInv
<1>5. MainInv'
  BY <1>1, <1>2, <1>3, <1>4 DEF MainInv
<1>6. LockInv'
  BY <1>1, <1>2, <1>4 DEF LockInv, In
<1>7. AddInv'
  BY <1>1 DEF AddInv
<1>8. UseInv'
  <2>1. touched = {}
    BY <1>1, <1>4 DEF UseInv, MainInv
  <2> QED
    BY <1>1, <1>2, <2>1 DEF UseInv
<1>9. /\ closed' \in BOOLEAN /\ gone' \in BOOLEAN /\ members' \in {"all", "store", "none"}
      /\ result' \in {"none", "ok", "error"} /\ head' \in BOOLEAN /\ futures' \in Seq(File)
      /\ main # "enqueue" /\ main' # "enqueue" /\ main' \in Labels
  BY <1>1, <1>2, <1>4 DEF TypeOK, Labels
<1>10. gone' => queue = <<>> /\ Running = {}
  BY <1>2 DEF IInv, PoolInv
<1> QED
  BY <1>1, <1>2, <1>5, <1>6, <1>7, <1>8, <1>9, <1>10, MainStep

(* A step of the destruction: the pool and the members of the engine, nothing else *)
LEMMA DestroyStep ==
  ASSUME IInv, main \in {"unwind", "pool", "join", "store"},
         UNCHANGED <<queue, running, ended>>, UNCHANGED taskVars, UNCHANGED walkVars,
         UNCHANGED <<temporary, result>>,
         main' \in {"pool", "join", "store", "exited"},
         members' = IF main' = "exited" THEN "none" ELSE "store",
         closed' \in BOOLEAN, closed' <=> main' # "pool",
         gone' \in BOOLEAN, gone' <=> main' \in {"store", "exited"},
         gone' => queue = <<>> /\ Running = {}
  PROVE  IInv'
<1>1. /\ UNCHANGED <<failed, touched>>
      /\ UNCHANGED <<command, stack, current, futures, trees, head, total_uploads>>
  BY DEF taskVars, walkVars
<1>2. Handed' = Handed /\ Running' = Running
  BY PoolSame
<1>3. TypeOK /\ MainInv /\ LockInv /\ AddInv /\ UseInv
  BY DEF IInv
<1>4. MainInv'
  BY <1>1, <1>2, <1>3 DEF MainInv
<1>5. LockInv'
  BY <1>1, <1>3 DEF LockInv, In
<1>6. AddInv'
  BY <1>1 DEF AddInv
<1>7. UseInv'
  BY <1>1, <1>3 DEF UseInv
<1>8. /\ closed' \in BOOLEAN /\ gone' \in BOOLEAN /\ members' \in {"all", "store", "none"}
      /\ result' \in {"none", "ok", "error"} /\ head' \in BOOLEAN /\ futures' \in Seq(File)
      /\ main # "enqueue" /\ main' # "enqueue" /\ main' \in Labels
  BY <1>1, <1>3 DEF TypeOK, Labels
<1> QED
  BY <1>1, <1>4, <1>5, <1>6, <1>7, <1>8, MainStep

LEMMA DestroySteps == IInv /\ Destroy => IInv'
<1> SUFFICES ASSUME IInv, Destroy PROVE IInv'
  OBVIOUS
<1>0. MainInv /\ PoolInv /\ closed \in BOOLEAN /\ gone \in BOOLEAN
  BY DEF IInv, TypeOK
<1>1. ASSUME DestroyProgress PROVE IInv'
  <2>1. /\ main = "unwind" /\ main' = "pool" /\ members' = "store"
        /\ UNCHANGED <<queue, running, ended, closed, gone>>
        /\ UNCHANGED taskVars /\ UNCHANGED walkVars /\ UNCHANGED <<temporary, result>>
    BY <1>1 DEF DestroyProgress, At, Go, poolVars
  <2>2. ~closed' /\ ~gone'
    BY <1>0, <2>1 DEF MainInv
  <2>3. /\ closed' \in BOOLEAN /\ gone' \in BOOLEAN
        /\ (closed' <=> main' # "pool") /\ (gone' <=> main' \in {"store", "exited"})
        /\ members' = IF main' = "exited" THEN "none" ELSE "store"
        /\ gone' => queue = <<>> /\ Running = {}
        /\ main \in {"unwind", "pool", "join", "store"}
        /\ main' \in {"pool", "join", "store", "exited"}
    BY <1>0, <2>1, <2>2
  <2> QED
    BY <2>1, <2>3, DestroyStep
<1>2. ASSUME DestroyPool PROVE IInv'
  <2>1. /\ main = "pool" /\ main' = "join" /\ members' = members /\ closed'
        /\ UNCHANGED <<queue, running, ended, gone>>
        /\ UNCHANGED taskVars /\ UNCHANGED walkVars /\ UNCHANGED <<temporary, result>>
    BY <1>2 DEF DestroyPool, At, Go, Pool!Close
  <2>2. ~gone' /\ members' = "store"
    BY <1>0, <2>1 DEF MainInv
  <2>3. /\ closed' \in BOOLEAN /\ gone' \in BOOLEAN
        /\ (closed' <=> main' # "pool") /\ (gone' <=> main' \in {"store", "exited"})
        /\ members' = IF main' = "exited" THEN "none" ELSE "store"
        /\ gone' => queue = <<>> /\ Running = {}
        /\ main \in {"unwind", "pool", "join", "store"}
        /\ main' \in {"pool", "join", "store", "exited"}
    BY <1>0, <2>1, <2>2
  <2> QED
    BY <2>1, <2>3, DestroyStep
<1>3. ASSUME JoinPool PROVE IInv'
  <2>1. /\ main = "join" /\ main' = "store" /\ members' = members /\ gone'
        /\ UNCHANGED <<queue, running, ended, closed>> /\ closed
        /\ queue = <<>> /\ \A w \in Worker : running[w] = Nothing
        /\ UNCHANGED taskVars /\ UNCHANGED walkVars /\ UNCHANGED <<temporary, result>>
    BY <1>3 DEF JoinPool, At, Go, Pool!Gone, Pool!Busy
  <2>2. closed' /\ members' = "store" /\ Running = {}
    BY <1>0, <2>1 DEF MainInv, Running
  <2>3. /\ closed' \in BOOLEAN /\ gone' \in BOOLEAN
        /\ (closed' <=> main' # "pool") /\ (gone' <=> main' \in {"store", "exited"})
        /\ members' = IF main' = "exited" THEN "none" ELSE "store"
        /\ gone' => queue = <<>> /\ Running = {}
        /\ main \in {"unwind", "pool", "join", "store"}
        /\ main' \in {"pool", "join", "store", "exited"}
    BY <1>0, <2>1, <2>2
  <2> QED
    BY <2>1, <2>3, DestroyStep
<1>4. ASSUME DestroyStore PROVE IInv'
  <2>1. /\ main = "store" /\ main' = "exited" /\ members' = "none"
        /\ UNCHANGED <<queue, running, ended, closed, gone>>
        /\ UNCHANGED taskVars /\ UNCHANGED walkVars /\ UNCHANGED <<temporary, result>>
    BY <1>4 DEF DestroyStore, At, Go, poolVars
  <2>2. closed' /\ gone' /\ queue = <<>> /\ Running = {}
    BY <1>0, <2>1 DEF MainInv, PoolInv
  <2>3. /\ closed' \in BOOLEAN /\ gone' \in BOOLEAN
        /\ (closed' <=> main' # "pool") /\ (gone' <=> main' \in {"store", "exited"})
        /\ members' = IF main' = "exited" THEN "none" ELSE "store"
        /\ gone' => queue = <<>> /\ Running = {}
        /\ main \in {"unwind", "pool", "join", "store"}
        /\ main' \in {"pool", "join", "store", "exited"}
    BY <1>0, <2>1, <2>2
  <2> QED
    BY <2>1, <2>3, DestroyStep
<1> QED
  BY <1>1, <1>2, <1>3, <1>4 DEF Destroy

----------------------------------------------------------------------------
(* The steps of the walk *)

LEMMA EnterStep == ASSUME IInv, NEW d \in Dir, Enter(d) PROVE IInv'
<1>1. /\ main = "walk" /\ d \in Top.left /\ stack' = Append(Keep(d), Call(d))
      /\ UNCHANGED poolVars /\ UNCHANGED taskVars
      /\ UNCHANGED <<command, current, futures, trees, head, total_uploads>>
      /\ UNCHANGED <<main, temporary, members, result>>
  BY DEF Enter, At
<1>2. UNCHANGED <<queue, running, ended, closed, gone>> /\ UNCHANGED <<failed, touched>>
  BY <1>1 DEF poolVars, taskVars
<1>3. Handed' = Handed /\ Running' = Running
  BY <1>2, PoolSame
<1>4. TypeOK /\ MainInv /\ LockInv /\ AddInv /\ UseInv /\ WalkInv /\ stack \in Seq(Frame)
  BY DEF IInv
<1>5. command = "lock" /\ stack # <<>>
  <2>1. d # Added
    BY UploadAssumption
  <2>2. command # "add"
    BY <1>1, <1>4, <2>1 DEF AddInv
  <2> QED
    BY <1>1, <1>4, <2>2 DEF TypeOK, LockInv
<1>6. stack' \in Seq(Frame) /\ stack' # <<>> /\ WalkInv'
  BY <1>1, <1>3, <1>4, <1>5, EnterWalk
<1>7. MainInv'
  BY <1>1, <1>2, <1>3, <1>4 DEF MainInv
<1>8. LockInv'
  BY <1>1, <1>2, <1>3, <1>4, <1>5, <1>6 DEF LockInv, MainInv
<1>9. AddInv' /\ UseInv'
  BY <1>1, <1>2, <1>4, <1>5 DEF AddInv, UseInv
<1>10. /\ closed' \in BOOLEAN /\ gone' \in BOOLEAN /\ members' \in {"all", "store", "none"}
       /\ result' \in {"none", "ok", "error"} /\ head' \in BOOLEAN /\ futures' \in Seq(File)
       /\ main # "enqueue" /\ main' # "enqueue" /\ main' \in Labels
       /\ trees' \in [Dir -> {Nothing} \cup SUBSET (File \cup Dir)]
  BY <1>1, <1>2, <1>4 DEF TypeOK
<1>11. gone' => queue = <<>> /\ Running = {}
  BY <1>2 DEF IInv, PoolInv
<1> QED
  BY <1>1, <1>2, <1>6, <1>7, <1>8, <1>9, <1>10, <1>11, QuietStep

LEMMA StoreTreeStep == IInv /\ StoreTree => IInv'
<1> SUFFICES ASSUME IInv, StoreTree PROVE IInv'
  OBVIOUS
<1>1. /\ main = "walk" /\ Top.left = {} /\ trees' = [trees EXCEPT ![Top.dir] = Top.kept]
      /\ stack' = SubSeq(stack, 1, Len(stack) - 1)
      /\ main' = IF Len(stack) = 1 THEN "wait" ELSE "walk"
      /\ UNCHANGED poolVars /\ UNCHANGED taskVars
      /\ UNCHANGED <<command, current, futures, head, total_uploads>>
      /\ UNCHANGED <<temporary, members, result>>
  BY DEF StoreTree, At, Go
<1>2. UNCHANGED <<queue, running, ended, closed, gone>> /\ UNCHANGED <<failed, touched>>
  BY <1>1 DEF poolVars, taskVars
<1>3. Handed' = Handed /\ Running' = Running
  BY <1>2, PoolSame
<1>4. TypeOK /\ MainInv /\ LockInv /\ AddInv /\ UseInv /\ WalkInv /\ stack \in Seq(Frame)
  BY DEF IInv
<1>5. command = "lock" /\ stack # <<>>
  <2>1. command # "add"
    BY <1>1, <1>4 DEF AddInv
  <2> QED
    BY <1>1, <1>4, <2>1 DEF TypeOK, LockInv
<1>6. trees \in [Dir -> {Nothing} \cup SUBSET (File \cup Dir)]
  BY <1>4 DEF TypeOK
<1>7. /\ stack' \in Seq(Frame) /\ Len(stack') = Len(stack) - 1 /\ WalkInv'
      /\ trees' \in [Dir -> {Nothing} \cup SUBSET (File \cup Dir)]
  BY <1>1, <1>3, <1>4, <1>5, <1>6, TreeWalk
<1>8. IF Len(stack) = 1 THEN stack' = <<>> ELSE stack' # <<>>
  <2>1. Len(stack) \in Nat \ {0} /\ Len(stack') \in Nat
    BY <1>4, <1>5, <1>7, TopFacts
  <2>2. Len(stack) = 1 <=> Len(stack') = 0
    BY <1>7, <2>1
  <2> QED
    BY <1>7, <2>2, EmptySeq
<1>9. MainInv'
  BY <1>1, <1>2, <1>3, <1>4 DEF MainInv
<1>10. LockInv'
  BY <1>1, <1>2, <1>3, <1>4, <1>5, <1>8 DEF LockInv, MainInv
<1>11. AddInv' /\ UseInv'
  BY <1>1, <1>2, <1>4, <1>5 DEF AddInv, UseInv
<1>12. /\ closed' \in BOOLEAN /\ gone' \in BOOLEAN /\ members' \in {"all", "store", "none"}
       /\ result' \in {"none", "ok", "error"} /\ head' \in BOOLEAN /\ futures' \in Seq(File)
       /\ main # "enqueue" /\ main' # "enqueue" /\ main' \in Labels
  BY <1>1, <1>2, <1>4 DEF TypeOK, Labels
<1>13. gone' => queue = <<>> /\ Running = {}
  BY <1>2 DEF IInv, PoolInv
<1> QED
  BY <1>1, <1>2, <1>7, <1>9, <1>10, <1>11, <1>12, <1>13, QuietStep

LEMMA StoreBlobStep == ASSUME IInv, NEW f \in File, StoreBlob(f) PROVE IInv'
<1>1. /\ main = "walk" /\ f \in Top.left /\ main' = "encrypt"
      /\ total_uploads' = total_uploads + 1 /\ current' = f
      /\ UNCHANGED poolVars /\ UNCHANGED taskVars
      /\ UNCHANGED <<command, stack, futures, trees, head>>
      /\ UNCHANGED <<temporary, members, result>>
  BY DEF StoreBlob, At, Go
<1>2. /\ UNCHANGED <<queue, running, ended, closed, gone>>
      /\ UNCHANGED <<task, done, failed, uploaded, finished_uploads, lines, touched>>
  BY <1>1 DEF poolVars, taskVars
<1>3. /\ Handed' = Handed /\ Running' = Running /\ Elements(queue)' = Elements(queue)
      /\ Finished' = Finished
  BY <1>2, PoolSame DEF Finished
<1>4. /\ TypeOK /\ PoolInv /\ TaskInv /\ MainInv /\ TempInv /\ CountInv /\ WalkInv
      /\ LockInv /\ AddInv /\ UseInv /\ stack \in Seq(Frame)
  BY DEF IInv
<1>5. f \notin Handed
  <2>1. CASE command = "lock"
    BY <1>1, <1>4, <2>1, FreshEntry DEF LockInv
  <2>2. CASE command = "add"
    BY <1>1, <1>4, <2>2 DEF AddInv
  <2> QED
    BY <1>4, <2>1, <2>2 DEF TypeOK
<1>6. BaseType
  BY <1>4, TypeBase
<1>7. BaseType'
  BY <1>1, <1>2, <1>6 DEF BaseType, Labels
<1>8. PoolInv' /\ TaskInv' /\ WalkInv'
  BY <1>1, <1>2, <1>3, <1>4, TaskSame, WalkSame DEF PoolInv
<1>9. CountInv'
  <2>1. Counted = Handed /\ Counted' = Handed \cup {f}
    BY <1>1, <1>3, <1>4, UploadAssumption DEF Counted, MainInv
  <2>2. IsFiniteSet(Counted) /\ f \notin Counted
    BY <1>4, <1>5, <1>6, <2>1, CountedFiles
  <2>3. Cardinality(Counted') = Cardinality(Counted) + 1
    BY <2>1, <2>2, FS_AddElement
  <2> QED
    BY <1>1, <1>2, <1>3, <1>4, <2>3 DEF CountInv
<1>10. TempInv'
  BY <1>1, <1>2, <1>3, <1>4 DEF TempInv
<1>11. MainInv'
  BY <1>1, <1>2, <1>3, <1>4, <1>5 DEF MainInv
<1>12. LockInv'
  BY <1>1, <1>2, <1>3, <1>4 DEF LockInv, MainInv, Top
<1>13. AddInv' /\ UseInv'
  BY <1>1, <1>2, <1>3, <1>4 DEF AddInv, UseInv, Top
<1> QED
  BY <1>1, <1>4, <1>7, <1>8, <1>9, <1>10, <1>11, <1>12, <1>13, TypeNext DEF IInv

LEMMA EncryptStep == IInv /\ Encrypt => IInv'
<1> SUFFICES ASSUME IInv, Encrypt PROVE IInv'
  OBVIOUS
<1>1. /\ main = "encrypt" /\ main' = "enqueue" /\ temporary' = temporary \cup {current}
      /\ UNCHANGED poolVars /\ UNCHANGED taskVars /\ UNCHANGED walkVars
      /\ UNCHANGED <<members, result>>
  BY DEF Encrypt, At, Go
<1>2. /\ UNCHANGED <<queue, running, ended, closed, gone>>
      /\ UNCHANGED <<task, done, failed, uploaded, finished_uploads, lines, touched>>
      /\ UNCHANGED <<command, stack, current, futures, trees, head, total_uploads>>
  BY <1>1 DEF poolVars, taskVars, walkVars
<1>3. /\ Handed' = Handed /\ Running' = Running /\ Elements(queue)' = Elements(queue)
      /\ Counted' = Counted
  BY <1>2, PoolSame DEF Counted
<1>4. /\ TypeOK /\ PoolInv /\ TaskInv /\ MainInv /\ TempInv /\ CountInv /\ WalkInv
      /\ LockInv /\ AddInv /\ UseInv /\ stack \in Seq(Frame)
  BY DEF IInv
<1>5. current \in File
  BY <1>1, <1>4 DEF MainInv
<1>6. BaseType
  BY <1>4, TypeBase
<1>7. BaseType'
  BY <1>1, <1>2, <1>5, <1>6 DEF BaseType, Labels
<1>8. PoolInv' /\ TaskInv' /\ WalkInv'
  BY <1>2, <1>3, <1>4, TaskSame, WalkSame DEF PoolInv
<1>9. CountInv'
  BY <1>2, <1>3, <1>4, CountSame
<1>10. TempInv'
  BY <1>1, <1>2, <1>3, <1>4 DEF TempInv
<1>11. MainInv'
  BY <1>1, <1>2, <1>3, <1>4 DEF MainInv
<1>12. LockInv'
  BY <1>1, <1>2, <1>3, <1>4 DEF LockInv, MainInv, Top
<1>13. AddInv' /\ UseInv'
  BY <1>1, <1>2, <1>3, <1>4 DEF AddInv, UseInv, Top
<1> QED
  BY <1>2, <1>4, <1>7, <1>8, <1>9, <1>10, <1>11, <1>12, <1>13, TypeNext DEF IInv

LEMMA EnqueueStep == IInv /\ Enqueue => IInv'
<1> SUFFICES ASSUME IInv, Enqueue PROVE IInv'
  OBVIOUS
<1>1. /\ main = "enqueue" /\ Pool!Submit(current) /\ futures' = Append(futures, current)
      /\ stack' = Keep(current) /\ current' = Nothing
      /\ main' = IF command = "add" THEN "commit" ELSE "walk"
      /\ UNCHANGED taskVars /\ UNCHANGED <<command, trees, head, total_uploads>>
      /\ UNCHANGED <<temporary, members, result>>
  BY DEF Enqueue, At, Go
<1>2. UNCHANGED <<task, done, failed, uploaded, finished_uploads, lines, touched>>
  BY <1>1 DEF taskVars
<1>3. /\ TypeOK /\ PoolInv /\ TaskInv /\ MainInv /\ TempInv /\ CountInv /\ WalkInv
      /\ LockInv /\ AddInv /\ UseInv /\ stack \in Seq(Frame)
  BY DEF IInv
<1>4. current \in File /\ ~gone
  BY <1>1, <1>3 DEF MainInv
<1>5. /\ PoolInv' /\ Elements(queue)' = Elements(queue) \cup {current} /\ queue' \in Seq(File)
      /\ current \notin Handed /\ Handed' = Handed \cup {current}
      /\ UNCHANGED <<running, ended, closed, gone>>
  BY <1>1, <1>3, <1>4, SubmitStep
<1>6. Running' = Running
  BY <1>5 DEF Running
<1>7. futures \in Seq(File)
  BY <1>3 DEF TypeOK
<1>8. futures' \in Seq(File) /\ Elements(futures') = Elements(futures) \cup {current}
  BY <1>1, <1>4, <1>7, AppendElements
<1>9. BaseType
  BY <1>3, TypeBase
<1>10. BaseType'
  BY <1>1, <1>2, <1>5, <1>8, <1>9 DEF BaseType, Labels
<1>11. Nothing \notin Handed'
  <2>1. Counted \subseteq File
    BY <1>3, <1>9, CountedFiles
  <2> QED
    BY <1>4, <1>5, <2>1, UploadAssumption DEF Counted
<1>12. TaskInv'
  BY <1>2, <1>3, <1>5, TaskSame
<1>13. CountInv'
  <2>1. Counted' = Counted
    BY <1>1, <1>4, <1>5, UploadAssumption DEF Counted
  <2>2. Finished' = Finished
    BY <1>2, <1>5 DEF Finished
  <2> QED
    BY <1>1, <1>2, <1>3, <2>1, <2>2 DEF CountInv
<1>14. TempInv'
  BY <1>1, <1>2, <1>3, <1>5, <1>6 DEF TempInv
<1>15. MainInv'
  BY <1>1, <1>3, <1>5, <1>11 DEF MainInv
<1>16. CASE command = "lock"
  <2>1. stack # <<>> /\ current \in Top.left
    BY <1>1, <1>3, <1>16 DEF LockInv
  <2>2. stack' \in Seq(Frame) /\ stack' # <<>> /\ WalkInv'
    BY <1>1, <1>3, <1>4, <1>5, <1>16, <2>1, FileWalk
  <2>3. LockInv'
    BY <1>1, <1>2, <1>3, <1>5, <1>8, <1>16, <2>2 DEF LockInv, MainInv
  <2>4. AddInv' /\ UseInv'
    BY <1>1, <1>2, <1>3, <1>16 DEF AddInv, UseInv
  <2> QED
    BY <1>5, <1>10, <1>12, <1>13, <1>14, <1>15, <2>2, <2>3, <2>4, TypeNext DEF IInv
<1>17. CASE command = "add"
  <2>1. stack # <<>>
    BY <1>1, <1>3, <1>17 DEF AddInv
  <2>2. stack' \in Seq(Frame)
    BY <1>1, <1>3, <1>4, <2>1, KeepFacts
  <2>3. LockInv' /\ WalkInv'
    BY <1>1, <1>17 DEF LockInv, WalkInv
  <2>4. AddInv' /\ UseInv'
    BY <1>1, <1>2, <1>3, <1>17 DEF AddInv, UseInv
  <2> QED
    BY <1>5, <1>10, <1>12, <1>13, <1>14, <1>15, <2>2, <2>3, <2>4, TypeNext DEF IInv
<1> QED
  BY <1>3, <1>16, <1>17 DEF TypeOK

----------------------------------------------------------------------------
(* The steps of a task *)

(* A thread in a task holds a file, which is in no other place. *)
LEMMA BusyFacts ==
  ASSUME IInv, NEW w \in Worker, task[w] # "none"
  PROVE  /\ running[w] \in File /\ running[w] \in Running /\ running[w] \in Handed
         /\ running[w] \notin ended /\ running[w] \notin failed
         /\ running[w] \notin Elements(queue) /\ running[w] # current
         /\ \A v \in Worker \ {w} : running[v] # running[w]
<1>1. TypeOK /\ PoolInv /\ TaskInv /\ MainInv
  BY DEF IInv
<1>2. running[w] \in File /\ running[w] # Nothing
  BY <1>1 DEF TypeOK, TaskInv
<1>3. running[w] \in Running /\ running[w] \in Handed
  BY <1>2 DEF Running, Handed
<1> QED
  BY <1>1, <1>2, <1>3 DEF PoolInv, TaskInv, MainInv

LEMMA StartTaskStep == ASSUME IInv, NEW w \in Worker, StartTask(w) PROVE IInv'
<1>1. /\ Pool!Start(w) /\ task' = [task EXCEPT ![w] = "upload"]
      /\ UNCHANGED <<done, failed, uploaded, finished_uploads, lines, touched>>
      /\ UNCHANGED walkVars /\ UNCHANGED <<main, temporary, members, result>>
  BY DEF StartTask, Step
<1>2. /\ TypeOK /\ PoolInv /\ TaskInv /\ MainInv /\ TempInv /\ CountInv
  BY DEF IInv
<1>3. /\ PoolInv' /\ queue' \in Seq(File)
      /\ running[w] = Nothing /\ running'[w] \in Elements(queue)
      /\ running' \in [Worker -> File \cup {Nothing}]
      /\ \A v \in Worker \ {w} : running'[v] = running[v]
      /\ (Elements(queue) \cup Running)' = Elements(queue) \cup Running
      /\ Handed' = Handed
      /\ UNCHANGED <<ended, closed, gone>>
  BY <1>1, <1>2, StartStep
<1>4. BaseType
  BY <1>2, TypeBase
<1>5. /\ task' \in [Worker -> TaskLabels] /\ task'[w] = "upload" /\ task[w] = "none"
      /\ \A v \in Worker \ {w} : task'[v] = task[v]
  BY <1>1, <1>2, <1>3, <1>4 DEF BaseType, TaskLabels, TaskInv
<1>6. running'[w] # Nothing
  BY <1>3, <1>4, UploadAssumption DEF Elements, BaseType
<1>7. TaskInv'
  BY <1>1, <1>2, <1>3, <1>5, <1>6 DEF TaskInv
<1>8. UNCHANGED <<current, total_uploads>>
  BY <1>1 DEF walkVars
<1>9. TempInv'
  BY <1>1, <1>2, <1>3, <1>8 DEF TempInv
<1>10. CountInv'
  <2>1. Counted' = Counted
    BY <1>3, <1>8 DEF Counted
  <2>2. {running'[v] : v \in {u \in Worker : task'[u] \in {"report", "remove"}}}
        = {running[v] : v \in {u \in Worker : task[u] \in {"report", "remove"}}}
    BY <1>3, <1>5
  <2>3. Finished' = Finished
    BY <1>1, <1>3, <2>2 DEF Finished
  <2> QED
    BY <1>1, <1>2, <1>5, <1>8, <2>1, <2>3 DEF CountInv
<1> QED
  BY <1>1, <1>3, <1>4, <1>5, <1>7, <1>9, <1>10, TaskStep DEF BaseType

LEMMA UploadStep == ASSUME IInv, NEW w \in Worker, Upload(w) PROVE IInv'
<1>1. /\ task[w] = "upload" /\ uploaded' = uploaded \cup {running[w]} /\ Uses("store")
      /\ task' = [task EXCEPT ![w] = "count"]
      /\ UNCHANGED poolVars /\ UNCHANGED <<done, failed, finished_uploads, lines>>
      /\ UNCHANGED walkVars /\ UNCHANGED <<main, temporary, members, result>>
  BY DEF Upload, Step
<1>2. UNCHANGED <<queue, running, ended, closed, gone>> /\ UNCHANGED <<current, total_uploads>>
  BY <1>1 DEF poolVars, walkVars
<1>3. /\ Handed' = Handed /\ Running' = Running /\ Elements(queue)' = Elements(queue)
      /\ Counted' = Counted
  BY <1>2, PoolSame DEF Counted
<1>4. /\ TypeOK /\ PoolInv /\ TaskInv /\ MainInv /\ TempInv /\ CountInv
  BY DEF IInv
<1>5. BaseType
  BY <1>4, TypeBase
<1>6. running[w] \in File /\ running[w] \in Running
  BY <1>1, BusyFacts
<1>7. /\ task' \in [Worker -> TaskLabels] /\ task'[w] = "count"
      /\ \A v \in Worker \ {w} : task'[v] = task[v]
  BY <1>1, <1>5 DEF BaseType, TaskLabels
<1>8. PoolInv' /\ TempInv'
  BY <1>1, <1>2, <1>3, <1>4 DEF PoolInv, TempInv
<1>9. TaskInv'
  BY <1>1, <1>2, <1>4, <1>7 DEF TaskInv
<1>10. CountInv'
  <2>1. {u \in Worker : task'[u] \in {"report", "remove"}}
        = {u \in Worker : task[u] \in {"report", "remove"}}
    BY <1>1, <1>7
  <2>2. Finished' = Finished
    BY <1>1, <1>2, <2>1 DEF Finished
  <2> QED
    BY <1>1, <1>2, <1>3, <1>4, <1>7, <2>2 DEF CountInv
<1>11. uploaded' \subseteq File /\ queue' \in Seq(File)
  BY <1>1, <1>2, <1>5, <1>6 DEF BaseType
<1>12. Running # {} /\ \E m \in {"store", "progress"} : Uses(m)
  BY <1>1, <1>6
<1> QED
  BY <1>1, <1>2, <1>3, <1>5, <1>7, <1>8, <1>9, <1>10, <1>11, <1>12, TaskStep DEF BaseType

LEMMA UploadFailsStep == ASSUME IInv, NEW w \in Worker, UploadFails(w) PROVE IInv'
<1>1. /\ task[w] = "upload" /\ uploaded' \in {uploaded, uploaded \cup {running[w]}}
      /\ Uses("store") /\ failed' = failed \cup {running[w]} /\ Pool!Finish(w)
      /\ task' = [task EXCEPT ![w] = "none"]
      /\ UNCHANGED <<done, finished_uploads, lines>>
      /\ UNCHANGED walkVars /\ UNCHANGED <<main, temporary, members, result>>
  BY DEF UploadFails, Step
<1>2. /\ TypeOK /\ PoolInv /\ TaskInv /\ MainInv /\ TempInv /\ CountInv
  BY DEF IInv
<1>3. /\ PoolInv'
      /\ running[w] \in File /\ running'[w] = Nothing
      /\ running[w] \notin Elements(queue) /\ running[w] \notin ended
      /\ running' \in [Worker -> File \cup {Nothing}]
      /\ \A v \in Worker \ {w} : running'[v] = running[v] /\ running[v] # running[w]
      /\ Running' = Running \ {running[w]} /\ ended' = ended \cup {running[w]}
      /\ Handed' = Handed
      /\ UNCHANGED <<queue, closed, gone>>
  BY <1>1, <1>2, FinishStep
<1>4. BaseType
  BY <1>2, TypeBase
<1>5. /\ task' \in [Worker -> TaskLabels] /\ task'[w] = "none"
      /\ \A v \in Worker \ {w} : task'[v] = task[v]
  BY <1>1, <1>4 DEF BaseType, TaskLabels
<1>6. running[w] \in Running /\ running[w] \notin failed
  BY <1>1, BusyFacts
<1>7. UNCHANGED <<current, total_uploads>>
  BY <1>1 DEF walkVars
<1>8. ended' \ failed' = ended \ failed
  BY <1>1, <1>3, <1>6
<1>9. TaskInv'
  <2>1. \A v \in Worker : task'[v] \in {"count", "report", "remove"} => running'[v] \in uploaded'
    BY <1>1, <1>2, <1>3, <1>5 DEF TaskInv
  <2>2. \A v \in Worker : task'[v] = "none" <=> running'[v] = Nothing
    BY <1>2, <1>3, <1>5 DEF TaskInv
  <2> QED
    BY <1>1, <1>2, <1>3, <1>8, <2>1, <2>2 DEF TaskInv
<1>10. TempInv'
  BY <1>1, <1>2, <1>3, <1>6, <1>7 DEF TempInv
<1>11. CountInv'
  <2>1. Counted' = Counted
    BY <1>3, <1>7 DEF Counted
  <2>2. {running'[v] : v \in {u \in Worker : task'[u] \in {"report", "remove"}}}
        = {running[v] : v \in {u \in Worker : task[u] \in {"report", "remove"}}}
    BY <1>1, <1>3, <1>5
  <2>3. Finished' = Finished
    BY <1>8, <2>2 DEF Finished
  <2> QED
    BY <1>1, <1>2, <1>5, <1>7, <2>1, <2>3 DEF CountInv
<1>12. uploaded' \subseteq File /\ queue' \in Seq(File) /\ ended' \subseteq File /\ failed' \subseteq File
  BY <1>1, <1>3, <1>4 DEF BaseType
<1>13. Running # {} /\ \E m \in {"store", "progress"} : Uses(m)
  BY <1>1, <1>6
<1> QED
  BY <1>1, <1>3, <1>4, <1>5, <1>8, <1>9, <1>10, <1>11, <1>12, <1>13, TaskStep DEF BaseType

LEMMA CountStep == ASSUME IInv, NEW w \in Worker, Count(w) PROVE IInv'
<1>1. /\ task[w] = "count" /\ finished_uploads' = finished_uploads + 1
      /\ done' = [done EXCEPT ![w] = finished_uploads + 1] /\ Uses("progress")
      /\ task' = [task EXCEPT ![w] = "report"]
      /\ UNCHANGED poolVars /\ UNCHANGED <<failed, uploaded, lines>>
      /\ UNCHANGED walkVars /\ UNCHANGED <<main, temporary, members, result>>
  BY DEF Count, Step
<1>2. UNCHANGED <<queue, running, ended, closed, gone>> /\ UNCHANGED <<current, total_uploads>>
  BY <1>1 DEF poolVars, walkVars
<1>3. /\ Handed' = Handed /\ Running' = Running /\ Elements(queue)' = Elements(queue)
      /\ Counted' = Counted
  BY <1>2, PoolSame DEF Counted
<1>4. /\ TypeOK /\ PoolInv /\ TaskInv /\ MainInv /\ TempInv /\ CountInv
  BY DEF IInv
<1>5. BaseType
  BY <1>4, TypeBase
<1>6. /\ running[w] \in File /\ running[w] \in Running /\ running[w] \notin ended
      /\ \A v \in Worker \ {w} : running[v] # running[w]
  BY <1>1, BusyFacts
<1>7. /\ task' \in [Worker -> TaskLabels] /\ task'[w] = "report"
      /\ \A v \in Worker \ {w} : task'[v] = task[v]
  BY <1>1, <1>5 DEF BaseType, TaskLabels
<1>8. PoolInv' /\ TempInv'
  BY <1>1, <1>2, <1>3, <1>4 DEF PoolInv, TempInv
<1>9. TaskInv'
  BY <1>1, <1>2, <1>4, <1>7 DEF TaskInv
<1>10. finished_uploads \in Nat /\ finished_uploads = Cardinality(Finished)
  BY <1>4, <1>5, CountedFiles DEF CountInv
<1>11. /\ done' \in [Worker -> Nat] /\ done'[w] = finished_uploads + 1
       /\ \A v \in Worker \ {w} : done'[v] = done[v]
  BY <1>1, <1>5, <1>10 DEF BaseType
<1>12. CountInv'
  <2>1. {u \in Worker : task'[u] \in {"report", "remove"}}
        = {u \in Worker : task[u] \in {"report", "remove"}} \cup {w}
    BY <1>7
  <2>2. Finished' = Finished \cup {running[w]}
    BY <1>1, <1>2, <2>1 DEF Finished
  <2>3. running[w] \notin Finished
    BY <1>1, <1>6 DEF Finished
  <2>4. IsFiniteSet(Finished)
    BY <1>4, <1>5, CountedFiles
  <2>5. finished_uploads' = Cardinality(Finished')
    BY <1>1, <1>10, <2>2, <2>3, <2>4, FS_AddElement
  <2>6. \A v \in Worker : done'[v] <= finished_uploads'
    <3>1. \A v \in Worker : done[v] \in Nat /\ done[v] <= finished_uploads
      BY <1>4, <1>5 DEF CountInv, BaseType
    <3> QED
      BY <1>1, <1>10, <1>11, <3>1
  <2>7. ASSUME NEW k \in 1..finished_uploads'
        PROVE  \/ \E v \in Worker : task'[v] = "report" /\ done'[v] = k
               \/ \E t \in Nat : k <= t /\ <<k, t>> \in lines'
    <3>1. k \in 1..finished_uploads \/ k = finished_uploads + 1
      BY <1>1, <1>10
    <3>2. CASE k = finished_uploads + 1
      BY <1>7, <1>11, <3>2
    <3>3. CASE k \in 1..finished_uploads
      <4>1. CASE \E v \in Worker : task[v] = "report" /\ done[v] = k
        BY <1>1, <1>7, <1>11, <4>1
      <4>2. CASE \E t \in Nat : k <= t /\ <<k, t>> \in lines
        BY <1>1, <4>2
      <4> QED
        BY <1>4, <3>3, <4>1, <4>2 DEF CountInv
    <3> QED
      BY <3>1, <3>2, <3>3
  <2>8. total_uploads' = Cardinality(Counted')
    BY <1>2, <1>3, <1>4 DEF CountInv
  <2>9. lines' \subseteq {l \in Nat \X Nat : l[1] <= l[2] /\ l[2] <= Cardinality(File)}
    BY <1>1, <1>4 DEF CountInv
  <2> QED
    BY <2>5, <2>6, <2>7, <2>8, <2>9 DEF CountInv
<1>13. queue' \in Seq(File) /\ Running # {} /\ \E m \in {"store", "progress"} : Uses(m)
  BY <1>1, <1>2, <1>5, <1>6 DEF BaseType
<1> QED
  BY <1>1, <1>2, <1>3, <1>5, <1>7, <1>8, <1>9, <1>11, <1>12, <1>13, TaskStep DEF BaseType

LEMMA ReportStep == ASSUME IInv, NEW w \in Worker, Report(w) PROVE IInv'
<1>1. /\ task[w] = "report" /\ lines' = lines \cup {<<done[w], total_uploads>>}
      /\ Uses("progress") /\ task' = [task EXCEPT ![w] = "remove"]
      /\ UNCHANGED poolVars /\ UNCHANGED <<done, failed, uploaded, finished_uploads>>
      /\ UNCHANGED walkVars /\ UNCHANGED <<main, temporary, members, result>>
  BY DEF Report, Step
<1>2. UNCHANGED <<queue, running, ended, closed, gone>> /\ UNCHANGED <<current, total_uploads>>
  BY <1>1 DEF poolVars, walkVars
<1>3. /\ Handed' = Handed /\ Running' = Running /\ Elements(queue)' = Elements(queue)
      /\ Counted' = Counted
  BY <1>2, PoolSame DEF Counted
<1>4. /\ TypeOK /\ PoolInv /\ TaskInv /\ MainInv /\ TempInv /\ CountInv
  BY DEF IInv
<1>5. BaseType
  BY <1>4, TypeBase
<1>6. running[w] \in Running
  BY <1>1, BusyFacts
<1>7. /\ task' \in [Worker -> TaskLabels] /\ task'[w] = "remove"
      /\ \A v \in Worker \ {w} : task'[v] = task[v]
  BY <1>1, <1>5 DEF BaseType, TaskLabels
<1>8. PoolInv' /\ TempInv'
  BY <1>1, <1>2, <1>3, <1>4 DEF PoolInv, TempInv
<1>9. TaskInv'
  BY <1>1, <1>2, <1>4, <1>7 DEF TaskInv
<1>10. /\ done[w] \in Nat /\ total_uploads \in Nat /\ done[w] <= total_uploads
       /\ total_uploads <= Cardinality(File)
  <2>1. /\ total_uploads \in Nat /\ finished_uploads \in Nat
        /\ finished_uploads <= total_uploads /\ total_uploads <= Cardinality(File)
    BY <1>4, <1>5, CountedFiles DEF CountInv
  <2>2. done[w] \in Nat /\ done[w] <= finished_uploads
    BY <1>4, <1>5 DEF CountInv, BaseType
  <2> QED
    BY <2>1, <2>2
<1>11. CountInv'
  <2>1. {u \in Worker : task'[u] \in {"report", "remove"}}
        = {u \in Worker : task[u] \in {"report", "remove"}}
    BY <1>1, <1>7
  <2>2. Finished' = Finished
    BY <1>1, <1>2, <2>1 DEF Finished
  <2>3. lines' \subseteq {l \in Nat \X Nat : l[1] <= l[2] /\ l[2] <= Cardinality(File)}
    BY <1>1, <1>4, <1>10 DEF CountInv
  <2>4. ASSUME NEW k \in 1..finished_uploads
        PROVE  \/ \E v \in Worker : task'[v] = "report" /\ done'[v] = k
               \/ \E t \in Nat : k <= t /\ <<k, t>> \in lines'
    <3>1. CASE k = done[w]
      BY <1>1, <1>10, <3>1
    <3>2. CASE \E v \in Worker : v # w /\ task[v] = "report" /\ done[v] = k
      BY <1>1, <1>7, <3>2
    <3>3. CASE \E t \in Nat : k <= t /\ <<k, t>> \in lines
      BY <1>1, <3>3
    <3> QED
      BY <1>4, <3>1, <3>2, <3>3 DEF CountInv
  <2> QED
    BY <1>1, <1>2, <1>3, <1>4, <2>2, <2>3, <2>4 DEF CountInv
<1>12. queue' \in Seq(File) /\ Running # {} /\ \E m \in {"store", "progress"} : Uses(m)
  BY <1>1, <1>2, <1>5, <1>6 DEF BaseType
<1> QED
  BY <1>1, <1>2, <1>3, <1>5, <1>7, <1>8, <1>9, <1>11, <1>12, TaskStep DEF BaseType

LEMMA EndTaskStep == ASSUME IInv, NEW w \in Worker, EndTask(w) PROVE IInv'
<1>1. /\ task[w] = "remove" /\ temporary' = temporary \ {running[w]} /\ Pool!Finish(w)
      /\ task' = [task EXCEPT ![w] = "none"]
      /\ UNCHANGED <<done, failed, uploaded, finished_uploads, lines, touched>>
      /\ UNCHANGED walkVars /\ UNCHANGED <<main, members, result>>
  BY DEF EndTask, Step
<1>2. /\ TypeOK /\ PoolInv /\ TaskInv /\ MainInv /\ TempInv /\ CountInv
  BY DEF IInv
<1>3. /\ PoolInv'
      /\ running[w] \in File /\ running'[w] = Nothing
      /\ running[w] \notin Elements(queue) /\ running[w] \notin ended
      /\ running' \in [Worker -> File \cup {Nothing}]
      /\ \A v \in Worker \ {w} : running'[v] = running[v] /\ running[v] # running[w]
      /\ Running' = Running \ {running[w]} /\ ended' = ended \cup {running[w]}
      /\ Handed' = Handed
      /\ UNCHANGED <<queue, closed, gone>>
  BY <1>1, <1>2, FinishStep
<1>4. BaseType
  BY <1>2, TypeBase
<1>5. /\ task' \in [Worker -> TaskLabels] /\ task'[w] = "none"
      /\ \A v \in Worker \ {w} : task'[v] = task[v]
  BY <1>1, <1>4 DEF BaseType, TaskLabels
<1>6. running[w] \in Running /\ running[w] \notin failed /\ running[w] # current
  BY <1>1, BusyFacts
<1>7. UNCHANGED <<current, total_uploads>>
  BY <1>1 DEF walkVars
<1>8. ended' \ failed' = (ended \ failed) \cup {running[w]}
  BY <1>1, <1>3, <1>6
<1>9. TaskInv'
  <2>1. \A v \in Worker : task'[v] \in {"count", "report", "remove"} => running'[v] \in uploaded'
    BY <1>1, <1>2, <1>3, <1>5 DEF TaskInv
  <2>2. \A v \in Worker : task'[v] = "none" <=> running'[v] = Nothing
    BY <1>2, <1>3, <1>5 DEF TaskInv
  <2>3. running[w] \in uploaded
    BY <1>1, <1>2 DEF TaskInv
  <2> QED
    BY <1>1, <1>2, <1>3, <1>8, <2>1, <2>2, <2>3 DEF TaskInv
<1>10. TempInv'
  BY <1>1, <1>2, <1>3, <1>6, <1>7 DEF TempInv
<1>11. CountInv'
  <2>1. Counted' = Counted
    BY <1>3, <1>7 DEF Counted
  <2>2. {running'[v] : v \in {u \in Worker : task'[u] \in {"report", "remove"}}} \cup {running[w]}
        = {running[v] : v \in {u \in Worker : task[u] \in {"report", "remove"}}}
    BY <1>1, <1>3, <1>5
  <2>3. Finished' = Finished
    BY <1>8, <2>2 DEF Finished
  <2> QED
    BY <1>1, <1>2, <1>5, <1>7, <2>1, <2>3 DEF CountInv
<1>12. temporary' \subseteq File /\ queue' \in Seq(File) /\ ended' \subseteq File
  BY <1>1, <1>3, <1>4 DEF BaseType
<1> QED
  BY <1>1, <1>3, <1>4, <1>5, <1>8, <1>9, <1>10, <1>11, <1>12, TaskStep DEF BaseType

----------------------------------------------------------------------------
LEMMA NextIInv == IInv /\ [Next]_vars => IInv'
<1> SUFFICES ASSUME IInv, [Next]_vars PROVE IInv'
  OBVIOUS
<1>1. ASSUME Walk PROVE IInv'
  BY <1>1, EnterStep, StoreBlobStep, StoreTreeStep, WalkFailsStep DEF Walk
<1>2. ASSUME Blob PROVE IInv'
  BY <1>2, EncryptStep, EncryptFailsStep, EnqueueStep DEF Blob
<1>3. ASSUME Wait PROVE IInv'
  BY <1>3, WaitGetsStep, WaitThrowsStep, WaitEndsStep DEF Wait
<1>4. ASSUME Publish PROVE IInv'
  BY <1>4, CommitStep, CommitFailsStep DEF Publish
<1>5. ASSUME Destroy PROVE IInv'
  BY <1>5, DestroySteps
<1>6. ASSUME NEW w \in Worker, Task(w) PROVE IInv'
  BY <1>6, StartTaskStep, UploadStep, UploadFailsStep, CountStep, ReportStep, EndTaskStep DEF Task
<1>7. ASSUME UNCHANGED vars PROVE IInv'
  <2>1. /\ UNCHANGED <<queue, running, ended, closed, gone>>
        /\ UNCHANGED <<task, done, failed, uploaded, finished_uploads, lines, touched>>
        /\ UNCHANGED <<command, stack, current, futures, trees, head, total_uploads>>
        /\ UNCHANGED <<main, temporary, members, result>>
    BY <1>7 DEF vars, poolVars, taskVars, walkVars
  <2>2. /\ TypeOK /\ PoolInv /\ TaskInv /\ MainInv /\ TempInv /\ CountInv /\ WalkInv
        /\ LockInv /\ AddInv /\ UseInv /\ stack \in Seq(Frame)
    BY DEF IInv
  <2>3. /\ Handed' = Handed /\ Running' = Running /\ Elements(queue)' = Elements(queue)
        /\ Counted' = Counted
    BY <2>1, PoolSame DEF Counted
  <2>4. TypeOK'
    BY <2>1, <2>2 DEF TypeOK
  <2>5. PoolInv' /\ TaskInv' /\ TempInv' /\ MainInv'
    BY <2>1, <2>2, <2>3 DEF PoolInv, TaskInv, TempInv, MainInv
  <2>6. CountInv' /\ WalkInv'
    BY <2>1, <2>2, <2>3, CountSame, WalkSame
  <2>7. LockInv' /\ AddInv' /\ UseInv'
    BY <2>1, <2>2, <2>3 DEF LockInv, AddInv, UseInv, Top, In
  <2> QED
    BY <2>1, <2>2, <2>4, <2>5, <2>6, <2>7 DEF IInv
<1> QED
  BY <1>1, <1>2, <1>3, <1>4, <1>5, <1>6, <1>7 DEF Next, Main

LEMMA SpecIInv == Spec => []IInv
<1> QED
  BY InitIInv, NextIInv, PTL DEF Spec

----------------------------------------------------------------------------
(* The theorems *)

(* The types of the variables of store_tree, store_blob, wait_for_uploads and their tasks, with
   the two counters in their order: no upload finishes that was not counted before, and no more
   are counted than there are files (vault_engine.cpp store_blob, total_uploads_). *)
THEOREM TypesHold == Spec => []TypeOK
<1>1. IInv => TypeOK
  BY DEF IInv
<1> QED
  BY <1>1, SpecIInv, PTL

(* init publishes no commit before the whole folder is in the cloud, for any folder: store_tree
   enters each of its folders once and stores its tree complete, every file it has met is in
   pending_uploads or finished without an exception, and wait_for_uploads rethrows the others. *)
THEOREM LockStoresTheWholeFolder == Spec => []LockComplete
<1>1. IInv => LockComplete
  BY DEF IInv, LockInv, TaskInv, TypeOK, LockComplete
<1> QED
  BY <1>1, SpecIInv, PTL

(* No task uses the store after the store is destroyed, and none uses the progress members after
   the engine has destroyed them when lock_vault succeeded: the pool's destructor joins the
   threads before the store ends, and a task still running means an upload not waited for. *)
THEOREM TasksUseWhatExists == Spec => []NoUseAfterDestroy
<1>1. IInv => NoUseAfterDestroy
  <2> SUFFICES ASSUME IInv PROVE NoUseAfterDestroy
    OBVIOUS
  <2>1. MainInv /\ UseInv
    BY DEF IInv
  <2> QED
    BY <2>1 DEF MainInv, UseInv, NoUseAfterDestroy, Succeeded
<1> QED
  BY <1>1, SpecIInv, PTL

(* The temporary files are at each moment those of the uploads queued, running or failed, and
   the one the guard in store_blob has just released; so when the process ends, with the queue
   drained by the pool's destructor, only those of the failed uploads are left. *)
THEOREM OnlyFailedUploadsLeaveFiles == Spec => []TemporaryFilesRemoved
<1>1. IInv => TemporaryFilesRemoved
  <2> SUFFICES ASSUME IInv, main = "exited" PROVE temporary = failed
    BY DEF TemporaryFilesRemoved
  <2>1. gone
    BY DEF IInv, MainInv
  <2>2. Elements(queue) = {} /\ Running = {}
    BY <2>1, NoElements DEF IInv, PoolInv
  <2> QED
    BY <2>2 DEF IInv, TempInv
<1> QED
  BY <1>1, SpecIInv, PTL

(* Whatever order the tasks draw their numbers and print in, no progress line counts more
   uploads than there are; and a lock_vault that succeeds has printed the line of all files. *)
THEOREM ProgressIsHonest == Spec => []ProgressHonest
<1>1. IInv => ProgressHonest
  <2> SUFFICES ASSUME IInv PROVE ProgressHonest
    OBVIOUS
  <2> DEFINE N == Cardinality(File)
  <2>1. /\ TypeOK /\ PoolInv /\ TaskInv /\ MainInv /\ CountInv /\ LockInv
    BY DEF IInv
  <2>2. BaseType
    BY <2>1, TypeBase
  <2>3. \A l \in lines : l[1] <= l[2]
    BY <2>1 DEF CountInv
  <2>4. ASSUME Succeeded PROVE <<N, N>> \in lines
    <3>1. File = ended \ failed /\ ended \subseteq File
      BY <2>1, <2>4 DEF Succeeded, MainInv, LockInv, TypeOK
    <3>2. \A w \in Worker : running[w] = Nothing
      BY <2>1, <2>2, <3>1 DEF PoolInv, Running, BaseType
    <3>3. \A w \in Worker : task[w] = "none"
      BY <2>1, <3>2 DEF TaskInv
    <3>4. Finished = File
      BY <3>1, <3>3 DEF Finished
    <3>5. finished_uploads = N
      BY <2>1, <3>4 DEF CountInv
    <3>6. N \in Nat /\ N # 0
      BY FileCount, FS_EmptySet, UploadAssumption
    <3>7. N \in 1..finished_uploads
      BY <3>5, <3>6
    <3>8. PICK t \in Nat : N <= t /\ <<N, t>> \in lines
      BY <2>1, <3>3, <3>7 DEF CountInv
    <3>9. t <= N
      BY <2>1, <3>8 DEF CountInv
    <3>10. t = N
      BY <3>6, <3>8, <3>9
    <3> QED
      BY <3>8, <3>10
  <2> QED
    BY <2>3, <2>4 DEF ProgressHonest
<1> QED
  BY <1>1, SpecIInv, PTL

=============================================================================
