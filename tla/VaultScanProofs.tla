-------------------------- MODULE VaultScanProofs --------------------------
(***************************************************************************)
(* Proofs about VaultScan: what quick-scan and deep-scan vouch for, and    *)
(* that list, tree and cat answer for the snapshot they began with, while  *)
(* any commands, uploads and losses change the vault under them.           *)
(*                                                                         *)
(* The objects a scan has still to visit (Rest) are those below the        *)
(* entries on its list.  No two entries lead to the same object, so each   *)
(* visit takes exactly one object from Rest, and the counts of a scan and  *)
(* Rest together are always the whole snapshot.                            *)
(***************************************************************************)
EXTENDS VaultScan, VaultEngineProofs, FiniteSetTheorems, SequenceTheorems

----------------------------------------------------------------------------
(* The inductive invariant, on top of IInv *)

Shape ==
  rd = [pc |-> rd.pc, op |-> rd.op, path |-> rd.path, head |-> rd.head, cur |-> rd.cur,
        lvl |-> rd.lvl, todo |-> rd.todo, stats |-> rd.stats]

ReadLabel == {"idle", "commit", "resolve", "blob", "visit", "hash", "done", "failed"}
Counts    == [trees : Nat, blobs : Nat, missing : Nat, hashed : Nat, errors : Nat]

AtScan == Scanning /\ rd.pc \in {"visit", "hash", "done"}

(* Reading, with the snapshot it began with *)
ReadInv ==
  /\ Shape /\ rd.pc \in ReadLabel
  /\ rd.head \in Commits \cup {NoHead, TornHead}
  /\ Reading \/ rd.pc = "done" => rd.head \in Commits
  /\ Reading => SoundFor(rd.op) \cap Whole \subseteq seen /\ kept \subseteq SoundFor(rd.op)
  /\ rd.pc \in {"resolve", "blob"} => ~Scanning
  /\ rd.pc = "hash" => rd.op = "deep"
  /\ rd.pc = "commit" => rd.stats = NoReport

(* What a scan has still to visit *)
AllOf(t)   == UNION {t[i] : i \in 1..Len(t)}
Todo       == AllOf(rd.todo)
ReachOf(S)  == UNION {reach[h] : h \in S}
Rest       == ReachOf(Todo)
Hashing    == IF rd.pc = "hash" THEN {rd.cur} ELSE {}

Parted(t) ==
  \A i, j \in 1..Len(t) : \A x \in t[i], y \in t[j] :
    reach[x] \cap reach[y] # {} => i = j /\ x = y

TodoInv ==
  AtScan =>
    /\ rd.todo \in Seq(SUBSET Hash) /\ Parted(rd.todo)
    /\ Rest \subseteq Whole
    /\ rd.pc = "done" => rd.todo = <<>>
    /\ rd.pc = "hash" => rd.cur \in BlobsIn(Whole)
    /\ rd.stats \in Counts

(* With R still to visit and the blob left (if any) to hash, a report s without an
   error vouches for all the rest of the snapshot. *)
Vouched(s, R, left) ==
  s.errors = 0 /\ s.missing = 0 => Whole \subseteq seen \cup R \cup left

CleanInv == AtScan => Vouched(rd.stats, Rest, Hashing)

(* What an undisturbed scan of a sound snapshot has counted *)
Tally(s, R, left) ==
  /\ s.trees + Cardinality(TreesIn(R)) = Cardinality(TreesIn(Whole))
  /\ s.blobs + Cardinality(BlobsIn(R)) = Cardinality(BlobsIn(Whole))
  /\ s.missing = 0 /\ s.errors = 0
  /\ rd.op = "quick" => s.hashed = 0
  /\ rd.op = "deep" => s.blobs = s.hashed + Cardinality(left)

Calm == Scanning /\ ~disturbed /\ Whole \subseteq kept

CountInv ==
  Calm => /\ rd.pc = "failed" => Whole = {}
          /\ AtScan => Tally(rd.stats, Rest, Hashing)

ScanInv == IInv /\ ReadInv /\ TodoInv /\ CleanInv /\ CountInv

----------------------------------------------------------------------------
(* The list of a scan: a stack of sets of siblings *)

(* The last level of the stack *)
LEMMA LastLevelFacts ==
  ASSUME NEW S, NEW t \in Seq(SUBSET S), t # <<>>
  PROVE  /\ Len(t) \in Nat \ {0} /\ Len(t) \in 1..Len(t)
         /\ Last(t) = t[Len(t)] /\ Last(t) \subseteq S
         /\ Front(t) \in Seq(SUBSET S) /\ Len(Front(t)) = Len(t) - 1
         /\ \A i \in 1..Len(Front(t)) : Front(t)[i] = t[i] /\ i \in 1..Len(t) /\ i # Len(t)
         /\ \A i \in 1..Len(t) : i = Len(t) \/ i \in 1..Len(Front(t))
<1> DEFINE m == Len(t) - 1
<1>1. Len(t) \in Nat \ {0} /\ Len(t) \in 1..Len(t) /\ \A i \in 1..Len(t) : t[i] \in SUBSET S
  OBVIOUS
<1>2. m \in Nat /\ \A i \in 1..m : i \in 1..Len(t) /\ i # Len(t)
  BY <1>1
<1>3. Front(t) = SubSeq(t, 1, m)
  BY DEF Front
<1>4. \A i \in 1..m : t[i] \in SUBSET S
  BY <1>1, <1>2
<1>5. Len(t) = m + 1
  BY <1>1
<1> HIDE DEF m
<1>6. /\ Front(t) \in Seq(SUBSET S) /\ Len(Front(t)) = IF 1 <= m THEN m - 1 + 1 ELSE 0
      /\ \A i \in 1..(m - 1 + 1) : Front(t)[i] = t[1 + i - 1]
  <2>1. m \in Int /\ 1 \in Int
    BY <1>2
  <2> QED
    BY <1>3, <1>4, <2>1, SubSeqProperties
<1>7. m - 1 + 1 = m /\ (m = 0 \/ 1 <= m)
  BY <1>2
<1>8. Len(Front(t)) = m /\ \A i \in 1..m : Front(t)[i] = t[i]
  BY <1>6, <1>7
<1>9. \A i \in 1..Len(t) : i = Len(t) \/ i \in 1..m
  BY <1>2, <1>5
<1>10. Len(t) - 1 = m
  BY <1>2, <1>5
<1> QED
  BY <1>1, <1>2, <1>6, <1>8, <1>9, <1>10 DEF Last

LEMMA AppendLevel ==
  ASSUME NEW S, NEW t \in Seq(SUBSET S), NEW s \in SUBSET S
  PROVE  /\ Append(t, s) \in Seq(SUBSET S) /\ Len(Append(t, s)) = Len(t) + 1
         /\ Len(t) \in Nat /\ Append(t, s) # <<>>
         /\ Append(t, s)[Len(t) + 1] = s /\ \A i \in 1..Len(t) : Append(t, s)[i] = t[i]
         /\ \A i \in 1..(Len(t) + 1) : i \in 1..Len(t) \/ i = Len(t) + 1
         /\ AllOf(Append(t, s)) = AllOf(t) \cup s
<1>1. /\ Append(t, s) \in Seq(SUBSET S) /\ Len(Append(t, s)) = Len(t) + 1
      /\ Len(t) \in Nat /\ Append(t, s)[Len(t) + 1] = s
      /\ \A i \in 1..Len(t) : Append(t, s)[i] = t[i]
  OBVIOUS
<1>2. \A i \in 1..(Len(t) + 1) : i \in 1..Len(t) \/ i = Len(t) + 1
  BY <1>1
<1>3. \A i \in 1..Len(t) : i \in 1..(Len(t) + 1)
  BY <1>1
<1>4. Len(t) + 1 \in 1..(Len(t) + 1) /\ Append(t, s) # <<>>
  BY <1>1
<1>5. AllOf(Append(t, s)) = AllOf(t) \cup s
  BY <1>1, <1>2, <1>3, <1>4 DEF AllOf
<1> QED
  BY <1>1, <1>2, <1>4, <1>5

(* The stack without the entry h of its last level *)
Drop(t, h) == Append(Front(t), Last(t) \ {h})

(* An entry is taken from the last level. *)
LEMMA WithoutFacts ==
  ASSUME NEW S, NEW t \in Seq(SUBSET S), t # <<>>, NEW h \in Last(t)
  PROVE  /\ Drop(t, h) \in Seq(SUBSET S) /\ Len(Drop(t, h)) = Len(t) /\ Len(t) \in 1..Len(t) /\ h \in t[Len(t)]
         /\ \A i \in 1..Len(t) : Drop(t, h)[i] = IF i = Len(t) THEN t[i] \ {h} ELSE t[i]
         /\ AllOf(t) = AllOf(Drop(t, h)) \cup {h}
<1> DEFINE u == Drop(t, h)
<1>1. /\ Len(t) \in Nat \ {0} /\ Len(t) \in 1..Len(t)
      /\ Last(t) = t[Len(t)] /\ Last(t) \subseteq S
      /\ Front(t) \in Seq(SUBSET S) /\ Len(Front(t)) = Len(t) - 1
      /\ \A i \in 1..Len(Front(t)) : Front(t)[i] = t[i] /\ i \in 1..Len(t) /\ i # Len(t)
      /\ \A i \in 1..Len(t) : i = Len(t) \/ i \in 1..Len(Front(t))
  BY LastLevelFacts
<1>2. Last(t) \ {h} \in SUBSET S
  BY <1>1
<1>3. /\ u \in Seq(SUBSET S) /\ Len(u) = Len(Front(t)) + 1
      /\ u[Len(Front(t)) + 1] = Last(t) \ {h}
      /\ \A i \in 1..Len(Front(t)) : u[i] = Front(t)[i]
  BY <1>1, <1>2, AppendLevel DEF Drop
<1>4. Len(Front(t)) + 1 = Len(t)
  BY <1>1
<1>5. \A i \in 1..Len(t) : u[i] = IF i = Len(t) THEN t[i] \ {h} ELSE t[i]
  BY <1>1, <1>3, <1>4
<1>6. Len(u) = Len(t) /\ h \in t[Len(t)]
  BY <1>1, <1>3, <1>4
<1>7. ASSUME NEW x \in AllOf(t) PROVE x \in AllOf(u) \cup {h}
  <2>1. PICK i \in 1..Len(t) : x \in t[i]
    BY DEF AllOf
  <2>2. x = h \/ x \in u[i]
    BY <1>5, <2>1
  <2> QED
    BY <1>6, <2>1, <2>2 DEF AllOf
<1>8. ASSUME NEW x \in AllOf(u) PROVE x \in AllOf(t)
  <2>1. PICK i \in 1..Len(t) : x \in u[i]
    BY <1>6 DEF AllOf
  <2>2. x \in t[i]
    BY <1>5, <2>1
  <2> QED
    BY <2>1, <2>2 DEF AllOf
<1>9. h \in AllOf(t)
  BY <1>1, <1>6 DEF AllOf
<1>10. AllOf(t) = AllOf(u) \cup {h}
  BY <1>7, <1>8, <1>9
<1> QED
  BY <1>1, <1>3, <1>5, <1>6, <1>10

(* Nothing but what is below the entry is lost with it. *)
LEMMA WithoutRest ==
  ASSUME NEW S, NEW t \in Seq(SUBSET S), t # <<>>, NEW h \in Last(t), Parted(t)
  PROVE  /\ Parted(Drop(t, h))
         /\ \A i \in 1..Len(Drop(t, h)) : \A x \in Drop(t, h)[i] : reach[x] \cap reach[h] = {}
         /\ ReachOf(AllOf(Drop(t, h))) = ReachOf(AllOf(t)) \ reach[h]
         /\ reach[h] \subseteq ReachOf(AllOf(t))
<1> DEFINE u == Drop(t, h)
<1>1. /\ u \in Seq(SUBSET S) /\ Len(u) = Len(t) /\ Len(t) \in 1..Len(t) /\ h \in t[Len(t)]
      /\ \A i \in 1..Len(t) : u[i] = IF i = Len(t) THEN t[i] \ {h} ELSE t[i]
      /\ AllOf(t) = AllOf(u) \cup {h}
  BY WithoutFacts
<1>2. \A i \in 1..Len(t) : u[i] \subseteq t[i]
  BY <1>1
<1>3. Parted(u)
  BY <1>1, <1>2 DEF Parted
<1>4. ASSUME NEW i \in 1..Len(t), NEW x \in u[i], reach[x] \cap reach[h] # {} PROVE FALSE
  <2>1. x \in t[i]
    BY <1>2
  <2>2. i = Len(t) /\ x = h
    BY <1>1, <1>4, <2>1 DEF Parted
  <2> QED
    BY <1>1, <2>2
<1>5. ASSUME NEW x \in AllOf(u) PROVE reach[x] \cap reach[h] = {}
  BY <1>1, <1>4 DEF AllOf
<1>6. ReachOf(AllOf(t)) = ReachOf(AllOf(u)) \cup reach[h]
  BY <1>1 DEF ReachOf
<1>7. ReachOf(AllOf(u)) \cap reach[h] = {}
  BY <1>5 DEF ReachOf
<1> QED
  BY <1>1, <1>3, <1>4, <1>6, <1>7

(* The loop over the entries of a directory ends. *)
LEMMA PopRest ==
  ASSUME NEW S, NEW t \in Seq(SUBSET S), t # <<>>, Last(t) = {}, Parted(t)
  PROVE  Front(t) \in Seq(SUBSET S) /\ Parted(Front(t)) /\ AllOf(Front(t)) = AllOf(t)
<1> DEFINE u == Front(t)
<1>1. /\ Last(t) = t[Len(t)] /\ u \in Seq(SUBSET S)
      /\ \A i \in 1..Len(u) : u[i] = t[i] /\ i \in 1..Len(t) /\ i # Len(t)
      /\ \A i \in 1..Len(t) : i = Len(t) \/ i \in 1..Len(u)
  BY LastLevelFacts
<1>2. Parted(u)
  BY <1>1 DEF Parted
<1>3. ASSUME NEW x \in AllOf(t) PROVE x \in AllOf(u)
  <2>1. PICK i \in 1..Len(t) : x \in t[i]
    BY DEF AllOf
  <2>2. i \in 1..Len(u) /\ x \in u[i]
    BY <1>1, <2>1
  <2> QED
    BY <2>2 DEF AllOf
<1>4. ASSUME NEW x \in AllOf(u) PROVE x \in AllOf(t)
  <2>1. PICK i \in 1..Len(u) : x \in u[i]
    BY DEF AllOf
  <2>2. i \in 1..Len(t) /\ x \in t[i]
    BY <1>1, <2>1
  <2> QED
    BY <2>2 DEF AllOf
<1>5. AllOf(u) = AllOf(t)
  BY <1>3, <1>4
<1> QED
  BY <1>1, <1>2, <1>5

(* No two entries of s lead to the same object, and none to where t leads. *)
Disjoint(s)  == \A x, y \in s : reach[x] \cap reach[y] # {} => x = y
Beyond(t, s) == \A i \in 1..Len(t) : \A x \in t[i], y \in s : reach[x] \cap reach[y] = {}

(* A level of entries that lead nowhere the stack already leads *)
LEMMA PushRest ==
  ASSUME NEW S, NEW t \in Seq(SUBSET S), Parted(t), NEW s \in SUBSET S,
         Disjoint(s), Beyond(t, s)
  PROVE  /\ Append(t, s) \in Seq(SUBSET S) /\ Parted(Append(t, s))
         /\ ReachOf(AllOf(Append(t, s))) = ReachOf(AllOf(t)) \cup ReachOf(s)
<1> DEFINE u == Append(t, s)
<1>1. /\ u \in Seq(SUBSET S) /\ Len(u) = Len(t) + 1 /\ Len(t) \in Nat
      /\ u[Len(t) + 1] = s /\ \A i \in 1..Len(t) : u[i] = t[i]
      /\ \A i \in 1..(Len(t) + 1) : i \in 1..Len(t) \/ i = Len(t) + 1
      /\ AllOf(u) = AllOf(t) \cup s
  BY AppendLevel
<1>2. ASSUME NEW i \in 1..Len(u), NEW j \in 1..Len(u), NEW x \in u[i], NEW y \in u[j],
             reach[x] \cap reach[y] # {}
      PROVE  i = j /\ x = y
  <2>1. /\ i \in 1..Len(t) \/ i = Len(t) + 1
        /\ j \in 1..Len(t) \/ j = Len(t) + 1
    BY <1>1
  <2>2. CASE i \in 1..Len(t) /\ j \in 1..Len(t)
    BY <1>1, <1>2, <2>2 DEF Parted
  <2>3. CASE i \in 1..Len(t) /\ j = Len(t) + 1
    BY <1>1, <1>2, <2>3 DEF Beyond
  <2>4. CASE i = Len(t) + 1 /\ j \in 1..Len(t)
    BY <1>1, <1>2, <2>4 DEF Beyond
  <2>5. CASE i = Len(t) + 1 /\ j = Len(t) + 1
    BY <1>1, <1>2, <2>5 DEF Disjoint
  <2> QED
    BY <2>1, <2>2, <2>3, <2>4, <2>5
<1>3. Parted(u)
  BY <1>2 DEF Parted
<1>4. ReachOf(AllOf(u)) = ReachOf(AllOf(t)) \cup ReachOf(s)
  BY <1>1 DEF ReachOf
<1> QED
  BY <1>1, <1>3, <1>4

----------------------------------------------------------------------------
(* What is below an entry *)

(* The entries of a directory lead to disjoint sets of objects, which with the
   directory itself are all that is below it. *)
LEMMA TreeFacts ==
  ASSUME IInv, Scanning, NEW h \in Hash, obj[h].kind = "tree"
  PROVE  /\ Below(h) \subseteq Hash
         /\ reach[h] = {h} \cup ReachOf(Below(h)) /\ h \notin ReachOf(Below(h))
         /\ Disjoint(Below(h))
         /\ \A x \in Below(h) : reach[x] \subseteq reach[h]
<1> DEFINE d == obj[h].dir
<1>1. ObjectInv(obj, reach, h) /\ StoreInv(obj, reach) /\ obj \in Seq(Object) /\ Len(obj) \in Nat
  BY DEF IInv, TypeOK, StoreInv, Hash
<1>2. h \in 1..Len(obj) /\ obj[h] \in Object
  BY <1>1 DEF Hash
<1>3. d \in [Name -> Nat] /\ \A n \in Name : d[n] < h
  BY <1>1, <1>2 DEF Object, ObjectInv
<1>4. Below(h) = {d[n] : n \in Name} \ {0}
  BY DEF Below
<1>5. ASSUME NEW x \in Below(h) PROVE x \in 1..(h - 1) /\ x \in Hash
  <2>1. PICK n \in Name : x = d[n] /\ x # 0
    BY <1>4
  <2>2. x \in Nat /\ x # 0 /\ x < h
    BY <1>3, <2>1
  <2> QED
    BY <1>1, <1>2, <2>2 DEF Hash
<1>6. ASSUME NEW x \in Below(h) PROVE h \notin reach[x]
  <2>1. reach[x] \subseteq 1..x
    BY <1>1, <1>5, ReachBelow DEF Hash
  <2>2. x \in 1..(h - 1) /\ h \in 1..Len(obj)
    BY <1>2, <1>5
  <2> QED
    BY <2>1, <2>2
<1>7. ASSUME NEW x PROVE x \in reach[h] <=> x = h \/ x \in ReachOf(Below(h))
  <2>1. x \in reach[h] <=> x = h \/ \E n \in Name : d[n] # 0 /\ x \in reach[d[n]]
    BY <1>1 DEF ObjectInv, Under
  <2>2. (\E n \in Name : d[n] # 0 /\ x \in reach[d[n]]) <=> \E y \in Below(h) : x \in reach[y]
    BY <1>4
  <2>3. x \in ReachOf(Below(h)) <=> \E y \in Below(h) : x \in reach[y]
    BY DEF ReachOf
  <2> QED
    BY <2>1, <2>2, <2>3
<1>8. ASSUME NEW x \in Below(h), NEW y \in Below(h), reach[x] \cap reach[y] # {} PROVE x = y
  <2>1. PICK m \in Name : x = d[m] /\ x # 0
    BY <1>4
  <2>2. PICK n \in Name : y = d[n] /\ y # 0
    BY <1>4
  <2>3. PICK z : z \in reach[x] /\ z \in reach[y]
    BY <1>8
  <2>4. Under(obj, reach, h, m, z) /\ Under(obj, reach, h, n, z)
    BY <2>1, <2>2, <2>3 DEF Under
  <2>5. m = n
    BY <1>1, <2>4 DEF ObjectInv
  <2> QED
    BY <2>1, <2>2, <2>5
<1>9. reach[h] = {h} \cup ReachOf(Below(h))
  BY <1>7
<1>10. h \notin ReachOf(Below(h)) /\ \A x \in Below(h) : reach[x] \subseteq reach[h]
  BY <1>6, <1>9 DEF ReachOf
<1> QED
  BY <1>5, <1>8, <1>9, <1>10 DEF Disjoint

(* A visit of a tree puts its entries on the list, and takes the tree itself, and
   nothing else, from what is left to visit. *)
LEMMA VisitRest ==
  ASSUME IInv, Scanning, NEW t \in Seq(SUBSET Hash), t # <<>>, Parted(t),
         NEW h \in Last(t), obj[h].kind = "tree"
  PROVE  LET u == Append(Drop(t, h), Below(h)) IN
         /\ u \in Seq(SUBSET Hash) /\ Parted(u)
         /\ ReachOf(AllOf(u)) = ReachOf(AllOf(t)) \ {h} /\ h \in ReachOf(AllOf(t))
<1>0. PICK w : w = Drop(t, h)
  OBVIOUS
<1>1. /\ w \in Seq(SUBSET Hash) /\ h \in t[Len(t)] /\ Len(t) \in 1..Len(t)
  BY <1>0, WithoutFacts
<1>2. /\ Parted(w)
      /\ \A i \in 1..Len(w) : \A x \in w[i] : reach[x] \cap reach[h] = {}
      /\ ReachOf(AllOf(w)) = ReachOf(AllOf(t)) \ reach[h]
      /\ reach[h] \subseteq ReachOf(AllOf(t))
  BY <1>0, WithoutRest
<1>3. h \in Hash
  BY LastLevelFacts
<1>4. /\ Below(h) \subseteq Hash
      /\ reach[h] = {h} \cup ReachOf(Below(h)) /\ h \notin ReachOf(Below(h))
      /\ Disjoint(Below(h))
      /\ \A x \in Below(h) : reach[x] \subseteq reach[h]
  BY <1>3, TreeFacts
<1>5. Beyond(w, Below(h))
  BY <1>2, <1>4 DEF Beyond
<1>b. PICK b : b = Below(h)
  OBVIOUS
<1>6. b \in SUBSET Hash /\ Disjoint(b)
  BY <1>4, <1>b
<1>7. Beyond(w, b)
  BY <1>5, <1>b
<1>8. /\ Append(w, b) \in Seq(SUBSET Hash) /\ Parted(Append(w, b))
      /\ ReachOf(AllOf(Append(w, b))) = ReachOf(AllOf(w)) \cup ReachOf(b)
  <2>1. w \in Seq(SUBSET Hash)
    BY <1>1
  <2>2. Parted(w)
    BY <1>2
  <2>3. b \in SUBSET Hash
    BY <1>6
  <2>4. Disjoint(b) /\ Beyond(w, b)
    BY <1>6, <1>7
  <2> QED
    BY ONLY <2>1, <2>2, <2>3, <2>4, PushRest, SMTT(30)
<1>9. ReachOf(AllOf(Append(w, b))) = ReachOf(AllOf(t)) \ {h} /\ h \in ReachOf(AllOf(t))
  BY <1>2, <1>4, <1>8, <1>b
<1> QED
  BY <1>0, <1>8, <1>9, <1>b

(* A blob has nothing below it. *)
LEMMA BlobRest ==
  ASSUME IInv, NEW t \in Seq(SUBSET Hash), t # <<>>, Parted(t),
         NEW h \in Last(t), obj[h].kind = "blob"
  PROVE  /\ Drop(t, h) \in Seq(SUBSET Hash) /\ Parted(Drop(t, h))
         /\ ReachOf(AllOf(Drop(t, h))) = ReachOf(AllOf(t)) \ {h} /\ h \in ReachOf(AllOf(t))
<1>1. Drop(t, h) \in Seq(SUBSET Hash)
  BY WithoutFacts
<1>2. h \in Hash
  BY LastLevelFacts
<1>3. reach[h] = {h}
  BY <1>2 DEF IInv, StoreInv, ObjectInv, Hash
<1>4. /\ Parted(Drop(t, h))
      /\ ReachOf(AllOf(Drop(t, h))) = ReachOf(AllOf(t)) \ reach[h]
      /\ reach[h] \subseteq ReachOf(AllOf(t))
  BY WithoutRest
<1> QED
  BY <1>1, <1>3, <1>4

----------------------------------------------------------------------------
(* Counting *)

(* One tree, or one blob, less *)
LEMMA OneLess ==
  ASSUME NEW R, IsFiniteSet(R), NEW h \in R
  PROVE  /\ Cardinality(TreesIn(R)) \in Nat /\ Cardinality(BlobsIn(R)) \in Nat
         /\ obj[h].kind = "tree" =>
              /\ Cardinality(TreesIn(R \ {h})) = Cardinality(TreesIn(R)) - 1
              /\ BlobsIn(R \ {h}) = BlobsIn(R)
         /\ obj[h].kind = "blob" =>
              /\ TreesIn(R \ {h}) = TreesIn(R)
              /\ Cardinality(BlobsIn(R \ {h})) = Cardinality(BlobsIn(R)) - 1
         /\ obj[h].kind = "commit" =>
              TreesIn(R \ {h}) = TreesIn(R) /\ BlobsIn(R \ {h}) = BlobsIn(R)
<1>1. IsFiniteSet(TreesIn(R)) /\ IsFiniteSet(BlobsIn(R))
  BY FS_Subset DEF TreesIn, BlobsIn
<1>2. Cardinality(TreesIn(R)) \in Nat /\ Cardinality(BlobsIn(R)) \in Nat
  BY <1>1, FS_CardinalityType
<1>3. ASSUME obj[h].kind = "tree"
      PROVE  /\ Cardinality(TreesIn(R \ {h})) = Cardinality(TreesIn(R)) - 1
             /\ BlobsIn(R \ {h}) = BlobsIn(R)
  <2>1. TreesIn(R \ {h}) = TreesIn(R) \ {h} /\ h \in TreesIn(R)
    BY <1>3 DEF TreesIn
  <2>2. BlobsIn(R \ {h}) = BlobsIn(R)
    BY <1>3 DEF BlobsIn
  <2>3. Cardinality(TreesIn(R) \ {h}) = Cardinality(TreesIn(R)) - 1
    BY <1>1, <2>1, FS_RemoveElement
  <2> QED
    BY <2>1, <2>2, <2>3
<1>4. ASSUME obj[h].kind = "blob"
      PROVE  /\ TreesIn(R \ {h}) = TreesIn(R)
             /\ Cardinality(BlobsIn(R \ {h})) = Cardinality(BlobsIn(R)) - 1
  <2>1. BlobsIn(R \ {h}) = BlobsIn(R) \ {h} /\ h \in BlobsIn(R)
    BY <1>4 DEF BlobsIn
  <2>2. TreesIn(R \ {h}) = TreesIn(R)
    BY <1>4 DEF TreesIn
  <2>3. Cardinality(BlobsIn(R) \ {h}) = Cardinality(BlobsIn(R)) - 1
    BY <1>1, <2>1, FS_RemoveElement
  <2> QED
    BY <2>1, <2>2, <2>3
<1>5. obj[h].kind = "commit" => TreesIn(R \ {h}) = TreesIn(R) /\ BlobsIn(R \ {h}) = BlobsIn(R)
  BY DEF TreesIn, BlobsIn
<1> QED
  BY <1>2, <1>3, <1>4, <1>5

(* The snapshot a scan began with, and what the commit at its head reaches *)
LEMMA WholeFacts ==
  ASSUME IInv, rd.head \in Commits
  PROVE  /\ rd.head \in Hash /\ Whole = reach[rd.head] /\ Whole \subseteq Hash
         /\ IsFiniteSet(Whole) /\ rd.head \in Whole
         /\ obj[rd.head].root \in Hash /\ obj[obj[rd.head].root].kind = "tree"
         /\ reach[obj[rd.head].root] = Whole \ {rd.head}
<1> DEFINE h == rd.head  root == obj[h].root
<1>1. h \in Hash /\ obj[h].kind = "commit"
  BY DEF Commits
<1>2. ObjectInv(obj, reach, h) /\ StoreInv(obj, reach) /\ Len(obj) \in Nat
  BY <1>1 DEF IInv, TypeOK, StoreInv, Hash
<1>3. h \in Nat /\ h \in 1..Len(obj) /\ NoHead # h /\ TornHead # h
  BY <1>1, <1>2, ConstantsAssumption DEF Hash
<1>4. Whole = reach[h]
  BY <1>3 DEF Whole, Snapshot
<1>5. /\ h \in reach[h] /\ reach[h] \subseteq 1..h
      /\ root \in 1..Len(obj) /\ obj[root].kind = "tree" /\ root < h
      /\ reach[h] = {h} \cup reach[root]
  BY <1>1, <1>2 DEF ObjectInv, TreeIn
<1>6. reach[root] \subseteq 1..root
  BY <1>2, <1>5, ReachBelow
<1>7. h \notin 1..root /\ 1..h \subseteq 1..Len(obj)
  BY <1>2, <1>3, <1>5
<1>8. IsFiniteSet(1..h)
  BY <1>3, FS_Interval
<1>9. IsFiniteSet(reach[h])
  BY <1>5, <1>8, FS_Subset
<1>10. reach[root] = reach[h] \ {h}
  BY <1>5, <1>6, <1>7
<1> QED
  BY <1>1, <1>4, <1>5, <1>7, <1>9, <1>10 DEF Hash

----------------------------------------------------------------------------
(* What a step of another process leaves as it is: every object that was made *)

Grown == \A h \in Hash : h \in Hash' /\ obj'[h] = obj[h] /\ reach'[h] = reach[h]

LEMMA EncryptGrown ==
  ASSUME IInv, NEW o, NEW b, Encrypt(o, b)
  PROVE  Grown
<1>1. obj \in Seq(Object) /\ reach \in Seq(SUBSET Nat) /\ Len(reach) = Len(obj) /\ Len(obj) \in Nat
  BY DEF IInv, TypeOK
<1>2. Len(obj') = Len(obj) + 1 /\ \A h \in 1..Len(obj) : obj'[h] = obj[h]
  BY <1>1 DEF Encrypt
<1>3. \A h \in 1..Len(reach) : reach'[h] = reach[h]
  BY <1>1 DEF Encrypt
<1>4. \A h \in 1..Len(obj) : h \in 1..Len(obj')
  BY <1>1, <1>2
<1> QED
  BY <1>1, <1>2, <1>3, <1>4 DEF Grown, Hash

LEMMA SameGrown == ASSUME UNCHANGED <<obj, reach>> PROVE Grown
  BY DEF Grown, Hash

LEMMA EngineGrown ==
  ASSUME IInv, NEW d \in Device, Start(d) \/ Proceed(d) \/ Answer(d) \/ Upload(d) \/ Fail(d)
  PROVE  Grown
<1>1. CASE Start(d) \/ Answer(d) \/ Upload(d)
  <2>1. UNCHANGED <<obj, reach>>
    BY <1>1 DEF Start, Begin, Sync, InitExisting, Answer, ConfirmYes, ConfirmNo, Upload, storeVars
  <2> QED
    BY <2>1, SameGrown
<1>2. CASE Prepare(d)
  <2>1. CASE StoreBlob(d)
    BY <2>1, EncryptGrown DEF StoreBlob
  <2>2. CASE StoreLeaf(d)
    BY <2>2, EncryptGrown DEF StoreLeaf, EncryptTree
  <2>3. CASE ReadHead(d) \/ ReadHeadMissing(d) \/ ReadHeadInvalid(d)
    BY <2>3, SameGrown DEF ReadHead, ReadHeadMissing, ReadHeadInvalid, storeVars
  <2> QED
    BY <1>2, <2>1, <2>2, <2>3 DEF Prepare
<1>3. CASE Walk(d)
  <2>1. CASE StoreParent(d)
    BY <2>1, EncryptGrown DEF StoreParent, EncryptTree
  <2>2. CASE LoadTreeMissing(d) \/ Descend(d) \/ MissingParent(d) \/ AskConfirm(d) \/ RejectEntry(d)
    BY <2>2, SameGrown
       DEF LoadTreeMissing, Descend, MissingParent, AskConfirm, RejectEntry, storeVars
  <2>3. CASE LeafUpsert(d) \/ LeafRemove(d) \/ LeafRmdir(d)
    BY <2>3, SameGrown DEF LeafUpsert, LeafRemove, LeafRmdir, storeVars
  <2> QED
    BY <1>3, <2>1, <2>2, <2>3 DEF Walk
<1>4. CASE Publish(d)
  <2>1. CASE StoreTree(d)
    BY <2>1, EncryptGrown DEF StoreTree, EncryptTree
  <2>2. CASE StoreCommit(d)
    BY <2>2, EncryptGrown DEF StoreCommit, EncryptCommit
  <2>3. CASE WriteLocalHead(d) \/ PutCloudHead(d)
    BY <2>3, SameGrown DEF WriteLocalHead, PutCloudHead, storeVars
  <2> QED
    BY <1>4, <2>1, <2>2, <2>3 DEF Publish
<1>5. CASE CleanUp(d) \/ Exit(d)
  <2>1. UNCHANGED <<obj, reach>>
    BY <1>5 DEF CleanUp, RemoveOldCommit, OldCommitGone, RemoveOldTree, RemoveSubtree,
                RemoveBlob, BlobGone, Done, Exit, storeVars
  <2> QED
    BY <2>1, SameGrown
<1>6. CASE Fail(d)
  <2>1. CASE PutReplyLost(d)
    <3>1. \/ EncryptTree(EmptyDir) \/ EncryptTree(NewDir(cmd[d])) \/ EncryptCommit(cmd[d].ret)
      BY <2>1 DEF PutReplyLost
    <3> QED
      BY <3>1, EncryptGrown DEF EncryptTree, EncryptCommit
  <2>2. CASE UploadFails(d) \/ CallFails(d) \/ HeadReplyLost(d) \/ RemoveReplyLost(d)
    BY <2>2, SameGrown DEF UploadFails, CallFails, HeadReplyLost, RemoveReplyLost, storeVars
  <2>3. CASE \/ TreeRemoveFails(d) \/ LocalHeadTorn(d) \/ DiesWritingHead(d) \/ SyncTorn(d)
             \/ Crash(d)
    BY <2>3, SameGrown DEF TreeRemoveFails, LocalHeadTorn, DiesWritingHead, SyncTorn, Crash,
                           storeVars
  <2> QED
    BY <1>6, <2>1, <2>2, <2>3 DEF Fail
<1> QED
  BY <1>1, <1>2, <1>3, <1>4, <1>5, <1>6 DEF Proceed

(* A fault of the cloud or of a call of the reader *)
LEMMA FaultStep ==
  ASSUME IInv, Fault, remote' \subseteq remote,
         UNCHANGED <<obj, reach, headVars, cmd, poolVars, ghostVars, cmds>>
  PROVE  IInv' /\ Grown
<1>1. TypeOK
  BY DEF IInv
<1>2. faults' \in 0..MaxFaults
  BY <1>1, FaultCount
<1>3. UNCHANGED <<obj, reach, cloudHead, localHead, owner, cmd, queue, unsent, clean, leaked, cmds>>
  BY DEF headVars, poolVars, ghostVars
<1>4. Hash' = Hash /\ Commits' = Commits
  BY <1>3 DEF Hash, Commits
<1>5. TypeOK'
  BY <1>1, <1>2, <1>3, <1>4 DEF TypeOK
<1>6. IInv'
  BY <1>3, <1>5 DEF IInv
<1> QED
  BY <1>3, <1>6, SameGrown

(* The store grows, or loses objects, while the reader waits for its next call. *)
LEMMA WorldStep ==
  ASSUME ScanInv, IInv', Grown, UNCHANGED <<rd, disturbed>>, Observe
  PROVE  ScanInv'
<1>1. /\ IInv /\ ReadInv /\ TodoInv /\ CleanInv /\ CountInv
      /\ rd' = rd /\ disturbed' = disturbed /\ rd.pc \notin {"done", "failed"}
  BY DEF ScanInv, Observe
<1>2. /\ Scanning' <=> Scanning
      /\ Reading' <=> Reading
      /\ AtScan' <=> AtScan
      /\ Clean' <=> Clean
      /\ Shape' <=> Shape
      /\ Hashing' = Hashing
  BY <1>1 DEF Scanning, Reading, AtScan, Clean, Shape, Hashing
<1>3. Commits \subseteq Commits'
  BY DEF Grown, Commits
<1>4. CASE ~Reading
  <2>1. rd.pc = "idle" /\ ~AtScan
    BY <1>1, <1>4 DEF ReadInv, ReadLabel, Reading, AtScan
  <2>2. ReadInv'
    BY <1>1, <1>2, <1>3, <1>4, <2>1 DEF ReadInv
  <2>3. TodoInv' /\ CleanInv' /\ CountInv'
    BY <1>1, <1>2, <2>1 DEF TodoInv, CleanInv, CountInv
  <2> QED
    BY <2>2, <2>3 DEF ScanInv
<1>5. CASE Reading
  <2>1. rd.head \in Commits
    BY <1>1, <1>5 DEF ReadInv
  <2>2. Whole \subseteq Hash /\ rd.head \in Hash /\ Whole = reach[rd.head]
    BY <1>1, <2>1, WholeFacts
  <2>3. Whole' = reach'[rd.head]
    <3>1. rd'.head \in Commits'
      BY <1>1, <1>3, <2>1
    <3>2. rd.head \notin {NoHead, TornHead}
      BY <2>2, ConstantsAssumption DEF Hash
    <3> QED
      BY <1>1, <3>2 DEF Whole, Snapshot
  <2>4. Whole' = Whole
    BY <2>2, <2>3 DEF Grown
  <2>5. /\ seen \subseteq seen' /\ (SoundFor(rd.op) \cap Whole)' \subseteq seen'
        /\ kept' \subseteq kept /\ kept' \subseteq SoundFor(rd.op)'
    BY <1>1, <1>5, <2>4 DEF Observe, Whole
  <2>6. ReadInv'
    BY <1>1, <1>2, <1>3, <2>5 DEF ReadInv
  <2>7. ASSUME NEW X \in SUBSET Hash
        PROVE  /\ TreesIn(X)' = TreesIn(X) /\ BlobsIn(X)' = BlobsIn(X)
               /\ ReachOf(X)' = ReachOf(X)
    BY <2>7 DEF Grown, TreesIn, BlobsIn, ReachOf
  <2>8. /\ TreesIn(Whole)' = TreesIn(Whole) /\ BlobsIn(Whole)' = BlobsIn(Whole)
    <3>1. PICK W \in SUBSET Hash : W = Whole
      BY <2>2
    <3>2. TreesIn(W)' = TreesIn(W) /\ BlobsIn(W)' = BlobsIn(W)
      BY <2>7
    <3> QED
      BY <2>4, <3>1, <3>2 DEF TreesIn, BlobsIn
  <2>9. Calm' => Calm
    BY <1>1, <1>2, <2>4, <2>5 DEF Calm
  <2>10. CASE ~AtScan
    BY <1>1, <1>2, <2>4, <2>6, <2>9, <2>10 DEF ScanInv, TodoInv, CleanInv, CountInv
  <2>11. CASE AtScan
    <3>1. rd.todo \in Seq(SUBSET Hash) /\ Parted(rd.todo) /\ Rest \subseteq Whole
      BY <1>1, <2>11 DEF TodoInv
    <3>2. \A i \in 1..Len(rd.todo) : rd.todo[i] \subseteq Hash
      BY <3>1
    <3>3. Todo \subseteq Hash /\ Todo' = Todo
      BY <1>1, <3>2 DEF Todo, AllOf
    <3>4. Rest' = Rest
      <4>1. PICK T \in SUBSET Hash : T = Todo
        BY <3>3
      <4>2. ReachOf(T)' = ReachOf(T)
        BY <2>7
      <4> QED
        BY <3>3, <4>1, <4>2 DEF Rest, ReachOf
    <3>5. TreesIn(Rest)' = TreesIn(Rest) /\ BlobsIn(Rest)' = BlobsIn(Rest)
      <4>1. PICK R \in SUBSET Hash : R = Rest
        BY <2>2, <3>1
      <4>2. TreesIn(R)' = TreesIn(R) /\ BlobsIn(R)' = BlobsIn(R)
        BY <2>7
      <4> QED
        BY <3>4, <4>1, <4>2 DEF TreesIn, BlobsIn
    <3>6. Parted(rd.todo)'
      BY <1>1, <3>1, <3>2 DEF Parted, Grown
    <3>7. rd'.todo \in Seq(SUBSET Hash')
      <4>1. Hash \subseteq Hash'
        BY DEF Grown
      <4>2. rd.todo \in Seq(SUBSET Hash')
        BY <3>1, <4>1
      <4> QED
        BY <1>1, <4>2
    <3>8. TodoInv'
      BY <1>1, <1>2, <2>4, <2>8, <2>11, <3>1, <3>4, <3>6, <3>7 DEF TodoInv
    <3>9. CleanInv'
      BY <1>1, <1>2, <2>4, <2>5, <2>11, <3>4 DEF CleanInv, Vouched
    <3>10. Tally(rd.stats, Rest, Hashing) => Tally(rd.stats, Rest, Hashing)'
      BY <1>1, <1>2, <2>8, <3>5 DEF Tally
    <3>11. CountInv'
      BY <1>1, <1>2, <2>4, <2>9, <2>11, <3>10 DEF CountInv
    <3> QED
      BY <2>6, <3>8, <3>9, <3>11 DEF ScanInv
  <2> QED
    BY <2>10, <2>11
<1> QED
  BY <1>4, <1>5

----------------------------------------------------------------------------
(* The steps of the reader *)

(* The reader stays with its command and its snapshot. *)
Become(p, c, t, s) ==
  /\ Shape' /\ rd'.op = rd.op /\ rd'.head = rd.head
  /\ rd'.pc = p /\ rd'.cur = c /\ rd'.todo = t /\ rd'.stats = s

SameWorld == UNCHANGED <<obj, reach, remote, rotten, seen, kept>>

LEMMA ReaderFacts ==
  ASSUME IInv, UNCHANGED vars
  PROVE  IInv' /\ UNCHANGED <<obj, reach, remote, localHead>>
  BY StutterStep DEF vars, storeVars, headVars

(* What every step of a read keeps *)
LEMMA KeepRead ==
  ASSUME ScanInv, SameWorld, Reading, NEW p, NEW c, NEW t, NEW s, Become(p, c, t, s)
  PROVE  /\ Hash' = Hash /\ Commits' = Commits /\ Whole' = Whole
         /\ rd.head \in Commits /\ rd'.head \in Commits'
         /\ Scanning' <=> Scanning
         /\ SoundFor(rd.op)' = SoundFor(rd.op)
         /\ (SoundFor(rd.op) \cap Whole)' \subseteq seen' /\ kept' \subseteq SoundFor(rd.op)'
<1>1. ReadInv /\ obj' = obj /\ reach' = reach /\ remote' = remote /\ rotten' = rotten
      /\ seen' = seen /\ kept' = kept /\ rd'.op = rd.op /\ rd'.head = rd.head
  BY DEF ScanInv, SameWorld, Become
<1>2. Hash' = Hash /\ Commits' = Commits /\ Whole' = Whole /\ (Scanning' <=> Scanning)
  BY <1>1 DEF Hash, Commits, Whole, Snapshot, Scanning
<1>3. SoundFor(rd.op)' = SoundFor(rd.op)
  BY <1>1 DEF SoundFor
<1>4. rd.head \in Commits /\ SoundFor(rd.op) \cap Whole \subseteq seen /\ kept \subseteq SoundFor(rd.op)
  BY <1>1 DEF ReadInv
<1> QED
  BY <1>1, <1>2, <1>3, <1>4

(* A scan that goes on, or reports *)
LEMMA ScanMove ==
  ASSUME ScanInv, IInv', SameWorld, Reading, Scanning,
         NEW p \in {"visit", "hash", "done"}, NEW c, NEW t \in Seq(SUBSET Hash), NEW s \in Counts,
         Become(p, c, t, s), NEW R, R = ReachOf(AllOf(t)), Parted(t), R \subseteq Whole,
         disturbed => disturbed',
         p = "done" => t = <<>>,
         p = "hash" => rd.op = "deep" /\ c \in BlobsIn(Whole),
         Vouched(s, R, IF p = "hash" THEN {c} ELSE {}),
         Calm /\ ~disturbed' => Tally(s, R, IF p = "hash" THEN {c} ELSE {})
  PROVE  ScanInv'
<1>1. /\ Shape' /\ rd'.op = rd.op /\ rd'.head = rd.head
      /\ rd'.pc = p /\ rd'.cur = c /\ rd'.todo = t /\ rd'.stats = s
      /\ obj' = obj /\ reach' = reach /\ seen' = seen /\ kept' = kept
  BY DEF Become, SameWorld
<1>2. /\ Hash' = Hash /\ Commits' = Commits /\ Whole' = Whole
      /\ rd.head \in Commits /\ rd'.head \in Commits'
      /\ Scanning' <=> Scanning
      /\ SoundFor(rd.op)' = SoundFor(rd.op)
      /\ (SoundFor(rd.op) \cap Whole)' \subseteq seen' /\ kept' \subseteq SoundFor(rd.op)'
  BY KeepRead
<1>3. Hashing' = IF p = "hash" THEN {c} ELSE {}
  BY <1>1 DEF Hashing
<1>4. ReachOf(AllOf(t))' = ReachOf(AllOf(t)) /\ Rest' = R
  BY <1>1 DEF ReachOf, Rest, Todo
<1>5. TreesIn(R)' = TreesIn(R) /\ BlobsIn(R)' = BlobsIn(R)
      /\ TreesIn(Whole)' = TreesIn(Whole) /\ BlobsIn(Whole)' = BlobsIn(Whole)
  BY <1>1, <1>2 DEF TreesIn, BlobsIn
<1>6. ReadInv'
  BY <1>1, <1>2 DEF ReadInv, ReadLabel
<1>7. TodoInv'
  <2>1. rd'.todo \in Seq(SUBSET Hash')
    BY <1>1, <1>2
  <2>2. Parted(rd.todo)'
    BY <1>1 DEF Parted
  <2>3. rd'.pc = "hash" => rd'.cur \in BlobsIn(Whole)'
    BY <1>1, <1>5
  <2>4. Rest' \subseteq Whole' /\ rd'.stats \in Counts
    BY <1>1, <1>2, <1>4
  <2>5. rd'.pc = "done" => rd'.todo = <<>>
    BY <1>1
  <2> QED
    BY <2>1, <2>2, <2>3, <2>4, <2>5 DEF TodoInv
<1>8. Vouched(rd.stats, Rest, Hashing)'
  BY <1>1, <1>2, <1>3, <1>4 DEF Vouched
<1>9. CleanInv'
  BY <1>8 DEF CleanInv
<1>10. Calm' => Calm /\ ~disturbed'
  BY <1>1, <1>2 DEF Calm
<1>11. Tally(s, R, Hashing') => Tally(rd.stats, Rest, Hashing)'
  BY <1>1, <1>2, <1>4, <1>5 DEF Tally
<1>12. CountInv'
  BY <1>1, <1>3, <1>10, <1>11 DEF CountInv
<1> QED
  BY <1>6, <1>7, <1>9, <1>12 DEF ScanInv

(* A read that is no scan goes on, or any read fails. *)
LEMMA OtherMove ==
  ASSUME ScanInv, IInv', SameWorld, Reading,
         NEW p \in {"resolve", "blob", "visit", "done", "failed"}, NEW c, NEW t, NEW s,
         Become(p, c, t, s),
         ~Scanning \/ (p = "failed" /\ (disturbed' \/ ~(Whole \subseteq kept)))
  PROVE  ScanInv'
<1>1. /\ Shape' /\ rd'.op = rd.op /\ rd'.head = rd.head /\ rd'.pc = p
      /\ seen' = seen /\ kept' = kept
  BY DEF Become, SameWorld
<1>2. /\ Whole' = Whole /\ rd'.head \in Commits'
      /\ Scanning' <=> Scanning
      /\ (SoundFor(rd.op) \cap Whole)' \subseteq seen' /\ kept' \subseteq SoundFor(rd.op)'
  BY KeepRead
<1>3. ReadInv'
  BY <1>1, <1>2 DEF ReadInv, ReadLabel
<1>4. ~AtScan'
  BY <1>1, <1>2 DEF AtScan
<1>5. ~Calm'
  BY <1>1, <1>2 DEF Calm
<1> QED
  BY <1>3, <1>4, <1>5 DEF ScanInv, TodoInv, CleanInv, CountInv

(* A step of a read that is no scan: any of its fields may change but these. *)
Moves == Shape' /\ rd'.op = rd.op /\ rd'.head = rd.head

LEMMA PlainRead ==
  ASSUME ScanInv, ~Scanning, Reading, Read, UNCHANGED <<vars, rotten, seen, kept>>
  PROVE  ScanInv'
<1>1. Shape /\ IInv /\ UNCHANGED vars
  BY DEF ScanInv, ReadInv
<1>2. IInv' /\ SameWorld
  BY <1>1, ReaderFacts DEF SameWorld
<1>3. Moves /\ rd'.pc \in {"resolve", "blob", "visit", "done", "failed"}
  <2>1. CASE LoadCommit
    BY <1>1, <2>1 DEF LoadCommit, Goto, Shape, Moves
  <2>2. CASE Resolve
    <3>1. \/ rd' = [rd EXCEPT !.pc = "failed"] \/ rd' = [rd EXCEPT !.pc = "done"]
          \/ rd' = [rd EXCEPT !.cur = Here, !.lvl = rd.lvl + 1]
          \/ rd' = [rd EXCEPT !.cur = Here, !.pc = "blob"]
      BY <2>2 DEF Resolve, Goto
    <3>2. rd.pc = "resolve"
      BY <2>2 DEF Resolve, ReadAt
    <3> QED
      BY <1>1, <3>1, <3>2 DEF Shape, Moves
  <2>3. CASE Resolved
    <3>1. \/ rd' = [rd EXCEPT !.pc = "failed"] \/ rd' = [rd EXCEPT !.pc = "done"]
          \/ rd' = [rd EXCEPT !.pc = "visit", !.todo = <<Subdirs>>]
      BY <2>3 DEF Resolved, Goto
    <3> QED
      BY <1>1, <3>1 DEF Shape, Moves
  <2>4. CASE ResolveMissing \/ ReadFile \/ Report
    BY <1>1, <2>4 DEF ResolveMissing, ReadFile, Report, Goto, Shape, Moves
  <2>5. CASE Return
    BY <1>1, <2>5 DEF Return, Visiting, ReadAt, Shape, Moves
  <2>6. CASE VisitTree
    <3>1. PICK h : rd' = [rd EXCEPT !.todo = Append(Without(h), Below(h)), !.stats.trees = @ + 1]
      BY <2>6 DEF VisitTree
    <3> QED
      BY <1>1, <2>6, <3>1 DEF VisitTree, Visiting, ReadAt, Shape, Moves
  <2>7. CASE TreeUnreadable
    BY <1>1, <2>7 DEF TreeUnreadable, TreeError, Goto, Shape, Moves
  <2>8. CASE CheckBlob
    <3>1. PICK h \in BlobsIn(Siblings) :
            rd' = IF h \notin remote
                  THEN [rd EXCEPT !.todo = Without(h), !.stats.blobs = @ + 1, !.stats.missing = @ + 1]
                  ELSE IF rd.op = "deep"
                  THEN [rd EXCEPT !.todo = Without(h), !.stats.blobs = @ + 1, !.cur = h, !.pc = "hash"]
                  ELSE [rd EXCEPT !.todo = Without(h), !.stats.blobs = @ + 1]
      BY <2>8 DEF CheckBlob
    <3>2. rd.pc = "visit" /\ rd.op # "deep"
      BY <2>8 DEF CheckBlob, Visiting, ReadAt, Scanning
    <3> QED
      BY <1>1, <3>1, <3>2 DEF Shape, Moves
  <2>9. CASE HashBlob
    <3>1. rd.pc = "hash" => rd.op = "deep"
      BY DEF ScanInv, ReadInv
    <3> QED
      BY <2>9, <3>1 DEF HashBlob, ReadAt, Scanning
  <2> QED
    BY <2>1, <2>2, <2>3, <2>4, <2>5, <2>6, <2>7, <2>8, <2>9 DEF Read
<1>4. Become(rd'.pc, rd'.cur, rd'.todo, rd'.stats)
  BY <1>3 DEF Moves, Become
<1> QED
  <2>1. PICK p, c, t, s : p \in {"resolve", "blob", "visit", "done", "failed"} /\ Become(p, c, t, s)
    BY <1>3, <1>4
  <2> QED
    BY <1>2, <2>1, OtherMove

----------------------------------------------------------------------------
(* A scan visits an entry *)

LEMMA ScanFacts ==
  ASSUME ScanInv, Scanning, Visiting
  PROVE  /\ AtScan /\ Reading /\ rd.pc = "visit" /\ Shape /\ IInv
         /\ rd.todo \in Seq(SUBSET Hash) /\ rd.todo # <<>> /\ Parted(rd.todo)
         /\ Rest = ReachOf(AllOf(rd.todo)) /\ Rest \subseteq Whole /\ IsFiniteSet(Rest)
         /\ Siblings = Last(rd.todo) /\ Siblings \subseteq Hash
         /\ \A h : Without(h) = Drop(rd.todo, h)
         /\ rd.stats \in Counts
         /\ Vouched(rd.stats, Rest, {}) /\ (Calm => Tally(rd.stats, Rest, {}))
         /\ SoundFor(rd.op) \cap Whole \subseteq seen /\ kept \subseteq SoundFor(rd.op)
<1>1. /\ AtScan /\ Reading /\ rd.pc = "visit" /\ rd.todo # <<>> /\ Hashing = {}
  BY DEF Visiting, ReadAt, AtScan, Reading, Hashing
<1>2. /\ IInv /\ Shape /\ rd.head \in Commits
      /\ SoundFor(rd.op) \cap Whole \subseteq seen /\ kept \subseteq SoundFor(rd.op)
  BY <1>1 DEF ScanInv, ReadInv
<1>3. /\ rd.todo \in Seq(SUBSET Hash) /\ Parted(rd.todo) /\ Rest \subseteq Whole
      /\ rd.stats \in Counts
  BY <1>1 DEF ScanInv, TodoInv
<1>4. IsFiniteSet(Whole)
  BY <1>2, WholeFacts
<1>5. IsFiniteSet(Rest)
  BY <1>3, <1>4, FS_Subset
<1>6. Siblings = Last(rd.todo) /\ Last(rd.todo) \subseteq Hash
  BY <1>1, <1>3, LastLevelFacts DEF Siblings
<1>7. Vouched(rd.stats, Rest, {}) /\ (Calm => Tally(rd.stats, Rest, {}))
  BY <1>1 DEF ScanInv, CleanInv, CountInv
<1>8. \A h : Without(h) = Drop(rd.todo, h)
  BY DEF Without, Drop, Siblings
<1> QED
  BY <1>1, <1>2, <1>3, <1>5, <1>6, <1>7, <1>8 DEF Rest, Todo

(* The counts of one tree, of one blob, and of one hash more *)
LEMMA CountTree ==
  ASSUME NEW s \in Counts, NEW R, IsFiniteSet(R), NEW h \in R, obj[h].kind = "tree",
         NEW s2, s2 = [s EXCEPT !.trees = s.trees + 1]
  PROVE  /\ s2 \in Counts /\ s2.errors = s.errors /\ s2.missing = s.missing
         /\ Tally(s, R, {}) => Tally(s2, R \ {h}, {})
<1>1. /\ s2 \in Counts /\ s2.errors = s.errors /\ s2.missing = s.missing
      /\ s2.trees = s.trees + 1 /\ s2.blobs = s.blobs /\ s2.hashed = s.hashed /\ s.trees \in Nat
  BY DEF Counts
<1>2. /\ Cardinality(TreesIn(R \ {h})) = Cardinality(TreesIn(R)) - 1
      /\ BlobsIn(R \ {h}) = BlobsIn(R) /\ Cardinality(TreesIn(R)) \in Nat
  BY OneLess
<1>3. s2.trees + Cardinality(TreesIn(R \ {h})) = s.trees + Cardinality(TreesIn(R))
  BY <1>1, <1>2
<1> QED
  BY <1>1, <1>2, <1>3 DEF Tally

LEMMA CountBlob ==
  ASSUME NEW s \in Counts, NEW R, IsFiniteSet(R), NEW h \in R, obj[h].kind = "blob",
         NEW s2, s2 = [s EXCEPT !.blobs = s.blobs + 1]
  PROVE  /\ s2 \in Counts /\ s2.errors = s.errors /\ s2.missing = s.missing
         /\ Tally(s, R, {}) /\ rd.op = "quick" => Tally(s2, R \ {h}, {})
         /\ Tally(s, R, {}) /\ rd.op = "deep" => Tally(s2, R \ {h}, {h})
<1>1. /\ s2 \in Counts /\ s2.errors = s.errors /\ s2.missing = s.missing
      /\ s2.blobs = s.blobs + 1 /\ s2.trees = s.trees /\ s2.hashed = s.hashed
      /\ s.blobs \in Nat /\ s.hashed \in Nat
  BY DEF Counts
<1>2. /\ Cardinality(BlobsIn(R \ {h})) = Cardinality(BlobsIn(R)) - 1
      /\ TreesIn(R \ {h}) = TreesIn(R) /\ Cardinality(BlobsIn(R)) \in Nat
  BY OneLess
<1>3. s2.blobs + Cardinality(BlobsIn(R \ {h})) = s.blobs + Cardinality(BlobsIn(R))
  BY <1>1, <1>2
<1>4. Cardinality({h}) = 1 /\ Cardinality({}) = 0
  BY FS_Singleton, FS_EmptySet
<1>5. s.blobs = s.hashed + 0 => s2.blobs = s2.hashed + 1
  BY <1>1
<1> QED
  BY <1>1, <1>2, <1>3, <1>4, <1>5 DEF Tally

LEMMA CountHash ==
  ASSUME NEW s \in Counts, NEW R, NEW h, rd.op = "deep",
         NEW s2, s2 = [s EXCEPT !.hashed = s.hashed + 1]
  PROVE  /\ s2 \in Counts /\ s2.errors = s.errors /\ s2.missing = s.missing
         /\ Tally(s, R, {h}) => Tally(s2, R, {})
<1>1. /\ s2 \in Counts /\ s2.errors = s.errors /\ s2.missing = s.missing
      /\ s2.blobs = s.blobs /\ s2.trees = s.trees /\ s2.hashed = s.hashed + 1
      /\ s.blobs \in Nat /\ s.hashed \in Nat
  BY DEF Counts
<1>2. Cardinality({h}) = 1 /\ Cardinality({}) = 0
  BY FS_Singleton, FS_EmptySet
<1>3. s.blobs = s.hashed + 1 => s2.blobs = s2.hashed + 0
  BY <1>1
<1> QED
  BY <1>1, <1>2, <1>3 DEF Tally

(* A report with an error or a missing blob vouches for nothing. *)
Faulty(s) == s \in Counts /\ (s.errors # 0 \/ s.missing # 0)

(* An entry that could not be checked: so a call failed, or an object was gone. *)
LEMMA EntryLost ==
  ASSUME ScanInv, IInv', SameWorld, Scanning, Visiting, NEW h \in Siblings, NEW s, Faulty(s),
         Become("visit", rd.cur, Drop(rd.todo, h), s), disturbed => disturbed',
         disturbed' \/ ~(Whole \subseteq kept)
  PROVE  ScanInv'
<1>1. /\ Reading /\ rd.todo \in Seq(SUBSET Hash) /\ rd.todo # <<>> /\ Parted(rd.todo)
      /\ Rest = ReachOf(AllOf(rd.todo)) /\ Rest \subseteq Whole
      /\ h \in Last(rd.todo) /\ s \in Counts
  BY ScanFacts DEF Faulty
<1>2. PICK t : t = Drop(rd.todo, h)
  OBVIOUS
<1>3. t \in Seq(SUBSET Hash)
  BY <1>1, <1>2, WithoutFacts
<1>4. Parted(t) /\ ReachOf(AllOf(t)) \subseteq Rest
  BY <1>1, <1>2, WithoutRest
<1>5. Vouched(s, ReachOf(AllOf(t)), {}) /\ ~(Calm /\ ~disturbed')
  BY DEF Vouched, Faulty, Calm
<1>6. PICK R, c : R = ReachOf(AllOf(t)) /\ c = rd.cur
  OBVIOUS
<1>7. /\ Become("visit", c, t, s) /\ R \subseteq Whole /\ Vouched(s, R, {})
  BY <1>1, <1>2, <1>4, <1>5, <1>6
<1> QED
  BY <1>1, <1>3, <1>4, <1>5, <1>6, <1>7, ScanMove

LEMMA ScanVisitTree ==
  ASSUME ScanInv, IInv', SameWorld, UNCHANGED disturbed, Scanning, VisitTree
  PROVE  ScanInv'
<1>1. Visiting
  BY DEF VisitTree
<1>2. PICK h \in TreesIn(Siblings) :
        Ok(h) /\ rd' = [rd EXCEPT !.todo = Append(Without(h), Below(h)), !.stats.trees = @ + 1]
  BY DEF VisitTree
<1>3. /\ Reading /\ rd.pc = "visit" /\ Shape /\ IInv
      /\ rd.todo \in Seq(SUBSET Hash) /\ rd.todo # <<>> /\ Parted(rd.todo)
      /\ Rest = ReachOf(AllOf(rd.todo)) /\ Rest \subseteq Whole /\ IsFiniteSet(Rest)
      /\ Siblings = Last(rd.todo) /\ Without(h) = Drop(rd.todo, h)
      /\ rd.stats \in Counts
      /\ Vouched(rd.stats, Rest, {}) /\ (Calm => Tally(rd.stats, Rest, {}))
      /\ SoundFor(rd.op) \cap Whole \subseteq seen
  BY <1>1, ScanFacts
<1>4. h \in Last(rd.todo) /\ obj[h].kind = "tree"
  BY <1>3 DEF TreesIn
<1>5. PICK t, s, c, R, R1 :
        /\ t = Append(Drop(rd.todo, h), Below(h)) /\ c = rd.cur
        /\ s = [rd.stats EXCEPT !.trees = rd.stats.trees + 1]
        /\ R = ReachOf(AllOf(t)) /\ R1 = Rest
  OBVIOUS
<1>6. t \in Seq(SUBSET Hash) /\ Parted(t) /\ R = R1 \ {h} /\ h \in R1
  BY <1>3, <1>4, <1>5, VisitRest
<1>7. /\ s \in Counts /\ s.errors = rd.stats.errors /\ s.missing = rd.stats.missing
      /\ Tally(rd.stats, R1, {}) => Tally(s, R, {})
  <2>1. PICK s0 : s0 = rd.stats
    OBVIOUS
  <2>2. s0 \in Counts /\ IsFiniteSet(R1) /\ h \in R1
    BY <1>3, <1>5, <1>6, <2>1
  <2>3. s = [s0 EXCEPT !.trees = s0.trees + 1]
    BY <1>5, <2>1
  <2>4. /\ s \in Counts /\ s.errors = s0.errors /\ s.missing = s0.missing
        /\ Tally(s0, R1, {}) => Tally(s, R1 \ {h}, {})
    BY <1>4, <2>2, <2>3, CountTree
  <2> QED
    BY <1>6, <2>1, <2>4
<1>8. h \in seen
  BY <1>2, <1>3, <1>5, <1>6 DEF Ok
<1>9. Vouched(s, R, {}) /\ R \subseteq Whole /\ (Calm => Tally(s, R, {}))
  BY <1>3, <1>5, <1>6, <1>7, <1>8 DEF Vouched
<1>10. Become("visit", c, t, s)
  <2>1. rd' = [rd EXCEPT !.todo = t, !.stats = s]
    BY <1>2, <1>3, <1>5
  <2> QED
    BY <1>3, <1>5, <2>1 DEF Become, Shape
<1>11. R = ReachOf(AllOf(t)) /\ (disturbed => disturbed')
  BY <1>5
<1> QED
  BY <1>3, <1>6, <1>7, <1>9, <1>10, <1>11, ScanMove

(* Its errors: TreeUnreadable, or a call that throws *)
LEMMA ScanTreeError ==
  ASSUME ScanInv, IInv', SameWorld, Scanning, Visiting, disturbed => disturbed',
         NEW h \in TreesIn(Siblings), TreeError(h), disturbed' \/ ~Ok(h)
  PROVE  ScanInv'
<1>1. /\ Reading /\ rd.pc = "visit" /\ Shape /\ IInv
      /\ rd.todo \in Seq(SUBSET Hash) /\ rd.todo # <<>> /\ Parted(rd.todo)
      /\ Rest = ReachOf(AllOf(rd.todo)) /\ Rest \subseteq Whole
      /\ Siblings = Last(rd.todo) /\ Without(h) = Drop(rd.todo, h)
      /\ rd.stats \in Counts /\ kept \subseteq SoundFor(rd.op)
  BY ScanFacts
<1>2. h \in Siblings /\ h \in Last(rd.todo) /\ obj[h].kind = "tree"
  BY <1>1 DEF TreesIn
<1>3. h \in Rest
  BY <1>1, <1>2, VisitRest
<1>4. disturbed' \/ ~(Whole \subseteq kept)
  BY <1>1, <1>3 DEF Ok
<1>5. PICK s : s = [rd.stats EXCEPT !.errors = rd.stats.errors + 1]
  OBVIOUS
<1>6. Faulty(s)
  BY <1>1, <1>5 DEF Faulty, Counts
<1>7. rd' = [rd EXCEPT !.todo = Drop(rd.todo, h), !.stats = s]
  BY <1>1, <1>5 DEF TreeError
<1>8. Become("visit", rd.cur, Drop(rd.todo, h), s)
  BY <1>1, <1>7 DEF Become, Shape
<1> QED
  BY <1>2, <1>4, <1>6, <1>8, EntryLost

(* The check of a blob fails, or it is missing *)
LEMMA ScanBlobLost ==
  ASSUME ScanInv, IInv', SameWorld, Scanning, Visiting, disturbed => disturbed',
         NEW h \in BlobsIn(Siblings), disturbed' \/ h \notin remote,
         NEW s, Faulty(s), rd' = [rd EXCEPT !.todo = Without(h), !.stats = s]
  PROVE  ScanInv'
<1>1. /\ Reading /\ rd.pc = "visit" /\ Shape /\ IInv
      /\ rd.todo \in Seq(SUBSET Hash) /\ rd.todo # <<>> /\ Parted(rd.todo)
      /\ Rest = ReachOf(AllOf(rd.todo)) /\ Rest \subseteq Whole
      /\ Siblings = Last(rd.todo) /\ Without(h) = Drop(rd.todo, h)
      /\ kept \subseteq SoundFor(rd.op)
  BY ScanFacts
<1>2. h \in Siblings /\ h \in Last(rd.todo) /\ obj[h].kind = "blob"
  BY <1>1 DEF BlobsIn
<1>3. h \in Rest
  BY <1>1, <1>2, BlobRest
<1>4. disturbed' \/ ~(Whole \subseteq kept)
  BY <1>1, <1>3 DEF SoundFor
<1>5. Become("visit", rd.cur, Drop(rd.todo, h), s)
  BY <1>1 DEF Become, Shape
<1> QED
  BY <1>2, <1>4, <1>5, EntryLost

LEMMA ScanCheckBlob ==
  ASSUME ScanInv, IInv', SameWorld, UNCHANGED disturbed, Scanning, CheckBlob
  PROVE  ScanInv'
<1>1. Visiting
  BY DEF CheckBlob
<1>2. PICK h \in BlobsIn(Siblings) :
        rd' = IF h \notin remote
              THEN [rd EXCEPT !.todo = Without(h), !.stats.blobs = @ + 1, !.stats.missing = @ + 1]
              ELSE IF rd.op = "deep"
              THEN [rd EXCEPT !.todo = Without(h), !.stats.blobs = @ + 1, !.cur = h, !.pc = "hash"]
              ELSE [rd EXCEPT !.todo = Without(h), !.stats.blobs = @ + 1]
  BY DEF CheckBlob
<1>3. /\ Reading /\ rd.pc = "visit" /\ Shape /\ IInv
      /\ rd.todo \in Seq(SUBSET Hash) /\ rd.todo # <<>> /\ Parted(rd.todo)
      /\ Rest = ReachOf(AllOf(rd.todo)) /\ Rest \subseteq Whole /\ IsFiniteSet(Rest)
      /\ Siblings = Last(rd.todo) /\ Without(h) = Drop(rd.todo, h)
      /\ rd.stats \in Counts
      /\ Vouched(rd.stats, Rest, {}) /\ (Calm => Tally(rd.stats, Rest, {}))
      /\ SoundFor(rd.op) \cap Whole \subseteq seen
  BY <1>1, ScanFacts
<1>4. h \in Last(rd.todo) /\ obj[h].kind = "blob"
  BY <1>3 DEF BlobsIn
<1>5. PICK t, s, c, R, R1 :
        /\ t = Drop(rd.todo, h) /\ c = rd.cur
        /\ s = [rd.stats EXCEPT !.blobs = rd.stats.blobs + 1]
        /\ R = ReachOf(AllOf(t)) /\ R1 = Rest
  OBVIOUS
<1>6. t \in Seq(SUBSET Hash) /\ Parted(t) /\ R = R1 \ {h} /\ h \in R1
  BY <1>3, <1>4, <1>5, BlobRest
<1>7. /\ s \in Counts /\ s.errors = rd.stats.errors /\ s.missing = rd.stats.missing
      /\ Tally(rd.stats, R1, {}) /\ rd.op = "quick" => Tally(s, R, {})
      /\ Tally(rd.stats, R1, {}) /\ rd.op = "deep" => Tally(s, R, {h})
  <2>1. PICK s0 : s0 = rd.stats
    OBVIOUS
  <2>2. s0 \in Counts /\ IsFiniteSet(R1) /\ h \in R1
    BY <1>3, <1>5, <1>6, <2>1
  <2>3. s = [s0 EXCEPT !.blobs = s0.blobs + 1]
    BY <1>5, <2>1
  <2>4. /\ s \in Counts /\ s.errors = s0.errors /\ s.missing = s0.missing
        /\ Tally(s0, R1, {}) /\ rd.op = "quick" => Tally(s, R1 \ {h}, {})
        /\ Tally(s0, R1, {}) /\ rd.op = "deep" => Tally(s, R1 \ {h}, {h})
    BY <1>4, <2>2, <2>3, CountBlob
  <2> QED
    BY <1>6, <2>1, <2>4
<1>8. R \subseteq Whole /\ R = ReachOf(AllOf(t)) /\ (disturbed => disturbed')
  BY <1>3, <1>5, <1>6
<1>9. CASE h \notin remote
  <2>1. PICK s2 : s2 = [s EXCEPT !.missing = s.missing + 1]
    OBVIOUS
  <2>2. Faulty(s2)
    BY <1>7, <2>1 DEF Faulty, Counts
  <2>3. rd' = [rd EXCEPT !.todo = Without(h), !.stats.blobs = @ + 1, !.stats.missing = @ + 1]
    BY <1>2, <1>9
  <2>4. s2 = [rd.stats EXCEPT !.blobs = rd.stats.blobs + 1, !.missing = rd.stats.missing + 1]
    BY <1>3, <1>5, <2>1 DEF Counts
  <2>5. rd' = [rd EXCEPT !.todo = Without(h), !.stats = s2]
    BY <1>3, <2>3, <2>4 DEF Shape, Counts
  <2> QED
    BY <1>1, <1>9, <2>2, <2>5, ScanBlobLost
<1>10. CASE h \in remote /\ rd.op = "deep"
  <2>1. rd' = [rd EXCEPT !.todo = Without(h), !.stats.blobs = @ + 1, !.cur = h, !.pc = "hash"]
    BY <1>2, <1>10
  <2>2. rd' = [rd EXCEPT !.todo = t, !.stats = s, !.cur = h, !.pc = "hash"]
    BY <1>3, <1>5, <2>1 DEF Shape, Counts
  <2>3. Become("hash", h, t, s)
    BY <1>3, <2>2 DEF Become, Shape
  <2>4. Vouched(s, R, {h}) /\ (Calm => Tally(s, R, {h}))
    BY <1>3, <1>5, <1>6, <1>7, <1>10 DEF Vouched
  <2>5. h \in BlobsIn(Whole)
    BY <1>3, <1>4, <1>5, <1>6 DEF BlobsIn
  <2> QED
    BY <1>3, <1>6, <1>7, <1>8, <1>10, <2>3, <2>4, <2>5, ScanMove
<1>11. CASE h \in remote /\ rd.op # "deep"
  <2>0. rd.op = "quick"
    BY <1>11 DEF Scanning
  <2>1. rd' = [rd EXCEPT !.todo = Without(h), !.stats.blobs = @ + 1]
    BY <1>2, <1>11
  <2>2. rd' = [rd EXCEPT !.todo = t, !.stats = s]
    BY <1>3, <1>5, <2>1 DEF Shape, Counts
  <2>3. Become("visit", c, t, s)
    BY <1>3, <1>5, <2>2 DEF Become, Shape
  <2>4. h \in seen
    BY <1>3, <1>5, <1>6, <1>11, <2>0 DEF SoundFor
  <2>5. Vouched(s, R, {}) /\ (Calm => Tally(s, R, {}))
    BY <1>3, <1>5, <1>6, <1>7, <2>0, <2>4 DEF Vouched
  <2> QED
    BY <1>3, <1>6, <1>7, <1>8, <2>3, <2>5, ScanMove
<1> QED
  BY <1>9, <1>10, <1>11

----------------------------------------------------------------------------
(* A scan begins, comes back from a directory, hashes a blob, and reports *)

LEMMA ScanLoadCommit ==
  ASSUME ScanInv, IInv', SameWorld, UNCHANGED disturbed, Scanning, LoadCommit
  PROVE  ScanInv'
<1>0. /\ rd.pc = "commit" /\ Reading
  BY DEF LoadCommit, ReadAt, Reading
<1>1. /\ IInv /\ Shape /\ rd.head \in Commits /\ rd.stats = NoReport
      /\ SoundFor(rd.op) \cap Whole \subseteq seen /\ kept \subseteq SoundFor(rd.op)
  BY <1>0 DEF ScanInv, ReadInv
<1>2. PICK root, W : root = obj[rd.head].root /\ W = Whole
  OBVIOUS
<1>3. /\ rd.head \in Hash /\ IsFiniteSet(W) /\ rd.head \in W /\ root \in Hash
      /\ reach[root] = W \ {rd.head}
  BY <1>1, <1>2, WholeFacts
<1>4. CASE ~Ok(rd.head)
  <2>1. ~(Whole \subseteq kept)
    BY <1>1, <1>2, <1>3, <1>4 DEF Ok
  <2>2. rd' = [rd EXCEPT !.pc = "failed"]
    BY <1>4 DEF LoadCommit, Goto
  <2>3. Become("failed", rd.cur, rd.todo, rd.stats)
    BY <1>1, <2>2 DEF Become, Shape
  <2> QED
    BY <1>0, <2>1, <2>3, OtherMove
<1>5. CASE Ok(rd.head)
  <2>1. PICK t, s, R : t = <<{root}>> /\ s = NoReport /\ R = ReachOf(AllOf(t))
    OBVIOUS
  <2>2. t \in Seq(SUBSET Hash) /\ Len(t) = 1 /\ t[1] = {root}
    BY <1>3, <2>1
  <2>3. AllOf(t) = {root}
    BY <2>2 DEF AllOf
  <2>4. R = W \ {rd.head}
    BY <1>3, <2>1, <2>3 DEF ReachOf
  <2>5. Parted(t)
    BY <2>2 DEF Parted
  <2>6. rd' = [rd EXCEPT !.cur = root, !.todo = t, !.pc = "visit"]
    BY <1>2, <1>5, <2>1 DEF LoadCommit
  <2>7. Become("visit", root, t, s)
    BY <1>1, <2>1, <2>6 DEF Become, Shape
  <2>8. s \in Counts
    BY <2>1 DEF NoReport, Counts
  <2>9. rd.head \in seen
    BY <1>1, <1>2, <1>3, <1>5 DEF Ok
  <2>10. Vouched(s, R, {}) /\ R \subseteq Whole
    BY <1>2, <2>4, <2>9 DEF Vouched
  <2>11. obj[rd.head].kind = "commit"
    BY <1>1 DEF Commits
  <2>12. PICK h : h = rd.head
    OBVIOUS
  <2>13. /\ TreesIn(R) = TreesIn(W) /\ BlobsIn(R) = BlobsIn(W)
         /\ Cardinality(TreesIn(W)) \in Nat /\ Cardinality(BlobsIn(W)) \in Nat
    BY <1>3, <2>4, <2>11, <2>12, OneLess
  <2>14. Cardinality({}) = 0
    BY FS_EmptySet
  <2>15. Tally(s, R, {})
    BY <1>2, <2>1, <2>13, <2>14 DEF Tally, NoReport
  <2>16. R = ReachOf(AllOf(t)) /\ (disturbed => disturbed')
    BY <2>1
  <2> QED
    BY <1>0, <1>3, <2>2, <2>5, <2>7, <2>8, <2>10, <2>15, <2>16, ScanMove
<1> QED
  BY <1>4, <1>5

LEMMA ScanReturn ==
  ASSUME ScanInv, IInv', SameWorld, UNCHANGED disturbed, Scanning, Return
  PROVE  ScanInv'
<1>1. Visiting /\ Siblings = {} /\ rd' = [rd EXCEPT !.todo = Front(rd.todo)]
  BY DEF Return
<1>2. /\ Reading /\ rd.pc = "visit" /\ Shape
      /\ rd.todo \in Seq(SUBSET Hash) /\ rd.todo # <<>> /\ Parted(rd.todo)
      /\ Rest = ReachOf(AllOf(rd.todo)) /\ Rest \subseteq Whole
      /\ Siblings = Last(rd.todo)
      /\ rd.stats \in Counts
      /\ Vouched(rd.stats, Rest, {}) /\ (Calm => Tally(rd.stats, Rest, {}))
  BY <1>1, ScanFacts
<1>3. PICK t, s, c, R : t = Front(rd.todo) /\ s = rd.stats /\ c = rd.cur /\ R = Rest
  OBVIOUS
<1>4. t \in Seq(SUBSET Hash) /\ Parted(t) /\ AllOf(t) = AllOf(rd.todo)
  BY <1>1, <1>2, <1>3, PopRest
<1>5. R = ReachOf(AllOf(t)) /\ R \subseteq Whole /\ s \in Counts /\ (disturbed => disturbed')
  BY <1>2, <1>3, <1>4
<1>6. Become("visit", c, t, s)
  BY <1>1, <1>2, <1>3 DEF Become, Shape
<1>7. Vouched(s, R, {}) /\ (Calm => Tally(s, R, {}))
  BY <1>2, <1>3
<1> QED
  BY <1>2, <1>4, <1>5, <1>6, <1>7, ScanMove

LEMMA ScanReport ==
  ASSUME ScanInv, IInv', SameWorld, UNCHANGED disturbed, Scanning, Report
  PROVE  ScanInv'
<1>1. rd.pc = "visit" /\ rd.todo = <<>> /\ rd' = [rd EXCEPT !.pc = "done"]
  BY DEF Report, ReadAt, Goto
<1>2. /\ Reading /\ AtScan /\ Hashing = {}
  BY <1>1 DEF Reading, AtScan, Hashing
<1>3. /\ Shape /\ rd.todo \in Seq(SUBSET Hash) /\ Parted(rd.todo) /\ Rest \subseteq Whole
      /\ rd.stats \in Counts
      /\ Vouched(rd.stats, Rest, {}) /\ (Calm => Tally(rd.stats, Rest, {}))
  BY <1>2 DEF ScanInv, ReadInv, TodoInv, CleanInv, CountInv
<1>4. PICK t, s, c, R : t = rd.todo /\ s = rd.stats /\ c = rd.cur /\ R = Rest
  OBVIOUS
<1>5. /\ t \in Seq(SUBSET Hash) /\ Parted(t) /\ t = <<>> /\ R = ReachOf(AllOf(t))
      /\ R \subseteq Whole /\ s \in Counts /\ (disturbed => disturbed')
  BY <1>1, <1>3, <1>4 DEF Rest, Todo
<1>6. Become("done", c, t, s)
  BY <1>1, <1>3, <1>4 DEF Become, Shape
<1>7. Vouched(s, R, {}) /\ (Calm => Tally(s, R, {}))
  BY <1>3, <1>4
<1> QED
  BY <1>2, <1>5, <1>6, <1>7, ScanMove

(* What is known while a blob is being hashed *)
LEMMA HashFacts ==
  ASSUME ScanInv, rd.pc = "hash"
  PROVE  /\ Reading /\ Scanning /\ rd.op = "deep" /\ Shape
         /\ rd.todo \in Seq(SUBSET Hash) /\ Parted(rd.todo) /\ Rest \subseteq Whole
         /\ Rest = ReachOf(AllOf(rd.todo))
         /\ rd.cur \in Whole /\ rd.stats \in Counts
         /\ Vouched(rd.stats, Rest, {rd.cur}) /\ (Calm => Tally(rd.stats, Rest, {rd.cur}))
         /\ SoundFor(rd.op) \cap Whole \subseteq seen /\ kept \subseteq SoundFor(rd.op)
<1>1. Reading /\ rd.op = "deep" /\ Hashing = {rd.cur}
  BY DEF Reading, ScanInv, ReadInv, Hashing
<1>2. Scanning /\ AtScan
  BY <1>1 DEF Scanning, AtScan
<1>3. /\ Shape /\ SoundFor(rd.op) \cap Whole \subseteq seen /\ kept \subseteq SoundFor(rd.op)
  BY <1>1 DEF ScanInv, ReadInv
<1>4. /\ rd.todo \in Seq(SUBSET Hash) /\ Parted(rd.todo) /\ Rest \subseteq Whole
      /\ rd.cur \in BlobsIn(Whole) /\ rd.stats \in Counts
  BY <1>2 DEF ScanInv, TodoInv
<1>5. Vouched(rd.stats, Rest, {rd.cur}) /\ (Calm => Tally(rd.stats, Rest, {rd.cur}))
  BY <1>1, <1>2 DEF ScanInv, CleanInv, CountInv
<1> QED
  BY <1>1, <1>2, <1>3, <1>4, <1>5 DEF BlobsIn, Rest, Todo

(* The download fails, is gone, or has another hash. *)
LEMMA ScanHashError ==
  ASSUME ScanInv, IInv', SameWorld, disturbed => disturbed', rd.pc = "hash",
         rd' = [rd EXCEPT !.pc = "visit", !.stats.errors = @ + 1], disturbed' \/ ~Ok(rd.cur)
  PROVE  ScanInv'
<1>1. /\ Reading /\ Scanning /\ Shape
      /\ rd.todo \in Seq(SUBSET Hash) /\ Parted(rd.todo) /\ Rest \subseteq Whole
      /\ Rest = ReachOf(AllOf(rd.todo)) /\ rd.cur \in Whole /\ rd.stats \in Counts
      /\ kept \subseteq SoundFor(rd.op)
  BY HashFacts
<1>2. PICK t, s, c, R : /\ t = rd.todo /\ c = rd.cur /\ R = Rest
                        /\ s = [rd.stats EXCEPT !.errors = rd.stats.errors + 1]
  OBVIOUS
<1>3. s \in Counts /\ s.errors # 0
  BY <1>1, <1>2 DEF Counts
<1>4. Vouched(s, R, {}) /\ ~(Calm /\ ~disturbed')
  BY <1>1, <1>3 DEF Vouched, Calm, Ok
<1>5. Become("visit", c, t, s)
  <2>1. rd' = [rd EXCEPT !.pc = "visit", !.stats = s]
    BY <1>2
  <2> QED
    BY <1>1, <1>2, <2>1 DEF Become, Shape
<1>6. t \in Seq(SUBSET Hash) /\ Parted(t) /\ R = ReachOf(AllOf(t)) /\ R \subseteq Whole
  BY <1>1, <1>2
<1> QED
  BY <1>1, <1>3, <1>4, <1>5, <1>6, ScanMove

LEMMA ScanHashBlob ==
  ASSUME ScanInv, IInv', SameWorld, UNCHANGED disturbed, HashBlob
  PROVE  ScanInv'
<1>1. rd.pc = "hash"
  BY DEF HashBlob, ReadAt
<1>2. /\ Reading /\ Scanning /\ rd.op = "deep" /\ Shape
      /\ rd.todo \in Seq(SUBSET Hash) /\ Parted(rd.todo) /\ Rest \subseteq Whole
      /\ Rest = ReachOf(AllOf(rd.todo)) /\ rd.cur \in Whole /\ rd.stats \in Counts
      /\ Vouched(rd.stats, Rest, {rd.cur}) /\ (Calm => Tally(rd.stats, Rest, {rd.cur}))
      /\ SoundFor(rd.op) \cap Whole \subseteq seen
  BY <1>1, HashFacts
<1>3. CASE ~Ok(rd.cur)
  <2>1. rd' = [rd EXCEPT !.pc = "visit", !.stats.errors = @ + 1]
    BY <1>3 DEF HashBlob
  <2> QED
    BY <1>1, <1>3, <2>1, ScanHashError
<1>4. CASE Ok(rd.cur)
  <2>1. PICK t, s0, s, c, R : /\ t = rd.todo /\ c = rd.cur /\ R = Rest /\ s0 = rd.stats
                              /\ s = [s0 EXCEPT !.hashed = s0.hashed + 1]
    OBVIOUS
  <2>2. s0 \in Counts
    BY <1>2, <2>1
  <2>3. /\ s \in Counts /\ s.errors = s0.errors /\ s.missing = s0.missing
        /\ Tally(s0, R, {c}) => Tally(s, R, {})
    BY <1>2, <2>1, <2>2, CountHash
  <2>4. c \in seen
    BY <1>2, <1>4, <2>1 DEF Ok
  <2>5. Vouched(s, R, {}) /\ (Calm => Tally(s, R, {}))
    BY <1>2, <2>1, <2>3, <2>4 DEF Vouched
  <2>6. rd' = [rd EXCEPT !.pc = "visit", !.stats = s]
    BY <1>4, <2>1 DEF HashBlob
  <2>7. Become("visit", c, t, s)
    BY <1>2, <2>1, <2>6 DEF Become, Shape
  <2>8. /\ t \in Seq(SUBSET Hash) /\ Parted(t) /\ R = ReachOf(AllOf(t)) /\ R \subseteq Whole
        /\ (disturbed => disturbed')
    BY <1>2, <2>1
  <2> QED
    BY <1>2, <2>3, <2>5, <2>7, <2>8, ScanMove
<1> QED
  BY <1>3, <1>4

----------------------------------------------------------------------------
(* Every step keeps the invariant *)

LEMMA ReadStep ==
  ASSUME ScanInv, Read
  PROVE  ScanInv'
<1>1. UNCHANGED <<vars, rotten, seen, kept, disturbed>>
  BY DEF Read, LoadCommit, Resolve, Resolved, ResolveMissing, ReadFile, Return, VisitTree,
         TreeUnreadable, CheckBlob, HashBlob, Report
<1>2. IInv /\ ReadInv
  BY DEF ScanInv
<1>3. IInv' /\ SameWorld /\ UNCHANGED disturbed
  BY <1>1, <1>2, ReaderFacts DEF SameWorld
<1>4. CASE ~Scanning
  <2>1. Reading
    BY DEF Read, LoadCommit, Resolve, Resolved, ResolveMissing, ReadFile, Return, VisitTree,
           TreeUnreadable, CheckBlob, HashBlob, Report, Visiting, ReadAt, Reading
  <2> QED
    BY <1>1, <1>4, <2>1, PlainRead
<1>5. CASE Scanning
  <2>1. ~Resolve /\ ~Resolved /\ ~ResolveMissing /\ ~ReadFile
    BY <1>2, <1>5 DEF ReadInv, Resolve, Resolved, ResolveMissing, ReadFile, ReadAt
  <2>2. CASE TreeUnreadable
    BY <1>3, <1>5, <2>2, ScanTreeError DEF TreeUnreadable
  <2>3. CASE LoadCommit \/ Return \/ VisitTree \/ CheckBlob \/ HashBlob \/ Report
    BY <1>3, <1>5, <2>3, ScanLoadCommit, ScanReturn, ScanVisitTree, ScanCheckBlob,
       ScanHashBlob, ScanReport
  <2> QED
    BY <2>1, <2>2, <2>3 DEF Read
<1> QED
  BY <1>4, <1>5

LEMMA ReadFailsStep ==
  ASSUME ScanInv, ReadFails
  PROVE  ScanInv'
<1>1. /\ IInv /\ Shape /\ disturbed' /\ Fault
      /\ UNCHANGED <<storeVars, headVars, cmd, poolVars, ghostVars, cmds, rotten, seen, kept>>
  BY DEF ScanInv, ReadInv, ReadFails
<1>2. IInv' /\ SameWorld /\ (disturbed => disturbed')
  <2>1. UNCHANGED <<obj, reach, headVars, cmd, poolVars, ghostVars, cmds>> /\ remote' \subseteq remote
    BY <1>1 DEF storeVars
  <2> QED
    BY <1>1, <2>1, FaultStep DEF SameWorld, storeVars
<1>3. ASSUME Reading, Goto("failed") PROVE ScanInv'
  <2>1. Become("failed", rd.cur, rd.todo, rd.stats)
    BY <1>1, <1>3 DEF Goto, Become, Shape
  <2>2. PICK c, t, s : Become("failed", c, t, s)
    BY <2>1
  <2> QED
    BY <1>1, <1>2, <1>3, <2>2, OtherMove
<1>4. CASE rd.pc \in {"commit", "resolve", "blob"} /\ Goto("failed")
  BY <1>3, <1>4 DEF Reading
<1>5. ASSUME Visiting, NEW h \in TreesIn(Siblings), TreeError(h) PROVE ScanInv'
  <2>1. CASE Scanning
    BY <1>1, <1>2, <1>5, <2>1, ScanTreeError
  <2>2. CASE ~Scanning
    BY <1>3, <1>5, <2>2 DEF TreeError, Visiting, ReadAt, Reading
  <2> QED
    BY <2>1, <2>2
<1>6. ASSUME Visiting, NEW h \in BlobsIn(Siblings),
             rd' = [rd EXCEPT !.todo = Without(h), !.stats.blobs = @ + 1, !.stats.errors = @ + 1]
      PROVE  ScanInv'
  <2>1. Reading /\ rd.pc = "visit"
    BY <1>6 DEF Visiting, ReadAt, Reading
  <2>2. CASE Scanning
    <3>1. PICK s0, s1, s : /\ s0 = rd.stats
                           /\ s1 = [s0 EXCEPT !.blobs = s0.blobs + 1]
                           /\ s = [s1 EXCEPT !.errors = s0.errors + 1]
      OBVIOUS
    <3>2. s0 \in Counts
      BY <1>6, <2>2, <3>1, ScanFacts
    <3>3. Faulty(s)
      <4>1. s0.blobs \in Nat /\ s0.errors \in Nat
        BY <3>2 DEF Counts
      <4>2. s1 \in Counts
        BY <3>1, <3>2, <4>1 DEF Counts
      <4>3. PICK n : n = s0.errors + 1
        OBVIOUS
      <4>4. n \in Nat /\ n # 0
        BY <4>1, <4>3
      <4>5. s = [s1 EXCEPT !.errors = n]
        BY <3>1, <4>3
      <4>6. s \in Counts /\ s.errors = n
        BY <4>2, <4>4, <4>5 DEF Counts
      <4> QED
        BY <4>4, <4>6 DEF Faulty
    <3>4. rd' = [rd EXCEPT !.todo = Without(h), !.stats = s]
      BY <1>1, <1>6, <3>1, <3>2 DEF Shape, Counts
    <3> QED
      BY <1>1, <1>2, <1>6, <2>2, <3>3, <3>4, ScanBlobLost
  <2>3. CASE ~Scanning
    <3>1. Become("visit", rd'.cur, rd'.todo, rd'.stats)
      BY <1>1, <1>6, <2>1 DEF Become, Shape
    <3>2. PICK c, t, s : Become("visit", c, t, s)
      BY <3>1
    <3> QED
      BY <1>2, <2>1, <2>3, <3>2, OtherMove
  <2> QED
    BY <2>2, <2>3
<1>7. CASE ReadAt("hash") /\ rd' = [rd EXCEPT !.pc = "visit", !.stats.errors = @ + 1]
  BY <1>1, <1>2, <1>7, ScanHashError DEF ReadAt
<1> QED
  BY <1>4, <1>5, <1>6, <1>7 DEF ReadFails

LEMMA StartReadStep ==
  ASSUME ScanInv, NEW d \in Device, StartRead(d)
  PROVE  ScanInv'
<1>1. /\ IInv /\ UNCHANGED vars /\ rotten' = rotten /\ disturbed' = FALSE
  BY DEF ScanInv, StartRead
<1>2. IInv' /\ UNCHANGED <<obj, reach, remote, localHead>>
  BY <1>1, ReaderFacts
<1>3. localHead[d] \in Commits \cup {NoHead, TornHead}
  BY <1>1 DEF IInv, TypeOK
<1>4. PICK op, p :
        /\ rd' = [Idle EXCEPT !.op = op, !.path = p, !.head = localHead[d],
                    !.pc = IF localHead[d] \in {NoHead, TornHead} THEN "failed" ELSE "commit"]
        /\ seen' = SoundFor(op) \cap Snapshot(localHead[d])
        /\ kept' = SoundFor(op) \cap Snapshot(localHead[d])
  BY DEF StartRead
<1>5. /\ Shape' /\ rd'.op = op /\ rd'.head = localHead[d] /\ rd'.stats = NoReport
      /\ rd'.pc = IF localHead[d] \in {NoHead, TornHead} THEN "failed" ELSE "commit"
  BY <1>4 DEF Idle, Shape
<1>6. Commits' = Commits /\ SoundFor(op)' = SoundFor(op)
      /\ Whole' = Snapshot(localHead[d])
  BY <1>1, <1>2, <1>5 DEF Commits, Hash, SoundFor, Whole, Snapshot
<1>7. (SoundFor(rd.op) \cap Whole)' \subseteq seen' /\ kept' \subseteq SoundFor(rd.op)'
  BY <1>1, <1>2, <1>4, <1>5, <1>6 DEF SoundFor
<1>8. ReadInv'
  BY <1>3, <1>5, <1>6, <1>7 DEF ReadInv, ReadLabel, Reading
<1>9. ~AtScan' /\ (rd'.pc = "failed" => Whole' = {})
  BY <1>5, <1>6 DEF AtScan, Snapshot
<1> QED
  BY <1>2, <1>8, <1>9 DEF ScanInv, TodoInv, CleanInv, CountInv

LEMMA IdleScan ==
  ASSUME IInv, rd = Idle
  PROVE  ScanInv
<1>1. Shape /\ rd.pc = "idle" /\ rd.head = NoHead
  BY DEF Idle, Shape
<1>2. ReadInv
  BY <1>1 DEF ReadInv, ReadLabel, Reading
<1>3. ~AtScan
  BY <1>1 DEF AtScan
<1> QED
  BY <1>1, <1>2, <1>3 DEF ScanInv, TodoInv, CleanInv, CountInv

LEMMA LeaveStep ==
  ASSUME ScanInv, Leave
  PROVE  ScanInv'
<1>1. IInv /\ UNCHANGED vars /\ rd' = Idle
  BY DEF ScanInv, Leave
<1>2. IInv'
  BY <1>1, ReaderFacts
<1>3. Shape' /\ rd'.pc = "idle" /\ rd'.head = NoHead
  BY <1>1 DEF Idle, Shape
<1>4. ReadInv'
  BY <1>3 DEF ReadInv, ReadLabel, Reading
<1>5. ~AtScan'
  BY <1>3 DEF AtScan
<1> QED
  BY <1>2, <1>3, <1>4, <1>5 DEF ScanInv, TodoInv, CleanInv, CountInv

LEMMA OtherStep ==
  ASSUME ScanInv, (\E d \in Device : EngineStep(d)) \/ Rot \/ Lose
  PROVE  ScanInv'
<1>0. IInv
  BY DEF ScanInv
<1>1. ASSUME NEW d \in Device, EngineStep(d) PROVE ScanInv'
  <2>1. Start(d) \/ Proceed(d) \/ Answer(d) \/ Upload(d) \/ Fail(d)
    BY <1>1 DEF EngineStep
  <2>2. IInv'
    BY <1>0, <2>1, NextIInv DEF Next
  <2>3. Grown
    BY <1>0, <2>1, EngineGrown
  <2>4. UNCHANGED <<rd, disturbed>> /\ Observe
    BY <1>1 DEF EngineStep
  <2> QED
    BY <2>2, <2>3, <2>4, WorldStep
<1>2. CASE Rot \/ Lose
  <2>1. /\ Fault /\ remote' \subseteq remote
        /\ UNCHANGED <<obj, reach, headVars, cmd, poolVars, ghostVars, cmds>>
    BY <1>2 DEF Rot, Lose, storeVars
  <2>2. UNCHANGED <<rd, disturbed>> /\ Observe
    BY <1>2 DEF Rot, Lose
  <2>3. IInv' /\ Grown
    BY <1>0, <2>1, FaultStep
  <2> QED
    BY <2>2, <2>3, WorldStep
<1> QED
  BY <1>1, <1>2

LEMMA StutterScan ==
  ASSUME ScanInv, UNCHANGED scanVars
  PROVE  ScanInv'
<1>1. /\ UNCHANGED vars /\ rd' = rd /\ rotten' = rotten /\ seen' = seen /\ kept' = kept
      /\ disturbed' = disturbed /\ IInv
  BY DEF scanVars, readVars, ScanInv
<1>2. IInv' /\ UNCHANGED <<obj, reach, remote>>
  BY <1>1, ReaderFacts
<1>3. Hash' = Hash /\ Commits' = Commits /\ Whole' = Whole /\ SoundFor(rd.op)' = SoundFor(rd.op)
  BY <1>1, <1>2 DEF Hash, Commits, Whole, Snapshot, SoundFor
<1>4. ReadInv'
  BY <1>1, <1>3 DEF ScanInv, ReadInv, Shape, Reading, Scanning
<1>5. /\ AtScan' <=> AtScan
      /\ Scanning' <=> Scanning
      /\ Rest' = Rest /\ Hashing' = Hashing
      /\ TreesIn(Rest)' = TreesIn(Rest) /\ BlobsIn(Rest)' = BlobsIn(Rest)
      /\ TreesIn(Whole)' = TreesIn(Whole) /\ BlobsIn(Whole)' = BlobsIn(Whole)
      /\ Parted(rd.todo)' <=> Parted(rd.todo)
  BY <1>1, <1>2, <1>3
     DEF AtScan, Scanning, Rest, Todo, ReachOf, Hashing, TreesIn, BlobsIn, Parted
<1>6. TodoInv'
  BY <1>1, <1>3, <1>5 DEF ScanInv, TodoInv
<1>7. CleanInv'
  BY <1>1, <1>3, <1>5 DEF ScanInv, CleanInv, Vouched
<1>8. CountInv'
  BY <1>1, <1>3, <1>5 DEF ScanInv, CountInv, Calm, Tally
<1> QED
  BY <1>2, <1>4, <1>6, <1>7, <1>8 DEF ScanInv

LEMMA NextScanInv == ScanInv /\ [ScanNext]_scanVars => ScanInv'
<1> SUFFICES ASSUME ScanInv, [ScanNext]_scanVars PROVE ScanInv'
  OBVIOUS
<1>1. ASSUME NEW d \in Device, EngineStep(d) \/ StartRead(d) PROVE ScanInv'
  BY <1>1, OtherStep, StartReadStep
<1>2. CASE Read \/ Leave \/ ReadFails \/ Rot \/ Lose
  BY <1>2, ReadStep, LeaveStep, ReadFailsStep, OtherStep
<1>3. CASE UNCHANGED scanVars
  BY <1>3, StutterScan
<1> QED
  BY <1>1, <1>2, <1>3 DEF ScanNext

THEOREM ScanInvariance == ScanSpec => []ScanInv
<1>1. ScanInit => ScanInv
  BY InitIInv, IdleScan DEF ScanInit
<1> QED
  BY <1>1, NextScanInv, PTL DEF ScanSpec

----------------------------------------------------------------------------
(* The theorems *)

(* A quick-scan or deep-scan that reports no error and no missing blob has found each
   object of its snapshot in the cloud (for deep-scan unaltered) at some moment of
   the scan, whatever commands, uploads, losses and failed calls there are meanwhile
   (VaultEngine::scan_tree). *)
THEOREM ACleanScanVouches == ScanSpec => []CleanMeansSound
<1>1. ScanInv => CleanMeansSound
  <2> SUFFICES ASSUME ScanInv, ReadAt("done"), Scanning, Clean PROVE Whole \subseteq seen
    BY DEF CleanMeansSound
  <2>1. AtScan /\ Hashing = {}
    BY DEF ReadAt, AtScan, Hashing
  <2>2. rd.todo = <<>>
    BY <2>1 DEF ScanInv, TodoInv, ReadAt
  <2>3. Rest = {}
    BY <2>2 DEF Rest, Todo, AllOf, ReachOf
  <2>4. Vouched(rd.stats, Rest, Hashing)
    BY <2>1 DEF ScanInv, CleanInv
  <2> QED
    BY <2>1, <2>3, <2>4 DEF Vouched, Clean
<1> QED
  BY <1>1, ScanInvariance, PTL

(* A scan whose calls all succeed, over a snapshot that stays sound while it runs,
   ends without an alarm, and counts each tree and each blob of the snapshot exactly
   once (VaultEngine::quick_scan, deep_scan, scan_tree). *)
THEOREM ScansRaiseNoFalseAlarm == ScanSpec => []NoFalseAlarm
<1>1. ScanInv => NoFalseAlarm
  <2> SUFFICES ASSUME ScanInv, Scanning, rd.pc \in {"done", "failed"}, ~disturbed,
                      Whole # {}, Whole \subseteq kept
               PROVE  /\ ReadAt("done")
                      /\ rd.stats =
                           [trees   |-> Cardinality(TreesIn(Whole)),
                            blobs   |-> Cardinality(BlobsIn(Whole)),
                            missing |-> 0,
                            hashed  |-> IF rd.op = "deep" THEN Cardinality(BlobsIn(Whole)) ELSE 0,
                            errors  |-> 0]
    BY DEF NoFalseAlarm
  <2>1. Calm
    BY DEF Calm
  <2>2. rd.pc = "done" /\ AtScan /\ Hashing = {}
    BY <2>1 DEF ScanInv, CountInv, AtScan, Hashing
  <2>3. rd.todo = <<>> /\ rd.stats \in Counts
    BY <2>2 DEF ScanInv, TodoInv
  <2>4. Rest = {}
    BY <2>3 DEF Rest, Todo, AllOf, ReachOf
  <2>5. TreesIn(Rest) = {} /\ BlobsIn(Rest) = {} /\ Cardinality({}) = 0
    BY <2>4, FS_EmptySet DEF TreesIn, BlobsIn
  <2>6. Tally(rd.stats, Rest, Hashing)
    BY <2>1, <2>2 DEF ScanInv, CountInv
  <2>7. PICK s, nt, nb : /\ s = rd.stats /\ nt = Cardinality(TreesIn(Whole))
                         /\ nb = Cardinality(BlobsIn(Whole))
    OBVIOUS
  <2>8. /\ s \in Counts /\ s.trees + 0 = nt /\ s.blobs + 0 = nb /\ s.missing = 0 /\ s.errors = 0
        /\ rd.op = "quick" => s.hashed = 0
        /\ rd.op = "deep" => s.blobs = s.hashed + 0
    BY <2>2, <2>3, <2>5, <2>6, <2>7 DEF Tally
  <2>9. /\ s.trees = nt /\ s.blobs = nb
        /\ s.hashed = IF rd.op = "deep" THEN nb ELSE 0
    BY <2>8 DEF Counts, Scanning
  <2>10. s = [trees |-> nt, blobs |-> nb, missing |-> 0,
              hashed |-> IF rd.op = "deep" THEN nb ELSE 0, errors |-> 0]
    BY <2>8, <2>9 DEF Counts
  <2> QED
    BY <2>2, <2>7, <2>10 DEF ReadAt
<1> QED
  BY <1>1, ScanInvariance, PTL

----------------------------------------------------------------------------
(* list, tree and cat *)

(* What a command that answers for one path knows of it on its way *)
Plain       == rd.pc # "idle" /\ ~Scanning
Undisturbed == ~disturbed /\ Whole # {} /\ Whole \subseteq kept
Root        == obj[rd.head].root
Met(k)      == Trail(obj, Root, rd.path)[k]

AnswerAt(p, c, l, t) ==
  /\ p = "commit" => l = 1
  /\ p = "resolve" => l \in 1..(Len(rd.path) + 1) /\ c = Met(l - 1) /\ TreeIn(obj, c)
  /\ p = "blob" => rd.op = "cat" /\ c = Named /\ IsBlob(Named)
  /\ p = "visit" => rd.op = "tree" /\ Named # 0 /\ t \in Seq(SUBSET TreesIn(Whole))
  /\ p = "done" => Suits

AnswerInv ==
  Plain =>
    /\ rd.op \in {"list", "tree", "cat"} /\ Components(rd.path)
    /\ AnswerAt(rd.pc, rd.cur, rd.lvl, rd.todo)
    /\ rd.pc = "failed" => ~(Undisturbed /\ Suits)

ReaderInv == ScanInv /\ EditInv /\ ReachInv /\ AnswerInv

(* What is met on the way is known, no commit, and in the snapshot. *)
LEMMA MetFacts ==
  ASSUME ScanInv, ReachInv, Components(rd.path), rd.head \in Commits
  PROVE  /\ Len(rd.path) \in Nat /\ Named = Met(Len(rd.path))
         /\ Met(0) = Root /\ TreeIn(obj, Root)
         /\ IsTrail(obj, Root, rd.path, Len(rd.path), Trail(obj, Root, rd.path))
         /\ \A k \in 0..Len(rd.path) :
              Met(k) # 0 => Met(k) \in Whole /\ Met(k) \in Hash /\ obj[Met(k)].kind # "commit"
<1> DEFINE n == Len(rd.path)
           t == Trail(obj, Root, rd.path)
<1>1. /\ IInv /\ StoreInv(obj, reach) /\ obj \in Seq(Object) /\ Entries(obj)
      /\ NoCommitBelow(obj, reach) /\ n \in Nat /\ \A k \in 1..n : rd.path[k] \in Name
  BY StoreEntries DEF ScanInv, IInv, TypeOK, ReachInv, Components
<1>2. /\ Root \in 1..Len(obj) /\ Root \in 0..Len(obj) /\ obj[Root].kind = "tree"
      /\ Whole \subseteq Hash /\ reach[Root] \subseteq Whole
  BY <1>1, WholeFacts DEF Root, Hash
<1>3. IsTrail(obj, Root, rd.path, n, t)
  BY <1>1, <1>2, TrailFacts
<1>4. Named = t[n] /\ \A k \in 0..n : Met(k) = t[k]
  BY DEF Named, ResolvePath, Root, Met
<1> HIDE DEF t
<1>5. t[0] = Root
  BY <1>3 DEF IsTrail
<1>6. \A k \in 0..n : t[k] # 0 => t[k] \in reach[Root]
  BY <1>1, <1>2, <1>3, TrailReached
<1>7. \A k \in 0..n : t[k] # 0 => t[k] \in Whole /\ t[k] \in Hash /\ obj[t[k]].kind # "commit"
  BY <1>1, <1>2, <1>6 DEF NoCommitBelow
<1>8. n \in 0..n /\ 0 \in 0..n
  BY <1>1
<1> QED
  BY <1>1, <1>2, <1>3, <1>4, <1>5, <1>7, <1>8 DEF TreeIn, t

(* The entry that is loaded next *)
LEMMA HereFacts ==
  ASSUME ScanInv, ReachInv, AnswerInv, Plain, ReadAt("resolve"), rd.head \in Commits, ~PathDone
  PROVE  /\ rd.lvl \in 1..Len(rd.path) /\ Here = Met(rd.lvl)
         /\ Here # 0 => Here \in Hash /\ (IsTree(Here) \/ IsBlob(Here))
         /\ Barren(obj, Here) /\ rd.lvl # Len(rd.path) => Named = 0
<1> DEFINE n == Len(rd.path)
           t == Trail(obj, Root, rd.path)
           l == rd.lvl
<1>1. /\ Components(rd.path) /\ l \in 1..(n + 1) /\ rd.cur = Met(l - 1) /\ TreeIn(obj, rd.cur)
  BY DEF AnswerInv, AnswerAt, ReadAt
<1>2. /\ n \in Nat /\ Named = Met(n) /\ IsTrail(obj, Root, rd.path, n, t)
      /\ \A k \in 0..n :
           Met(k) # 0 => Met(k) \in Hash /\ obj[Met(k)].kind # "commit"
  BY <1>1, MetFacts
<1>3. l \in 1..n /\ l \in 0..n /\ l \in (0 + 1)..n /\ l \in Nat
  BY <1>1, <1>2 DEF PathDone
<1>4. \A k \in 0..n : Met(k) = t[k]
  BY DEF Met
<1> HIDE DEF t
<1>5. t[l] = Follow(obj, t[l - 1], rd.path[l])
  BY <1>2, <1>3 DEF IsTrail, Follows
<1>6. t[l - 1] = rd.cur
  <2>1. l - 1 \in 0..n
    BY <1>3, <1>2
  <2> QED
    BY <1>1, <1>4, <2>1
<1>7. Here = Met(l) /\ Here = t[l]
  <2>1. rd.cur # 0 /\ obj[rd.cur].kind = "tree"
    BY <1>1 DEF TreeIn
  <2>2. Here = Follow(obj, rd.cur, rd.path[l])
    BY <2>1 DEF Here, Follow
  <2> QED
    BY <1>3, <1>4, <1>5, <1>6, <2>2
<1>8. obj \in Seq(Object)
  BY DEF ScanInv, IInv, TypeOK
<1>9. Here # 0 => Here \in Hash /\ (IsTree(Here) \/ IsBlob(Here))
  <2> SUFFICES ASSUME Here # 0 PROVE Here \in Hash /\ (IsTree(Here) \/ IsBlob(Here))
    OBVIOUS
  <2>1. Here \in Hash /\ obj[Here].kind # "commit"
    BY <1>2, <1>3, <1>7
  <2>2. obj[Here] \in Object
    BY <1>8, <2>1 DEF Hash
  <2> QED
    BY <2>1, <2>2 DEF Object, IsTree, IsBlob
<1>10. ASSUME Barren(obj, Here), l # n PROVE Named = 0
  <2>1. l \in Nat /\ l < n /\ Barren(obj, t[l])
    BY <1>2, <1>3, <1>7, <1>10
  <2>2. t[n] = 0
    BY <1>1, <1>2, <2>1, DeadTrail
  <2>3. n \in 0..n
    BY <1>2
  <2> QED
    BY <1>2, <1>4, <2>2, <2>3
<1> QED
  BY <1>3, <1>7, <1>9, <1>10

(* The reader stays with its question and its snapshot. *)
Goes(p, c, l, t) ==
  /\ rd'.op = rd.op /\ rd'.path = rd.path /\ rd'.head = rd.head
  /\ rd'.pc = p /\ rd'.cur = c /\ rd'.lvl = l /\ rd'.todo = t

(* A step of a plain read, in a world that stays as it is *)
LEMMA AnswerMove ==
  ASSUME ReaderInv, ScanInv', Plain, Reading, SameWorld, UNCHANGED <<cmd, localHead>>,
         NEW p, NEW c, NEW l, NEW t, Goes(p, c, l, t),
         AnswerAt(p, c, l, t),
         p = "failed" => disturbed' \/ ~(Whole \subseteq kept) \/ ~Suits,
         disturbed => disturbed'
  PROVE  ReaderInv'
<1>1. /\ obj' = obj /\ reach' = reach /\ kept' = kept /\ cmd' = cmd /\ localHead' = localHead
      /\ EditInv /\ ReachInv /\ AnswerInv
      /\ rd'.op = rd.op /\ rd'.path = rd.path /\ rd'.head = rd.head
      /\ rd'.pc = p /\ rd'.cur = c /\ rd'.lvl = l /\ rd'.todo = t
  BY DEF SameWorld, ReaderInv, Goes
<1>2. EditInv' /\ ReachInv'
  BY <1>1 DEF EditInv, ReachInv, Commits, Hash
<1>3. /\ Root' = Root /\ Named' = Named /\ (Suits' <=> Suits) /\ Whole' = Whole
      /\ \A k : Met(k)' = Met(k)
  BY <1>1 DEF Root, Named, Suits, Whole, Snapshot, Met, IsTree, IsBlob
<1>4. Scanning' <=> Scanning
  BY <1>1 DEF Scanning
<1>5. rd.op \in {"list", "tree", "cat"} /\ Components(rd.path)
  BY <1>1 DEF AnswerInv
<1>6. AnswerAt(rd.pc, rd.cur, rd.lvl, rd.todo)'
  <2>1. (IsBlob(Named)' <=> IsBlob(Named)) /\ TreesIn(Whole)' = TreesIn(Whole)
    BY <1>1, <1>3 DEF IsBlob, TreesIn
  <2>2. p = "resolve" => rd'.cur = Met(rd.lvl - 1)'
    BY <1>1, <1>3 DEF AnswerAt, Met, Root
  <2> QED
    BY <1>1, <1>3, <2>1, <2>2 DEF AnswerAt
<1>7. rd'.pc = "failed" => ~(Undisturbed /\ Suits)'
  BY <1>1, <1>3 DEF Undisturbed
<1>8. AnswerInv'
  BY <1>1, <1>4, <1>5, <1>6, <1>7 DEF AnswerInv
<1> QED
  BY <1>2, <1>8 DEF ReaderInv

(* What a plain read keeps of its snapshot while it goes on *)
LEMMA PlainFacts ==
  ASSUME ReaderInv, Plain, Reading
  PROVE  /\ ScanInv /\ ReachInv /\ AnswerInv /\ IInv /\ Shape /\ rd.head \in Commits
         /\ AnswerAt(rd.pc, rd.cur, rd.lvl, rd.todo) /\ Components(rd.path)
         /\ rd.op \in {"list", "tree", "cat"} /\ rd.pc \in {"commit", "resolve", "blob", "visit"}
         /\ Whole \subseteq Hash /\ rd.head \in Whole
         /\ \A h \in Whole : Ok(h) \/ ~(Whole \subseteq kept)
<1>1. /\ ScanInv /\ ReachInv /\ AnswerInv /\ IInv /\ ReadInv
  BY DEF ReaderInv, ScanInv
<1>2. Shape /\ rd.head \in Commits /\ kept \subseteq SoundFor(rd.op) /\ rd.pc \in ReadLabel
  BY <1>1 DEF ReadInv
<1>3. rd.pc \in {"commit", "resolve", "blob", "visit"}
  BY <1>1, <1>2 DEF Plain, Reading, ReadLabel, ReadInv, Scanning
<1>4. Whole \subseteq Hash /\ rd.head \in Whole
  BY <1>1, <1>2, WholeFacts
<1> QED
  BY <1>1, <1>2, <1>3, <1>4 DEF AnswerInv, Ok

(* Subdirectories of a directory of the snapshot are in the snapshot. *)
LEMMA SubdirsWithin ==
  ASSUME IInv, rd.head \in Commits, NEW h \in Whole, obj[h].kind = "tree"
  PROVE  TreesIn({obj[h].dir[n] : n \in Name} \ {0}) \subseteq TreesIn(Whole)
<1>1. /\ StoreInv(obj, reach) /\ obj \in Seq(Object) /\ Entries(obj)
      /\ Whole = reach[rd.head] /\ rd.head \in 1..Len(obj) /\ h \in 1..Len(obj)
  BY WholeFacts, StoreEntries DEF IInv, TypeOK, Hash
<1>2. reach[h] \subseteq Whole
  BY <1>1, ReachTransitive
<1>3. ASSUME NEW n \in Name, obj[h].dir[n] # 0 PROVE obj[h].dir[n] \in Whole
  <2>1. obj[h].dir[n] \in 1..Len(obj)
    <3>1. obj[h].dir[n] \in 0..(h - 1)
      BY <1>1 DEF Entries
    <3> QED
      BY <1>1, <1>3, <3>1
  <2>2. Under(obj, reach, h, n, obj[h].dir[n])
    BY <1>1, <1>3, <2>1, ReachBelow DEF Under
  <2>3. obj[h].dir[n] \in reach[h]
    BY <1>1, <2>2 DEF StoreInv, ObjectInv
  <2> QED
    BY <1>2, <2>3
<1> QED
  BY <1>3 DEF TreesIn

(* A plain read ends *)
LEMMA GivesUp ==
  ASSUME ReaderInv, ScanInv', Plain, Reading, SameWorld, UNCHANGED <<cmd, localHead>>,
         Goto("failed"), disturbed' \/ ~(Whole \subseteq kept) \/ ~Suits, disturbed => disturbed'
  PROVE  ReaderInv'
<1>1. Shape
  BY PlainFacts
<1>2. PICK p : p = "failed"
  OBVIOUS
<1>3. Goes(p, rd.cur, rd.lvl, rd.todo)
  BY <1>1, <1>2 DEF Goto, Shape, Goes
<1>4. AnswerAt(p, rd.cur, rd.lvl, rd.todo)
  BY <1>2 DEF AnswerAt
<1> QED
  BY <1>2, <1>3, <1>4, AnswerMove

LEMMA GivesAnswer ==
  ASSUME ReaderInv, ScanInv', Plain, Reading, SameWorld, UNCHANGED <<cmd, localHead>>,
         Goto("done"), Suits, disturbed => disturbed'
  PROVE  ReaderInv'
<1>1. Shape
  BY PlainFacts
<1>2. PICK p : p = "done"
  OBVIOUS
<1>3. Goes(p, rd.cur, rd.lvl, rd.todo)
  BY <1>1, <1>2 DEF Goto, Shape, Goes
<1>4. AnswerAt(p, rd.cur, rd.lvl, rd.todo)
  BY <1>2 DEF AnswerAt
<1> QED
  BY <1>2, <1>3, <1>4, AnswerMove

(* A step along the path *)
LEMMA ResolveAnswers ==
  ASSUME ReaderInv, ScanInv', Plain, UNCHANGED <<vars, rotten, seen, kept, disturbed>>,
         LoadCommit \/ Resolve \/ Resolved \/ ResolveMissing \/ ReadFile
  PROVE  ReaderInv'
<1>1. /\ Reading /\ SameWorld /\ UNCHANGED <<cmd, localHead, disturbed>>
  BY DEF LoadCommit, Resolve, Resolved, ResolveMissing, ReadFile, ReadAt, Reading, SameWorld,
         vars, storeVars, headVars
<1>2. /\ ScanInv /\ ReachInv /\ AnswerInv /\ Shape /\ rd.head \in Commits
      /\ AnswerAt(rd.pc, rd.cur, rd.lvl, rd.todo) /\ Components(rd.path)
      /\ rd.op \in {"list", "tree", "cat"}
      /\ Whole \subseteq Hash /\ rd.head \in Whole
      /\ \A h \in Whole : Ok(h) \/ ~(Whole \subseteq kept)
  BY <1>1, PlainFacts
<1>3. /\ Len(rd.path) \in Nat /\ Named = Met(Len(rd.path))
      /\ Met(0) = Root /\ TreeIn(obj, Root)
      /\ \A k \in 0..Len(rd.path) :
           Met(k) # 0 => Met(k) \in Whole /\ Met(k) \in Hash
  BY <1>2, MetFacts
<1>4. ASSUME Goto("failed"), ~(Whole \subseteq kept) \/ ~Suits PROVE ReaderInv'
  BY <1>1, <1>4, GivesUp
<1>5. ASSUME Goto("done"), Suits PROVE ReaderInv'
  BY <1>1, <1>5, GivesAnswer
<1>6. ASSUME NEW p, NEW c, NEW l, NEW t, Goes(p, c, l, t), AnswerAt(p, c, l, t), p # "failed"
      PROVE  ReaderInv'
  BY <1>1, <1>6, AnswerMove
<1>7. CASE LoadCommit
  <2>1. CASE ~Ok(rd.head)
    BY <1>2, <1>4, <1>7, <2>1 DEF LoadCommit
  <2>2. CASE Ok(rd.head)
    <3>1. rd' = [rd EXCEPT !.cur = Root, !.todo = <<>>, !.pc = "resolve"]
      BY <1>7, <2>2 DEF LoadCommit, Root, Plain
    <3>2. rd.lvl = 1
      BY <1>2, <1>7 DEF LoadCommit, ReadAt, AnswerAt
    <3>3. PICK p, l, t : p = "resolve" /\ l = 1 /\ t = <<>>
      OBVIOUS
    <3>4. Goes(p, Root, l, t)
      BY <1>2, <3>1, <3>2, <3>3 DEF Shape, Goes
    <3>5. l \in 1..(Len(rd.path) + 1) /\ l - 1 = 0
      BY <1>3, <3>3
    <3>6. AnswerAt(p, Root, l, t)
      BY <1>3, <3>3, <3>5 DEF AnswerAt
    <3> QED
      BY <1>6, <3>3, <3>4, <3>6
  <2> QED
    BY <2>1, <2>2
<1>8. ASSUME ReadAt("resolve")
      PROVE  /\ rd.lvl \in 1..(Len(rd.path) + 1) /\ rd.cur = Met(rd.lvl - 1)
             /\ TreeIn(obj, rd.cur) /\ rd.cur \in Whole
  <2>1. /\ rd.lvl \in 1..(Len(rd.path) + 1) /\ rd.cur = Met(rd.lvl - 1)
        /\ TreeIn(obj, rd.cur)
    BY <1>2, <1>8 DEF AnswerAt, ReadAt
  <2>2. rd.lvl - 1 \in 0..Len(rd.path) /\ rd.cur # 0
    BY <1>3, <2>1 DEF TreeIn
  <2> QED
    BY <1>3, <2>1, <2>2
<1>9. CASE Resolve
  <2>1. /\ rd.lvl \in 1..Len(rd.path) /\ Here = Met(rd.lvl)
        /\ Here # 0 => Here \in Hash /\ (IsTree(Here) \/ IsBlob(Here))
        /\ Barren(obj, Here) /\ rd.lvl # Len(rd.path) => Named = 0
    BY <1>2, <1>9, HereFacts DEF Resolve
  <2>0. /\ Here = 0 => Goto("failed")
        /\ IsTree(Here) => rd' = [rd EXCEPT !.cur = Here, !.lvl = rd.lvl + 1]
        /\ IsBlob(Here) /\ rd.lvl < Len(rd.path) => Goto("failed")
        /\ Here # 0 /\ ~IsTree(Here) /\ ~(rd.lvl < Len(rd.path)) =>
             /\ rd.op = "cat" => rd' = [rd EXCEPT !.cur = Here, !.pc = "blob"]
             /\ rd.op = "tree" => Goto("done")
             /\ rd.op = "list" => Goto("failed")
    <3>1. PICK h, less, u, f, g :
            /\ h = Here /\ less = (rd.lvl < Len(rd.path)) /\ f = Goto("failed") /\ g = Goto("done")
            /\ u = [rd EXCEPT !.cur = Here, !.lvl = rd.lvl + 1]
      OBVIOUS
    <3>2. \/ h = 0 /\ f
          \/ h # 0 /\ IsTree(h) /\ rd' = u
          \/ h # 0 /\ IsBlob(h) /\ less /\ f
          \/ h # 0 /\ ~IsTree(h) /\ ~(IsBlob(h) /\ less)
             /\ CASE rd.op = "cat"  -> rd' = [rd EXCEPT !.cur = h, !.pc = "blob"]
                  [] rd.op = "tree" -> g
                  [] OTHER          -> f
      BY <1>9, <3>1 DEF Resolve, IsTree, IsBlob
    <3> QED
      BY <3>1, <3>2 DEF IsTree, IsBlob
  <2>2. rd.lvl \in Nat /\ (rd.lvl < Len(rd.path) <=> rd.lvl # Len(rd.path))
    BY <1>3, <2>1
  <2>3. Named = 0 => ~Suits
    BY DEF Suits, IsTree, IsBlob
  <2>4. CASE Here = 0
    <3>1. Named = 0
      BY <1>3, <2>1, <2>4 DEF Barren
    <3> QED
      BY <1>4, <2>0, <2>3, <2>4, <3>1
  <2>5. CASE IsTree(Here)
    <3>1. rd' = [rd EXCEPT !.cur = Here, !.lvl = rd.lvl + 1]
      BY <2>0, <2>5
    <3>2. PICK l : l = rd.lvl + 1
      OBVIOUS
    <3>3. Goes(rd.pc, Here, l, rd.todo)
      BY <1>2, <3>1, <3>2 DEF Shape, Goes
    <3>4. l \in 1..(Len(rd.path) + 1) /\ l - 1 = rd.lvl
      BY <1>3, <2>1, <3>2
    <3>5. rd.pc = "resolve" /\ TreeIn(obj, Here)
      BY <1>9, <2>1, <2>5 DEF Resolve, ReadAt, IsTree, TreeIn, Hash
    <3>6. AnswerAt(rd.pc, Here, l, rd.todo)
      BY <2>1, <3>4, <3>5 DEF AnswerAt
    <3> QED
      BY <1>6, <3>3, <3>5, <3>6
  <2>6. CASE Here # 0 /\ ~IsTree(Here) /\ rd.lvl < Len(rd.path)
    <3>1. IsBlob(Here) /\ Barren(obj, Here)
      BY <2>1, <2>6 DEF Barren, IsTree
    <3>2. Named = 0
      BY <2>1, <2>2, <2>6, <3>1
    <3> QED
      BY <1>4, <2>0, <2>3, <2>6, <3>1, <3>2
  <2>7. CASE Here # 0 /\ ~IsTree(Here) /\ ~(rd.lvl < Len(rd.path))
    <3>1. Named = Here /\ IsBlob(Here)
      BY <1>3, <2>1, <2>2, <2>7
    <3>2. /\ rd.op = "cat" => rd' = [rd EXCEPT !.cur = Here, !.pc = "blob"]
          /\ rd.op = "tree" => Goto("done")
          /\ rd.op = "list" => Goto("failed")
      BY <2>0, <2>7
    <3>3. CASE rd.op = "cat"
      <4>1. PICK p : p = "blob"
        OBVIOUS
      <4>2. Goes(p, Here, rd.lvl, rd.todo)
        BY <1>2, <3>2, <3>3, <4>1 DEF Shape, Goes
      <4>3. AnswerAt(p, Here, rd.lvl, rd.todo)
        BY <3>1, <3>3, <4>1 DEF AnswerAt
      <4> QED
        BY <1>6, <4>1, <4>2, <4>3
    <3>4. CASE rd.op = "tree"
      BY <1>5, <2>7, <3>1, <3>2, <3>4 DEF Suits
    <3>5. CASE rd.op = "list"
      BY <1>4, <2>7, <3>1, <3>2, <3>5 DEF Suits
    <3> QED
      BY <1>2, <3>3, <3>4, <3>5
  <2> QED
    BY <2>4, <2>5, <2>6, <2>7
<1>10. CASE Resolved
  <2>1. Named = rd.cur /\ TreeIn(obj, rd.cur) /\ rd.cur \in Whole
    <3>1. rd.lvl - 1 = Len(rd.path)
      BY <1>3, <1>8, <1>10 DEF Resolved, PathDone
    <3> QED
      BY <1>3, <1>8, <1>10, <3>1 DEF Resolved
  <2>2. IsTree(Named) /\ ~IsBlob(Named) /\ Named # 0
    BY <2>1 DEF TreeIn, IsTree, IsBlob
  <2>3. CASE rd.op = "list"
    BY <1>5, <1>10, <2>2, <2>3 DEF Resolved, Suits
  <2>4. CASE rd.op = "cat"
    BY <1>4, <1>10, <2>2, <2>4 DEF Resolved, Suits
  <2>5. CASE rd.op = "tree"
    <3>1. PICK p, t : p = "visit" /\ t = <<Subdirs>>
      OBVIOUS
    <3>2. Goes(p, rd.cur, rd.lvl, t)
      <4>1. rd' = [rd EXCEPT !.pc = p, !.todo = t]
        BY <1>10, <2>5, <3>1 DEF Resolved
      <4> QED
        BY <1>2, <4>1 DEF Shape, Goes
    <3>3. Subdirs \in SUBSET TreesIn(Whole)
      BY <1>2, <2>1, SubdirsWithin DEF Subdirs, TreeIn, ScanInv
    <3>4. t \in Seq(SUBSET TreesIn(Whole))
      BY <3>1, <3>3
    <3>5. AnswerAt(p, rd.cur, rd.lvl, t)
      BY <2>2, <2>5, <3>1, <3>4 DEF AnswerAt
    <3> QED
      BY <1>6, <3>1, <3>2, <3>5
  <2> QED
    BY <1>2, <2>3, <2>4, <2>5
<1>11. CASE ResolveMissing
  BY <1>2, <1>4, <1>8, <1>11 DEF ResolveMissing
<1>12. CASE ReadFile
  <2>1. rd.op = "cat" /\ rd.cur = Named /\ IsBlob(Named)
    BY <1>2, <1>12 DEF ReadFile, ReadAt, AnswerAt
  <2>2. rd.cur \in Whole /\ Suits
    <3>1. Len(rd.path) \in 0..Len(rd.path)
      BY <1>3
    <3> QED
      BY <1>3, <2>1, <3>1 DEF IsBlob, Suits
  <2>3. Goto("done") \/ (Goto("failed") /\ ~Ok(rd.cur))
    BY <1>12 DEF ReadFile
  <2> QED
    BY <1>2, <1>4, <1>5, <2>2, <2>3
<1> QED
  BY <1>7, <1>9, <1>10, <1>11, <1>12

(* A step of tree below the directory its path names *)
LEMMA TreeAnswers ==
  ASSUME ReaderInv, ScanInv', Plain, UNCHANGED <<vars, rotten, seen, kept, disturbed>>,
         Return \/ VisitTree \/ TreeUnreadable \/ CheckBlob \/ HashBlob \/ Report
  PROVE  ReaderInv'
<1>1. /\ Reading /\ SameWorld /\ UNCHANGED <<cmd, localHead, disturbed>>
  BY DEF Return, VisitTree, TreeUnreadable, CheckBlob, HashBlob, Report, Visiting, ReadAt, Reading,
         SameWorld, vars, storeVars, headVars
<1>2. /\ ScanInv /\ IInv /\ Shape /\ rd.head \in Commits
      /\ AnswerAt(rd.pc, rd.cur, rd.lvl, rd.todo)
      /\ rd.pc \in {"commit", "resolve", "blob", "visit"}
      /\ \A h \in Whole : Ok(h) \/ ~(Whole \subseteq kept)
  BY <1>1, PlainFacts
<1>3. rd.pc = "visit"
  BY <1>2 DEF Return, VisitTree, TreeUnreadable, CheckBlob, HashBlob, Report, Visiting, ReadAt
<1> DEFINE S == TreesIn(Whole)
<1>4. rd.op = "tree" /\ Named # 0 /\ rd.todo \in Seq(SUBSET S)
  BY <1>2, <1>3 DEF AnswerAt
<1>5. rd.todo # <<>> => /\ Siblings \subseteq S /\ Front(rd.todo) \in Seq(SUBSET S)
                        /\ \A h : Without(h) \in Seq(SUBSET S)
  <2> SUFFICES ASSUME rd.todo # <<>>
               PROVE  /\ Siblings \subseteq S /\ Front(rd.todo) \in Seq(SUBSET S)
                      /\ \A h : Without(h) \in Seq(SUBSET S)
    OBVIOUS
  <2> HIDE DEF S
  <2>1. Siblings \subseteq S /\ Front(rd.todo) \in Seq(SUBSET S)
    BY <1>4, LastLevelFacts DEF Siblings
  <2>2. ASSUME NEW h PROVE Without(h) \in Seq(SUBSET S)
    <3>1. Siblings \ {h} \in SUBSET S
      BY <2>1
    <3> QED
      BY <2>1, <3>1, AppendLevel DEF Without
  <2> QED
    BY <2>1, <2>2
<1> HIDE DEF S
(* the list gets shorter or longer, and the reader goes on *)
<1>6. ASSUME NEW t \in Seq(SUBSET S), Goes(rd.pc, rd.cur, rd.lvl, t) PROVE ReaderInv'
  <2>1. AnswerAt(rd.pc, rd.cur, rd.lvl, t)
    BY <1>3, <1>4, <1>6 DEF AnswerAt, S
  <2> QED
    BY <1>1, <1>3, <1>6, <2>1, AnswerMove
<1>7. CASE Return
  <2>1. rd.todo # <<>> /\ rd' = [rd EXCEPT !.todo = Front(rd.todo)]
    BY <1>7 DEF Return, Visiting
  <2>2. Goes(rd.pc, rd.cur, rd.lvl, Front(rd.todo))
    BY <1>2, <2>1 DEF Shape, Goes
  <2> QED
    BY <1>5, <1>6, <2>1, <2>2
<1>8. CASE VisitTree
  <2>1. PICK h \in TreesIn(Siblings) :
          rd' = [rd EXCEPT !.todo = Append(Without(h), Below(h)), !.stats.trees = @ + 1]
    BY <1>8 DEF VisitTree
  <2>2. rd.todo # <<>>
    BY <1>8 DEF VisitTree, Visiting
  <2>3. h \in Whole /\ obj[h].kind = "tree" /\ Without(h) \in Seq(SUBSET S)
    BY <1>5, <2>1, <2>2 DEF TreesIn, S
  <2>4. Below(h) \in SUBSET S
    <3>1. ~Scanning
      BY DEF Plain
    <3> QED
      BY <1>2, <2>3, <3>1, SubdirsWithin DEF Below, S
  <2>5. PICK t : t = Append(Without(h), Below(h))
    OBVIOUS
  <2>6. t \in Seq(SUBSET S)
    BY <2>3, <2>4, <2>5, AppendLevel
  <2>7. Goes(rd.pc, rd.cur, rd.lvl, t)
    BY <1>2, <2>1, <2>5 DEF Shape, Goes
  <2> QED
    BY <1>6, <2>6, <2>7
<1>9. CASE TreeUnreadable
  <2>1. PICK h \in TreesIn(Siblings) : ~Ok(h) /\ Goto("failed")
    BY <1>9 DEF TreeUnreadable, TreeError, Plain
  <2>2. h \in Whole
    BY <1>5, <1>9, <2>1 DEF TreeUnreadable, Visiting, TreesIn, S
  <2> QED
    BY <1>1, <1>2, <2>1, <2>2, GivesUp
<1>10. CASE CheckBlob
  <2>1. BlobsIn(Siblings) = {}
    BY <1>5, <1>10 DEF CheckBlob, Visiting, BlobsIn, TreesIn, S
  <2> QED
    BY <1>10, <2>1 DEF CheckBlob
<1>11. CASE HashBlob
  BY <1>3, <1>11 DEF HashBlob, ReadAt
<1>12. CASE Report
  <2>1. Suits
    BY <1>4 DEF Suits
  <2> QED
    BY <1>1, <1>12, <2>1, GivesAnswer DEF Report
<1> QED
  BY <1>7, <1>8, <1>9, <1>10, <1>11, <1>12

(* A failed call of a plain read *)
LEMMA PlainFails ==
  ASSUME ReaderInv, ScanInv', Plain, ReadFails
  PROVE  ReaderInv'
<1>1. SameWorld /\ UNCHANGED <<cmd, localHead>> /\ disturbed'
  BY DEF ReadFails, SameWorld, storeVars, headVars
<1>2. ASSUME Reading, Goto("failed") PROVE ReaderInv'
  BY <1>1, <1>2, GivesUp
<1>3. CASE rd.pc \in {"commit", "resolve", "blob"} /\ Goto("failed")
  BY <1>2, <1>3 DEF Reading
<1>4. ASSUME Visiting PROVE Reading
  BY <1>4 DEF Visiting, ReadAt, Reading
<1>5. CASE Visiting /\ \E h \in TreesIn(Siblings) : TreeError(h)
  <2>1. Goto("failed")
    BY <1>5 DEF TreeError, Plain
  <2> QED
    BY <1>2, <1>4, <1>5, <2>1
<1>6. CASE Visiting /\ \E h \in BlobsIn(Siblings) : TRUE
  <2>1. AnswerAt(rd.pc, rd.cur, rd.lvl, rd.todo)
    BY <1>4, <1>6, PlainFacts
  <2>2. rd.todo \in Seq(SUBSET TreesIn(Whole)) /\ rd.todo # <<>>
    BY <1>6, <2>1 DEF AnswerAt, Visiting, ReadAt
  <2>3. PICK S : S = TreesIn(Whole)
    OBVIOUS
  <2>4. Siblings \subseteq S
    BY <2>2, <2>3, LastLevelFacts DEF Siblings
  <2> QED
    BY <1>6, <2>3, <2>4 DEF BlobsIn, TreesIn
<1>7. ~ReadAt("hash")
  <2>1. CASE ReadAt("hash")
    <3>1. Reading
      BY <2>1 DEF ReadAt, Reading
    <3> QED
      BY <2>1, <3>1, PlainFacts DEF ReadAt
  <2> QED
    BY <2>1
<1> QED
  BY <1>3, <1>5, <1>6, <1>7 DEF ReadFails

(* What other processes do to a plain read: the store may get one more object, in
   which every path of the snapshot still leads where it led. *)
MayGrow == UNCHANGED <<obj, reach>> \/ Grows(obj, obj')

LEMMA EngineAppends ==
  ASSUME IInv, NEW d \in Device, Start(d) \/ Proceed(d) \/ Answer(d) \/ Upload(d) \/ Fail(d)
  PROVE  MayGrow
<1>1. ASSUME NEW o, NEW b, Encrypt(o, b) PROVE Grows(obj, obj')
  <2>1. obj \in Seq(Object) /\ obj' = Append(obj, o)
    BY <1>1 DEF IInv, TypeOK, Encrypt
  <2> QED
    BY <2>1 DEF Grows
<1>2. StoreStep(d)
  BY StoreSteps
<1> QED
  BY <1>1, <1>2 DEF StoreStep, EncryptTree, EncryptCommit, MayGrow

LEMMA WorldAnswers ==
  ASSUME ReaderInv, ScanInv', EditInv', ReachInv', Grown, MayGrow,
         UNCHANGED <<rd, disturbed>>, Observe
  PROVE  ReaderInv'
<1>1. /\ ScanInv /\ IInv /\ IInv' /\ ReachInv /\ AnswerInv
      /\ rd' = rd /\ disturbed' = disturbed /\ rd.pc \notin {"done", "failed"}
  BY DEF ReaderInv, ScanInv, Observe
<1>2. Plain' <=> Plain
  BY <1>1 DEF Plain, Scanning
<1>3. CASE ~Plain
  BY <1>1, <1>2, <1>3 DEF ReaderInv, AnswerInv
<1>4. CASE Plain
  <2>1. Reading
    BY <1>1, <1>4 DEF Plain, Reading
  <2>2. /\ rd.head \in Commits /\ Components(rd.path) /\ rd.op \in {"list", "tree", "cat"}
        /\ AnswerAt(rd.pc, rd.cur, rd.lvl, rd.todo)
        /\ Whole \subseteq Hash
    BY <1>4, <2>1, PlainFacts
  <2>3. /\ rd.head \in Hash /\ Whole = reach[rd.head] /\ Root \in Hash
    BY <1>1, <2>2, WholeFacts DEF Root
  <2>4. Root' = Root
    BY <1>1, <2>3 DEF Root, Grown
  <2>5. Whole' = Whole
    <3>1. rd.head \notin {NoHead, TornHead}
      BY <2>3, ConstantsAssumption DEF Hash
    <3>2. Whole' = reach'[rd.head]
      BY <1>1, <3>1 DEF Whole, Snapshot
    <3> QED
      BY <2>3, <3>2 DEF Grown
  <2>6. \A k \in 0..Len(rd.path) : Met(k)' = Met(k)
    <3>1. CASE UNCHANGED <<obj, reach>>
      BY <1>1, <2>4, <3>1 DEF Met
    <3>2. CASE Grows(obj, obj')
      <4>1. /\ obj \in Seq(Object) /\ obj' \in Seq(Object) /\ Entries(obj) /\ Entries(obj')
        BY <1>1, StoreEntries DEF IInv, TypeOK
      <4>2. Root \in 0..Len(obj)
        BY <2>3, <4>1 DEF Hash
      <4>3. \A k \in 0..Len(rd.path) : Trail(obj', Root, rd.path)[k] = Trail(obj, Root, rd.path)[k]
        BY <2>2, <3>2, <4>1, <4>2, TrailGrows
      <4> QED
        BY <1>1, <2>4, <4>3 DEF Met
    <3> QED
      BY <3>1, <3>2 DEF MayGrow
  <2>7. /\ Len(rd.path) \in Nat /\ Named = Met(Len(rd.path))
        /\ Named # 0 => Named \in Hash
    <3>1. /\ Len(rd.path) \in Nat /\ Named = Met(Len(rd.path))
          /\ \A k \in 0..Len(rd.path) : Met(k) # 0 => Met(k) \in Hash
      BY <1>1, <2>2, MetFacts
    <3>2. Len(rd.path) \in 0..Len(rd.path)
      BY <3>1
    <3> QED
      BY <3>1, <3>2
  <2>8. Named' = Named
    <3>1. Named' = Met(Len(rd.path))'
      BY <1>1 DEF Named, Met, Root, ResolvePath
    <3>2. Len(rd.path) \in 0..Len(rd.path)
      BY <2>7
    <3> QED
      BY <1>1, <2>6, <2>7, <3>1, <3>2
  <2>9. IsBlob(Named) => IsBlob(Named)'
    BY <2>7, <2>8 DEF IsBlob, Grown
  <2>10. TreesIn(Whole)' = TreesIn(Whole)
    BY <2>2, <2>5 DEF TreesIn, Grown
  <2>11. rd.pc = "resolve" => TreeIn(obj, rd.cur)' /\ rd.cur = Met(rd.lvl - 1)'
    <3> SUFFICES ASSUME rd.pc = "resolve" PROVE TreeIn(obj, rd.cur)' /\ rd.cur = Met(rd.lvl - 1)'
      OBVIOUS
    <3>1. /\ rd.lvl \in 1..(Len(rd.path) + 1) /\ rd.cur = Met(rd.lvl - 1)
          /\ rd.cur \in Hash /\ obj[rd.cur].kind = "tree"
      BY <2>2 DEF AnswerAt, TreeIn, Hash
    <3>2. rd.lvl - 1 \in 0..Len(rd.path)
      BY <2>7, <3>1
    <3>3. Met(rd.lvl - 1)' = Met(rd.lvl - 1)
      <4>1. PICK k \in 0..Len(rd.path) : k = rd.lvl - 1
        BY <3>2
      <4>2. Met(k)' = Met(k)
        BY <2>6
      <4> QED
        BY <1>1, <4>1, <4>2 DEF Met
    <3>4. TreeIn(obj, rd.cur)'
      BY <1>1, <3>1 DEF Grown, TreeIn, Hash
    <3> QED
      BY <3>1, <3>3, <3>4
  <2>12. AnswerAt(rd.pc, rd.cur, rd.lvl, rd.todo)'
    BY <1>1, <2>2, <2>8, <2>9, <2>10, <2>11 DEF AnswerAt
  <2>13. AnswerInv'
    BY <1>1, <2>2, <2>12 DEF AnswerInv
  <2> QED
    BY <2>13 DEF ReaderInv
<1> QED
  BY <1>3, <1>4

(* A read begins *)
LEMMA StartAnswers ==
  ASSUME ReaderInv, ScanInv', NEW d \in Device, StartRead(d)
  PROVE  ReaderInv'
<1>1. /\ UNCHANGED vars /\ EditInv /\ ReachInv
  BY DEF ReaderInv, StartRead
<1>2. EditInv' /\ ReachInv'
  BY <1>1 DEF vars, storeVars, headVars, EditInv, ReachInv, Commits, Hash
<1>3. PICK op \in ReadOp :
        \E p \in IF op \in {"quick", "deep"} THEN {<<>>}
                 ELSE IF op = "cat" THEN Path ELSE Path \cup {<<>>} :
          rd' = [Idle EXCEPT !.op = op, !.path = p, !.head = localHead[d],
                   !.pc = IF localHead[d] \in {NoHead, TornHead} THEN "failed" ELSE "commit"]
  BY DEF StartRead
<1>4. PICK p \in Path \cup {<<>>} :
          rd' = [Idle EXCEPT !.op = op, !.path = p, !.head = localHead[d],
                   !.pc = IF localHead[d] \in {NoHead, TornHead} THEN "failed" ELSE "commit"]
  BY <1>3
<1>5. /\ rd'.op = op /\ rd'.path = p /\ rd'.lvl = 1 /\ rd'.head = localHead[d]
      /\ rd'.pc = IF localHead[d] \in {NoHead, TornHead} THEN "failed" ELSE "commit"
  BY <1>4 DEF Idle
<1>6. op \in {"list", "tree", "cat", "quick", "deep"}
  BY ReadOpAssumption
<1>7. Components(p)
  <2>1. CASE p \in Path
    BY <2>1, PathComponents
  <2>2. CASE p = <<>>
    BY <2>2 DEF Components
  <2> QED
    BY <2>1, <2>2
<1>8. rd'.pc = "failed" => ~Undisturbed'
  <2>1. rd'.pc = "failed" => rd'.head \in {NoHead, TornHead}
    BY <1>5
  <2> QED
    BY <2>1 DEF Undisturbed, Whole, Snapshot
<1>9. AnswerAt(rd.pc, rd.cur, rd.lvl, rd.todo)'
  BY <1>5 DEF AnswerAt
<1>10. AnswerInv'
  BY <1>5, <1>6, <1>7, <1>8, <1>9 DEF AnswerInv, Plain, Scanning
<1> QED
  BY <1>2, <1>10 DEF ReaderInv

(* The store and the commands stay as they are, and it is no plain read. *)
LEMMA NoAnswerDue ==
  ASSUME ReaderInv, ScanInv', UNCHANGED <<obj, reach, cmd, localHead>>, ~Plain'
  PROVE  ReaderInv'
<1>1. EditInv' /\ ReachInv'
  BY DEF ReaderInv, EditInv, ReachInv, Commits, Hash
<1> QED
  BY <1>1 DEF ReaderInv, AnswerInv

(* A scan stays with its command. *)
LEMMA SameQuestion ==
  ASSUME ScanInv, Scanning, Read \/ ReadFails
  PROVE  rd'.op = rd.op
<1>1. Shape
  BY DEF ScanInv, ReadInv
<1>2. CASE LoadCommit \/ Resolve \/ Resolved \/ ResolveMissing \/ ReadFile
  BY <1>1, <1>2 DEF LoadCommit, Resolve, Resolved, ResolveMissing, ReadFile, Goto, Shape
<1>3. CASE Return \/ VisitTree \/ TreeUnreadable \/ Report
  BY <1>1, <1>3 DEF Return, VisitTree, TreeUnreadable, TreeError, Report, Goto, Shape
<1>4. CASE CheckBlob \/ HashBlob
  BY <1>1, <1>4 DEF CheckBlob, HashBlob, Shape
<1>5. CASE ReadFails
  BY <1>1, <1>5 DEF ReadFails, TreeError, Goto, Shape
<1> QED
  BY <1>2, <1>3, <1>4, <1>5 DEF Read

LEMMA NextReaderInv == ReaderInv /\ [ScanNext]_scanVars => ReaderInv'
<1> SUFFICES ASSUME ReaderInv, [ScanNext]_scanVars PROVE ReaderInv'
  OBVIOUS
<1>1. ScanInv /\ IInv /\ EditInv /\ ReachInv /\ AnswerInv /\ ScanInv'
  BY NextScanInv DEF ReaderInv, ScanInv
<1>2. ASSUME NEW d \in Device, EngineStep(d) PROVE ReaderInv'
  <2>1. Start(d) \/ Proceed(d) \/ Answer(d) \/ Upload(d) \/ Fail(d)
    BY <1>2 DEF EngineStep
  <2>2. EditInv' /\ ReachInv'
    BY <1>1, <2>1, NextEdits, NextReach DEF Next
  <2>3. Grown /\ MayGrow
    BY <1>1, <2>1, EngineGrown, EngineAppends
  <2>4. UNCHANGED <<rd, disturbed>> /\ Observe
    BY <1>2 DEF EngineStep
  <2> QED
    BY <1>1, <2>2, <2>3, <2>4, WorldAnswers
<1>3. ASSUME NEW d \in Device, StartRead(d) PROVE ReaderInv'
  BY <1>1, <1>3, StartAnswers
<1>4. CASE Rot \/ Lose
  <2>1. UNCHANGED <<obj, reach, cmd, localHead>>
    BY <1>4 DEF Rot, Lose, storeVars, headVars
  <2>2. EditInv' /\ ReachInv' /\ Grown /\ MayGrow
    BY <1>1, <2>1, SameGrown DEF EditInv, ReachInv, Commits, Hash, MayGrow
  <2>3. UNCHANGED <<rd, disturbed>> /\ Observe
    BY <1>4 DEF Rot, Lose
  <2> QED
    BY <1>1, <2>2, <2>3, WorldAnswers
<1>5. CASE Leave
  <2>1. UNCHANGED <<obj, reach, cmd, localHead>> /\ ~Plain'
    BY <1>5 DEF Leave, vars, storeVars, headVars, Idle, Plain
  <2> QED
    BY <1>1, <2>1, NoAnswerDue
<1>6. CASE Read \/ ReadFails
  <2>1. Read => UNCHANGED <<vars, rotten, seen, kept, disturbed>>
    BY DEF Read, LoadCommit, Resolve, Resolved, ResolveMissing, ReadFile, Return, VisitTree,
           TreeUnreadable, CheckBlob, HashBlob, Report
  <2>2. CASE Plain
    <3>1. CASE Read
      BY <1>1, <2>1, <2>2, <3>1, ResolveAnswers, TreeAnswers DEF Read
    <3>2. CASE ReadFails
      BY <1>1, <2>2, <3>2, PlainFails
    <3> QED
      BY <1>6, <3>1, <3>2
  <2>3. CASE ~Plain
    <3>1. UNCHANGED <<obj, reach, cmd, localHead>>
      BY <1>6, <2>1 DEF ReadFails, vars, storeVars, headVars
    <3>2. Reading
      BY <1>6 DEF Read, ReadFails, LoadCommit, Resolve, Resolved, ResolveMissing, ReadFile, Return,
         VisitTree, TreeUnreadable, CheckBlob, HashBlob, Report, Visiting, ReadAt, Reading
    <3>3. Scanning
      BY <2>3, <3>2 DEF Plain, Reading
    <3>4. rd'.op = rd.op
      BY <1>1, <1>6, <3>3, SameQuestion
    <3>5. ~Plain'
      BY <3>3, <3>4 DEF Plain, Scanning
    <3> QED
      BY <1>1, <3>1, <3>5, NoAnswerDue
  <2> QED
    BY <2>2, <2>3
<1>7. CASE UNCHANGED scanVars
  <2>1. UNCHANGED <<obj, reach, cmd, localHead, rd, kept, disturbed>>
    BY <1>7 DEF scanVars, readVars, vars, storeVars, headVars
  <2>2. EditInv' /\ ReachInv'
    BY <1>1, <2>1 DEF EditInv, ReachInv, Commits, Hash
  <2>3. AnswerInv'
    BY <1>1, <2>1 DEF AnswerInv, AnswerAt, Plain, Undisturbed, Scanning, Suits, Named, Met, Root, Whole,
       Snapshot, IsTree, IsBlob, TreesIn, TreeIn
  <2> QED
    BY <1>1, <2>2, <2>3 DEF ReaderInv
<1> QED
  BY <1>2, <1>3, <1>4, <1>5, <1>6, <1>7 DEF ScanNext

(* A list, tree or cat whose calls all succeed, over a snapshot that stays sound while
   it runs, gives its answer exactly when its path names in the snapshot its HEAD named
   at the start what it needs to find there, whatever is published or deleted meanwhile
   (VaultEngine::resolve_path, list_directory, print_tree, read_file_from_vault). *)
THEOREM ReadersAnswerForTheirSnapshot == ScanSpec => []ReadersAnswer
<1>1. ScanInit => ReaderInv
  <2> SUFFICES ASSUME ScanInit PROVE ReaderInv
    OBVIOUS
  <2>1. Init /\ rd = Idle
    BY DEF ScanInit
  <2>2. ScanInv /\ EditInv /\ ReachInv
    BY <2>1, InitIInv, IdleScan, InitEdits, InitReach
  <2>3. ~Plain
    BY <2>1 DEF Plain, Idle
  <2> QED
    BY <2>2, <2>3 DEF ReaderInv, AnswerInv
<1>2. ReaderInv => ReadersAnswer
  <2> SUFFICES ASSUME ReaderInv, rd.op \in {"list", "tree", "cat"}, rd.pc \in {"done", "failed"},
                      Undisturbed
               PROVE  ReadAt("done") <=> Suits
    BY DEF ReadersAnswer, Undisturbed
  <2>1. Plain /\ AnswerInv
    BY DEF Plain, Scanning, ReaderInv
  <2> QED
    BY <2>1 DEF AnswerInv, AnswerAt, ReadAt
<1> QED
  BY <1>1, <1>2, NextReaderInv, PTL DEF ScanSpec
=============================================================================
