------------------------- MODULE VaultEngineProofs -------------------------
(***************************************************************************)
(* Proofs about VaultEngine, for any devices, names, bounds and faults.    *)
(*                                                                         *)
(* The argument: a stored directory's entries lead to disjoint sets of     *)
(* objects (StoreInv), so while a command walks down its path, what hangs  *)
(* off the path at each level (Beside), what is still below it, and what   *)
(* the command will delete (Doomed) stay apart (Apart).  On the way up     *)
(* each new tree reaches only Beside of its level and the tree below, so   *)
(* the new commit never reaches a doomed object (IInv).  HeadInv, SnapInv  *)
(* and ExactInv, further down, build on it; EditInv is about what paths    *)
(* resolve to, and gives the refinement of VaultFS.                        *)
(***************************************************************************)
EXTENDS VaultVersions, TLAPS, WellFoundedInduction

----------------------------------------------------------------------------
(* The inductive invariant.  Its parts take the store as parameters, so that *)
(* their preservation when the store grows is a lemma about constants.       *)

TreeIn(o, h)   == h \in 1..Len(o) /\ o[h].kind = "tree"
CommitIn(o, h) == h \in 1..Len(o) /\ o[h].kind = "commit"

(* x is the directory entry n's target or below it *)
Under(o, r, h, n, x) == o[h].dir[n] # 0 /\ x \in r[o[h].dir[n]]

ObjectInv(o, r, h) ==
  /\ h \in r[h]
  /\ r[h] \subseteq 1..h
  /\ o[h].kind = "commit" =>
       /\ TreeIn(o, o[h].root)
       /\ o[h].root < h
       /\ r[h] = {h} \cup r[o[h].root]
  /\ o[h].kind = "tree" =>
       \A x : x \in r[h] <=> x = h \/ \E n \in Name : Under(o, r, h, n, x)
  /\ o[h].kind = "blob" => r[h] = {h}
  /\ \A n \in Name : o[h].dir[n] < h
  /\ \A m, n \in Name : \A x :
       Under(o, r, h, m, x) /\ Under(o, r, h, n, x) => m = n

StoreInv(o, r) ==
  /\ Len(r) = Len(o)
  /\ \A h \in 1..Len(o) : ObjectInv(o, r, h)

(* Where a command's hashes point, by how far it has come *)
CmdShape(o, c) ==
  /\ c.pc \notin {"idle", "exit"} => c.path \in Path
  /\ \A i \in 1..Len(c.old) : TreeIn(o, c.old[i])
  /\ c.ret \in 0..Len(o)
  /\ c.base \in 0..Len(o)
  /\ c.trees \subseteq 1..Len(o) /\ c.blobs \subseteq 1..Len(o)
  /\ c.pc = "head" => c.old = <<>> /\ c.ret = 0 /\ c.trees = {} /\ c.blobs = {}
  /\ c.pc \in {"blob", "leaf"} =>
       /\ c.old = <<>> /\ c.ret = 0 /\ c.trees = {} /\ c.blobs = {}
       /\ TreeIn(o, c.cur)
  /\ c.pc = "walk" => Len(c.old) < Len(c.path) /\ TreeIn(o, c.cur)
  /\ c.pc = "parent" => Len(c.old) < Len(c.path)
  /\ c.pc \in {"walk", "parent"} => c.trees = {} /\ c.blobs = {}
  /\ c.pc = "store" => Len(c.old) = Len(c.path) /\ c.lvl \in 1..Len(c.old)
  /\ c.pc = "commit" => Len(c.old) = Len(c.path) /\ TreeIn(o, c.ret)
  /\ c.pc \in Committed => Len(c.old) = Len(c.path) /\ CommitIn(o, c.newc)
  /\ c.pc = "deltrees" => c.lvl \in 1..Len(c.old)

(* The levels of the path whose tree is not yet rewritten *)
Top(c) == CASE c.pc \in {"walk", "parent"} -> Len(c.old)
            [] c.pc = "store" -> c.lvl
            [] OTHER -> 0

(* x hangs off the path at level i; x is below what the recursion returned *)
Beside(o, r, c, i, x) == \E n \in Name : n # c.path[i] /\ Under(o, r, c.old[i], n, x)
Returned(r, c, x)     == c.ret # 0 /\ x \in r[c.ret]

Building == {"blob", "leaf", "walk", "parent", "store", "commit"}

Apart(o, r, c) ==
  /\ c.pc \in Building =>
       /\ \A i, j \in 1..Top(c) : \A x \in 1..Len(o) :
            Beside(o, r, c, i, x) /\ Beside(o, r, c, j, x) => i = j
       /\ \A i \in 1..Top(c) : \A x \in 1..Len(o) :
            Beside(o, r, c, i, x) => ~Returned(r, c, x) /\ x \notin Doomed(c)
       /\ \A x \in Doomed(c) : ~Returned(r, c, x)
  /\ c.pc \in {"blob", "leaf", "walk"} =>
       \A x \in r[c.cur] :
         /\ x \notin Doomed(c)
         /\ ~Returned(r, c, x)
         /\ \A i \in 1..Top(c) : ~Beside(o, r, c, i, x)
  /\ c.pc \in Committed => Doomed(c) \cap r[c.newc] = {}

IInv ==
  /\ TypeOK
  /\ StoreInv(obj, reach)
  /\ \A d \in Device : CmdShape(obj, cmd[d]) /\ Apart(obj, reach, cmd[d])

----------------------------------------------------------------------------
(* The store only grows *)

Grows(o, o2) == Len(o2) = Len(o) + 1 /\ \A h \in 1..Len(o) : o2[h] = o[h]

(* o2 and r2 are the store with one more object, itself well formed. *)
Extends(o, r, o2, r2) ==
  /\ o2 \in Seq(Object) /\ r2 \in Seq(SUBSET Nat)
  /\ Grows(o, o2) /\ Grows(r, r2)
  /\ ObjectInv(o2, r2, Len(o2))

(* Appending leaves every earlier object where it was. *)
LEMMA AppendGrows ==
  ASSUME NEW S, NEW o \in Seq(S), NEW e \in S
  PROVE  /\ Append(o, e) \in Seq(S)
         /\ Grows(o, Append(o, e))
         /\ Append(o, e)[Len(o) + 1] = e
  BY DEF Grows

(* A new object keeps the store well formed if it is well formed itself. *)
LEMMA StoreGrows ==
  ASSUME NEW o \in Seq(Object), NEW o2 \in Seq(Object),
         NEW r \in Seq(SUBSET Nat), NEW r2 \in Seq(SUBSET Nat),
         Grows(o, o2), Grows(r, r2), StoreInv(o, r), ObjectInv(o2, r2, Len(o2))
  PROVE  StoreInv(o2, r2)
<1>1. Len(o) \in Nat /\ Len(r) = Len(o) /\ Len(r2) = Len(o2) /\ Len(o2) = Len(o) + 1
  BY DEF Grows, StoreInv
<1>2. ASSUME NEW h \in 1..Len(o) PROVE ObjectInv(o2, r2, h)
  <2>1. ObjectInv(o, r, h) /\ o2[h] = o[h] /\ r2[h] = r[h] /\ o[h] \in Object
    BY <1>1 DEF Grows, StoreInv
  <2>2. \A n \in Name : o[h].dir[n] \in Nat /\ o[h].dir[n] < h
    BY <2>1 DEF ObjectInv, Object
  <2>3. \A n \in Name : o[h].dir[n] # 0 => r2[o[h].dir[n]] = r[o[h].dir[n]]
    <3> SUFFICES ASSUME NEW n \in Name, o[h].dir[n] # 0 PROVE r2[o[h].dir[n]] = r[o[h].dir[n]]
      OBVIOUS
    <3>1. o[h].dir[n] \in 1..Len(r) BY <2>2, <1>1
    <3> QED BY <3>1 DEF Grows
  <2>4. \A n \in Name : \A x : Under(o2, r2, h, n, x) <=> Under(o, r, h, n, x)
    BY <2>1, <2>3 DEF Under
  <2>5. o[h].kind = "commit" => TreeIn(o2, o[h].root) /\ r2[o[h].root] = r[o[h].root]
    BY <2>1, <1>1 DEF ObjectInv, TreeIn, Grows
  <2>6. /\ h \in r2[h] /\ r2[h] \subseteq 1..h /\ (o2[h].kind = "blob" => r2[h] = {h})
        /\ \A n \in Name : o2[h].dir[n] < h
        /\ \A m, n \in Name : \A x :
             Under(o2, r2, h, m, x) /\ Under(o2, r2, h, n, x) => m = n
    BY <2>1, <2>4 DEF ObjectInv
  <2>7. o2[h].kind = "tree" =>
          \A x : x \in r2[h] <=> x = h \/ \E n \in Name : Under(o2, r2, h, n, x)
    BY <2>1, <2>4 DEF ObjectInv
  <2>8. o2[h].kind = "commit" =>
          /\ TreeIn(o2, o2[h].root) /\ o2[h].root < h
          /\ r2[h] = {h} \cup r2[o2[h].root]
    BY <2>1, <2>5 DEF ObjectInv
  <2> QED BY <2>6, <2>7, <2>8 DEF ObjectInv
<1> QED BY <1>1, <1>2 DEF StoreInv

(* What hangs off a level of the path is known to the store. *)
LEMMA BesideKnown ==
  ASSUME NEW o \in Seq(Object), NEW r \in Seq(SUBSET Nat), StoreInv(o, r),
         NEW h \in 1..Len(o), NEW n \in Name, o[h].dir[n] # 0
  PROVE  /\ o[h].dir[n] \in 1..(h - 1)
         /\ r[o[h].dir[n]] \subseteq 1..(h - 1)
<1>0. o[h] \in Object
  OBVIOUS
<1>1. ObjectInv(o, r, h) /\ o[h].dir[n] \in Nat
  BY <1>0 DEF StoreInv, Object
<1>2. o[h].dir[n] \in 1..Len(o) /\ o[h].dir[n] < h
  BY <1>1 DEF ObjectInv
<1>3. ObjectInv(o, r, o[h].dir[n])
  BY <1>2 DEF StoreInv
<1>4. r[o[h].dir[n]] \subseteq 1..o[h].dir[n]
  BY <1>3 DEF ObjectInv
<1> QED BY <1>2, <1>4

(* What lies under an entry stays the same while the store grows. *)
LEMMA UnderGrows ==
  ASSUME NEW o \in Seq(Object), NEW o2 \in Seq(Object),
         NEW r \in Seq(SUBSET Nat), NEW r2 \in Seq(SUBSET Nat),
         Grows(o, o2), Grows(r, r2), StoreInv(o, r),
         NEW h \in 1..Len(o), NEW n \in Name, NEW x
  PROVE  Under(o2, r2, h, n, x) <=> Under(o, r, h, n, x)
<1>1. o2[h] = o[h] /\ Len(r) = Len(o) /\ Len(o) \in Nat
  BY DEF Grows, StoreInv
<1>2. CASE o[h].dir[n] = 0
  BY <1>1, <1>2 DEF Under
<1>3. CASE o[h].dir[n] # 0
  <2>1. o[h].dir[n] \in 1..(h - 1)
    BY <1>3, BesideKnown
  <2>2. o[h].dir[n] \in 1..Len(r)
    BY <2>1, <1>1
  <2> QED BY <1>1, <2>2 DEF Under, Grows
<1> QED BY <1>2, <1>3

(* A command that did not move keeps its invariant while the store grows. *)
LEMMA CmdGrows ==
  ASSUME NEW o \in Seq(Object), NEW o2 \in Seq(Object),
         NEW r \in Seq(SUBSET Nat), NEW r2 \in Seq(SUBSET Nat),
         Grows(o, o2), Grows(r, r2), StoreInv(o, r), ObjectInv(o2, r2, Len(o2)),
         NEW c \in Command, CmdShape(o, c), Apart(o, r, c)
  PROVE  CmdShape(o2, c) /\ Apart(o2, r2, c)
<1>1. Len(o) \in Nat /\ Len(r) = Len(o) /\ Len(r2) = Len(o2) /\ Len(o2) = Len(o) + 1
  BY DEF Grows, StoreInv
<1>2. \A h : TreeIn(o, h) => TreeIn(o2, h)
  BY <1>1 DEF TreeIn, Grows
<1>3. \A h : CommitIn(o, h) => CommitIn(o2, h)
  BY <1>1 DEF CommitIn, Grows
<1>4. CmdShape(o2, c)
  BY <1>1, <1>2, <1>3 DEF CmdShape
<1>5. \A h \in 1..Len(o), n \in Name : \A x : Under(o2, r2, h, n, x) <=> Under(o, r, h, n, x)
  BY UnderGrows
<1>6. \A i \in 1..Len(c.old) : \A x : Beside(o2, r2, c, i, x) <=> Beside(o, r, c, i, x)
  BY <1>5 DEF Beside, CmdShape, TreeIn
<1>7. \A i \in 1..Len(c.old) : \A x : Beside(o, r, c, i, x) => x \in 1..Len(o)
  <2> SUFFICES ASSUME NEW i \in 1..Len(c.old), NEW x, Beside(o, r, c, i, x) PROVE x \in 1..Len(o)
    OBVIOUS
  <2>1. c.old[i] \in 1..Len(o)
    BY DEF CmdShape, TreeIn
  <2>2. PICK n \in Name : Under(o, r, c.old[i], n, x)
    BY DEF Beside
  <2>3. r[o[c.old[i]].dir[n]] \subseteq 1..(c.old[i] - 1)
    BY <2>1, <2>2, BesideKnown DEF Under
  <2> QED BY <2>1, <2>2, <2>3, <1>1 DEF Under
<1>8. \A x : Returned(r2, c, x) <=> Returned(r, c, x)
  BY <1>1 DEF Returned, CmdShape, Grows
<1>9. Top(c) \in 0..Len(c.old)
  BY DEF Top, CmdShape, Command
<1>10. c.pc \in {"blob", "leaf", "walk"} => r2[c.cur] = r[c.cur]
  BY <1>1 DEF CmdShape, TreeIn, Grows
<1>11. c.pc \in Committed => r2[c.newc] = r[c.newc]
  BY <1>1 DEF CmdShape, CommitIn, Grows
<1>12. Len(c.old) \in Nat /\ 1..Top(c) \subseteq 1..Len(c.old)
  BY <1>9 DEF Command
<1>13. Apart(o2, r2, c)
  <2>1. ASSUME c.pc \in Building
        PROVE  /\ \A i, j \in 1..Top(c) : \A x \in 1..Len(o2) :
                    Beside(o2, r2, c, i, x) /\ Beside(o2, r2, c, j, x) => i = j
               /\ \A i \in 1..Top(c) : \A x \in 1..Len(o2) :
                    Beside(o2, r2, c, i, x) => ~Returned(r2, c, x) /\ x \notin Doomed(c)
               /\ \A x \in Doomed(c) : ~Returned(r2, c, x)
    BY <2>1, <1>6, <1>7, <1>8, <1>12 DEF Apart
  <2>2. ASSUME c.pc \in {"blob", "leaf", "walk"}, NEW x \in r2[c.cur]
        PROVE  /\ x \notin Doomed(c) /\ ~Returned(r2, c, x)
               /\ \A i \in 1..Top(c) : ~Beside(o2, r2, c, i, x)
    BY <2>2, <1>6, <1>8, <1>10, <1>12 DEF Apart
  <2>3. ASSUME c.pc \in Committed PROVE Doomed(c) \cap r2[c.newc] = {}
    BY <2>3, <1>11 DEF Apart
  <2> QED BY <2>1, <2>2, <2>3 DEF Apart
<1> QED BY <1>4, <1>13

----------------------------------------------------------------------------
(* The steps of a command, one lemma each *)

LEMMA NoHashes == <<>> \in Seq(Nat) /\ Len(<<>>) = 0
  OBVIOUS

(* A process that has not begun, or is done, holds no hashes. *)
LEMMA ResetCmd ==
  ASSUME NEW o \in Seq(Object), NEW r, NEW l \in {"idle", "exit"},
         NEW out \in {"none", "ok", "error", "nohead", "aborted"}
  PROVE  LET c == FreshCmd(l, "none", <<>>, out) IN
         c \in Command /\ CmdShape(o, c) /\ Apart(o, r, c)
<1>1. FreshCmd(l, "none", <<>>, out) \in Command
  BY NoHashes DEF FreshCmd, Command, Label
<1>2. CmdShape(o, FreshCmd(l, "none", <<>>, out))
  BY NoHashes DEF FreshCmd, CmdShape, Committed
<1>3. Apart(o, r, FreshCmd(l, "none", <<>>, out))
  BY DEF FreshCmd, Apart, Building, Committed
<1> QED BY <1>1, <1>2, <1>3

(* A command that begins (or, after the prompt, begins again) has loaded nothing. *)
LEMMA BeginCmd ==
  ASSUME NEW o \in Seq(Object), NEW r, NEW p \in Path, NEW q \in Op \cup {"rmdirall"}
  PROVE  LET c == FreshCmd("head", q, p, "none") IN
         c \in Command /\ CmdShape(o, c) /\ Apart(o, r, c)
<1>1. FreshCmd("head", q, p, "none") \in Command
  BY NoHashes DEF FreshCmd, Command, Label
<1>2. CmdShape(o, FreshCmd("head", q, p, "none"))
  BY NoHashes DEF FreshCmd, CmdShape, Committed
<1>3. Apart(o, r, FreshCmd("head", q, p, "none"))
  BY DEF FreshCmd, Apart, Building, Committed
<1> QED BY <1>1, <1>2, <1>3

(* A path has components. *)
LEMMA PathFacts ==
  ASSUME NEW p \in Path
  PROVE  Len(p) \in Nat \ {0} /\ \A i \in 1..Len(p) : p[i] \in Name
<1>1. PICK k \in 1..MaxDepth : p \in [1..k -> Name]
  BY DEF Path
<1>2. k \in Nat \ {0}
  BY ConstantsAssumption, <1>1
<1>3. Len(p) = k
  BY <1>1, <1>2
<1> QED BY <1>1, <1>2, <1>3

(* read_head and load_commit_checked: the old commit is above everything it reaches. *)
LEMMA ReadHeadCmd ==
  ASSUME NEW o \in Seq(Object), NEW r \in Seq(SUBSET Nat), StoreInv(o, r),
         NEW c \in Command, CmdShape(o, c), c.pc = "head",
         NEW h, CommitIn(o, h),
         NEW l \in {"blob", "leaf", "walk"},
         NEW c2, c2 = [c EXCEPT !.base = h, !.cur = o[h].root, !.pc = l]
  PROVE  c2 \in Command /\ CmdShape(o, c2) /\ Apart(o, r, c2)
<1>1. TreeIn(o, o[h].root) /\ o[h].root < h /\ h \in 1..Len(o) /\ h \in Nat
  BY DEF StoreInv, CommitIn, ObjectInv
<1>2. c2 \in Command
  <2>1. o[h].root \in Nat
    BY <1>1 DEF TreeIn
  <2> QED BY <1>1, <2>1 DEF Command, Label
<1>3. /\ c2.pc = l /\ c2.old = <<>> /\ c2.cur = o[h].root /\ c2.base = h /\ c2.ret = 0
      /\ c2.trees = {} /\ c2.blobs = {} /\ c2.path = c.path /\ c.path \in Path
  BY DEF Command, CmdShape
<1>4. CmdShape(o, c2)
  BY <1>1, <1>3, PathFacts DEF CmdShape, Committed
<1>5. Top(c2) = 0 /\ Doomed(c2) = {h}
  BY <1>3 DEF Top, Doomed
<1>6. r[o[h].root] \subseteq 1..o[h].root
  BY <1>1 DEF StoreInv, TreeIn, ObjectInv
<1>7. h \notin r[o[h].root]
  BY <1>1, <1>6 DEF TreeIn
<1>8. Apart(o, r, c2)
  BY <1>3, <1>5, <1>7 DEF Apart, Building, Committed, Returned
<1> QED BY <1>2, <1>4, <1>8

(* What an object reaches was made no later than the object. *)
LEMMA ReachBelow ==
  ASSUME NEW o, NEW r, StoreInv(o, r), NEW h \in 1..Len(o)
  PROVE  h \in r[h] /\ r[h] \subseteq 1..h
  BY DEF StoreInv, ObjectInv

(* What is beside the path was made before the tree of its level. *)
LEMMA BesideBelow ==
  ASSUME NEW o \in Seq(Object), NEW r \in Seq(SUBSET Nat), StoreInv(o, r),
         NEW c, NEW i, c.old[i] \in 1..Len(o), NEW x, Beside(o, r, c, i, x)
  PROVE  x \in 1..(c.old[i] - 1)
<1>1. PICK n \in Name : Under(o, r, c.old[i], n, x)
  BY DEF Beside
<1> QED BY <1>1, BesideKnown DEF Under

WithLeaf(c, h) == [c EXCEPT !.ret = h, !.pc = "walk"]

(* add and mkdir: the blob or the empty tree that will become the new entry. *)
LEMMA StoreLeafCmd ==
  ASSUME NEW o \in Seq(Object), NEW r \in Seq(SUBSET Nat), StoreInv(o, r),
         NEW o2, NEW r2, Extends(o, r, o2, r2),
         NEW c \in Command, CmdShape(o, c), Apart(o, r, c),
         c.pc \in {"blob", "leaf"}, r2[Len(o2)] = {Len(o2)}
  PROVE  LET c2 == WithLeaf(c, Len(o2)) IN
         c2 \in Command /\ CmdShape(o2, c2) /\ Apart(o2, r2, c2)
<1> DEFINE c2 == WithLeaf(c, Len(o2))
<1>0. /\ o2 \in Seq(Object) /\ r2 \in Seq(SUBSET Nat)
      /\ Grows(o, o2) /\ Grows(r, r2) /\ ObjectInv(o2, r2, Len(o2))
  BY DEF Extends
<1>1. CmdShape(o2, c) /\ Apart(o2, r2, c)
  BY <1>0, CmdGrows
<1>2. Len(o) \in Nat /\ Len(o2) = Len(o) + 1 /\ Len(o2) \in Nat
  BY <1>0 DEF Grows
<1>3. c2 \in Command
  BY <1>2 DEF WithLeaf, Command, Label
<1>4. /\ c2.pc = "walk" /\ c2.ret = Len(o2) /\ c2.old = <<>> /\ c2.cur = c.cur
      /\ c2.path = c.path /\ c2.trees = {} /\ c2.blobs = {} /\ c2.base = c.base
      /\ c.old = <<>> /\ c.trees = {} /\ c.blobs = {} /\ c.path \in Path
  BY DEF WithLeaf, CmdShape, Command
<1>5. CmdShape(o2, c2)
  BY <1>1, <1>2, <1>4, PathFacts DEF CmdShape, Committed
<1>6. Doomed(c2) = {c.base} /\ Doomed(c) = {c.base} /\ Top(c2) = 0
  BY <1>4 DEF Doomed, Top
<1>7. c.base < Len(o2) /\ c.cur \in 1..Len(o)
  BY <1>2 DEF CmdShape, TreeIn
<1>8. r2[c.cur] = r[c.cur] /\ r[c.cur] \subseteq 1..c.cur
  BY <1>0, <1>7, ReachBelow DEF Grows, StoreInv
<1>9. \A x : Returned(r2, c2, x) <=> x = Len(o2)
  BY <1>2, <1>4 DEF Returned
<1>10. Apart(o2, r2, c2)
  BY <1>1, <1>2, <1>4, <1>6, <1>7, <1>8, <1>9 DEF Apart, Building, Committed
<1> QED BY <1>3, <1>5, <1>10

(* One level down the path: what hangs off the tree just loaded joins what hangs
   off the levels above, and the entry on the path is apart from all of it. *)
Pushed(o, r, c, c2) ==
  /\ Len(c2.old) = Len(c.old) + 1
  /\ \A i \in 1..Len(c2.old) : TreeIn(o, c2.old[i])
  /\ \A i, j \in 1..Len(c2.old) : \A x :
       Beside(o, r, c2, i, x) /\ Beside(o, r, c2, j, x) => i = j
  /\ \A i \in 1..Len(c2.old) : \A x :
       Beside(o, r, c2, i, x) =>
         /\ x \in 1..Len(o)
         /\ ~Returned(r, c2, x)
         /\ x # c2.base
         /\ \A j \in 1..Len(c2.old) : x # c2.old[j]
  /\ ~Returned(r, c2, c2.base)
  /\ \A j \in 1..Len(c2.old) : ~Returned(r, c2, c2.old[j])
  /\ \A x : Under(o, r, c.cur, c.path[Level(c)], x) =>
       /\ x \in r[c.cur] /\ x # c.cur
       /\ ~Returned(r, c2, x)
       /\ x # c2.base
       /\ \A j \in 1..Len(c2.old) : x # c2.old[j] /\ ~Beside(o, r, c2, j, x)

LEMMA PushLevel ==
  ASSUME NEW o \in Seq(Object), NEW r \in Seq(SUBSET Nat), StoreInv(o, r),
         NEW c \in Command, CmdShape(o, c), Apart(o, r, c), c.pc = "walk",
         NEW c2, c2.old = Append(c.old, c.cur), c2.path = c.path, c2.base = c.base,
         c2.ret \in {c.ret, 0}
  PROVE  Pushed(o, r, c, c2)
<1> DEFINE L == Len(c.old) + 1
<1>1. /\ c.old \in Seq(Nat) /\ c.cur \in Nat /\ Len(c.old) \in Nat /\ Level(c) = L
      /\ TreeIn(o, c.cur) /\ c.path \in Path /\ Len(c.old) < Len(c.path)
  BY DEF Command, CmdShape, Level
<1>2. /\ Len(c2.old) = L /\ c2.old[L] = c.cur
      /\ \A i \in 1..Len(c.old) : c2.old[i] = c.old[i]
  BY <1>1
<1>3. \A i \in 1..L : i = L \/ i \in 1..Len(c.old)
  BY <1>1
<1>4. \A i \in 1..L : TreeIn(o, c2.old[i])
  BY <1>1, <1>2, <1>3 DEF CmdShape
<1>5. \A i \in 1..Len(c.old) : \A x : Beside(o, r, c2, i, x) <=> Beside(o, r, c, i, x)
  BY <1>2 DEF Beside
<1>6. c.path[L] \in Name
  <2>1. Len(c.path) \in Nat /\ \A i \in 1..Len(c.path) : c.path[i] \in Name
    BY <1>1, PathFacts
  <2>2. L \in 1..Len(c.path)
    BY <2>1, <1>1
  <2> QED BY ONLY <2>1, <2>2
<1>7. ObjectInv(o, r, c.cur) /\ c.cur \in 1..Len(o)
  BY <1>1 DEF StoreInv, TreeIn
<1>8. \A n \in Name : \A x : Under(o, r, c.cur, n, x) => x \in r[c.cur] /\ x # c.cur
  <2> SUFFICES ASSUME NEW n \in Name, NEW x, Under(o, r, c.cur, n, x)
               PROVE  x \in r[c.cur] /\ x # c.cur
    OBVIOUS
  <2>1. r[o[c.cur].dir[n]] \subseteq 1..(c.cur - 1)
    BY <1>7, BesideKnown DEF Under
  <2> QED BY <2>1, <1>1, <1>7 DEF Under, ObjectInv, TreeIn
<1>9. \A x : Beside(o, r, c2, L, x) => x \in r[c.cur] /\ x # c.cur
  BY <1>2, <1>8 DEF Beside
<1>10. \A x : Under(o, r, c.cur, c.path[L], x) => ~Beside(o, r, c2, L, x)
  <2> SUFFICES ASSUME NEW x, Under(o, r, c.cur, c.path[L], x), Beside(o, r, c2, L, x)
               PROVE  FALSE
    OBVIOUS
  <2>1. PICK n \in Name : n # c.path[L] /\ Under(o, r, c.cur, n, x)
    BY <1>2 DEF Beside
  <2> QED BY <2>1, <1>6, <1>7, <1>8 DEF ObjectInv
<1>11. \A x \in r[c.cur] : /\ x \notin Doomed(c)
                          /\ ~Returned(r, c, x)
                          /\ \A i \in 1..Len(c.old) : ~Beside(o, r, c, i, x)
  BY DEF Apart, Top
<1>12. \A x : Returned(r, c2, x) => Returned(r, c, x)
  BY DEF Returned
<1>13. r[c.cur] \subseteq 1..Len(o)
  BY <1>7 DEF ObjectInv
<1>14. \A i \in 1..Len(c.old) : \A x : Beside(o, r, c, i, x) =>
          x \in 1..Len(o) /\ ~Returned(r, c, x) /\ x \notin Doomed(c)
  <2> SUFFICES ASSUME NEW i \in 1..Len(c.old), NEW x, Beside(o, r, c, i, x)
               PROVE  x \in 1..Len(o) /\ ~Returned(r, c, x) /\ x \notin Doomed(c)
    OBVIOUS
  <2>1. c.old[i] \in 1..Len(o)
    BY DEF CmdShape, TreeIn
  <2>2. x \in 1..Len(o)
    BY <2>1, BesideBelow
  <2> QED BY <2>2 DEF Apart, Building, Top
<1>15. \A i, j \in 1..Len(c.old) : \A x :
          Beside(o, r, c, i, x) /\ Beside(o, r, c, j, x) => i = j
  BY <1>14 DEF Apart, Building, Top
<1>16. \A x \in Doomed(c) : ~Returned(r, c, x)
  BY DEF Apart, Building
<1>17. c.base \in Doomed(c) /\ \A j \in 1..Len(c.old) : c.old[j] \in Doomed(c)
  BY DEF Doomed
<1>18. c.cur \in r[c.cur]
  BY <1>7 DEF ObjectInv
<1> HIDE DEF L
<1>19. \A i, j \in 1..L : \A x : Beside(o, r, c2, i, x) /\ Beside(o, r, c2, j, x) => i = j
  <2> SUFFICES ASSUME NEW i \in 1..L, NEW j \in 1..L, NEW x,
                      Beside(o, r, c2, i, x), Beside(o, r, c2, j, x)
               PROVE  i = j
    OBVIOUS
  <2>1. CASE i = L
    BY <1>3, <1>5, <1>9, <1>11, <2>1
  <2>2. CASE j = L
    BY <1>3, <1>5, <1>9, <1>11, <2>2
  <2>3. CASE i # L /\ j # L
    BY <1>3, <1>5, <1>15, <2>3
  <2> QED BY <2>1, <2>2, <2>3
<1>20. \A i \in 1..L : \A x : Beside(o, r, c2, i, x) =>
          /\ x \in 1..Len(o) /\ ~Returned(r, c2, x) /\ x # c2.base
          /\ \A j \in 1..L : x # c2.old[j]
  <2> SUFFICES ASSUME NEW i \in 1..L, NEW x, Beside(o, r, c2, i, x)
               PROVE  /\ x \in 1..Len(o) /\ ~Returned(r, c2, x) /\ x # c2.base
                      /\ \A j \in 1..L : x # c2.old[j]
    OBVIOUS
  <2>1. CASE i = L
    <3>1. x \in r[c.cur] /\ x # c.cur
      BY <1>9, <2>1
    <3>2. x \in 1..Len(o) /\ ~Returned(r, c2, x) /\ x \notin Doomed(c)
      BY <3>1, <1>11, <1>12, <1>13
    <3> QED BY <3>1, <3>2, <1>2, <1>3, <1>17
  <2>2. CASE i # L
    <3>1. i \in 1..Len(c.old) /\ Beside(o, r, c, i, x)
      BY <1>3, <1>5, <2>2
    <3>2. x \in 1..Len(o) /\ ~Returned(r, c2, x) /\ x \notin Doomed(c)
      BY <3>1, <1>12, <1>14
    <3>3. x # c.cur
      BY <3>1, <1>11, <1>18
    <3> QED BY <3>2, <3>3, <1>2, <1>3, <1>17
  <2> QED BY <2>1, <2>2
<1>21. ~Returned(r, c2, c2.base) /\ \A j \in 1..L : ~Returned(r, c2, c2.old[j])
  BY <1>2, <1>3, <1>11, <1>12, <1>16, <1>17, <1>18
<1>22. \A x : Under(o, r, c.cur, c.path[L], x) =>
          /\ x \in r[c.cur] /\ x # c.cur /\ ~Returned(r, c2, x) /\ x # c2.base
          /\ \A j \in 1..L : x # c2.old[j] /\ ~Beside(o, r, c2, j, x)
  BY <1>2, <1>3, <1>5, <1>6, <1>8, <1>10, <1>11, <1>12, <1>17
<1> QED BY <1>1, <1>2, <1>4, <1>19, <1>20, <1>21, <1>22 DEF L, Pushed

(* Appending a natural number to the list of old trees. *)
LEMMA AppendNat ==
  ASSUME NEW s \in Seq(Nat), NEW k \in Nat
  PROVE  Append(s, k) \in Seq(Nat)
  OBVIOUS

(* The entry a walking command finds at its level. *)
LEMMA EntryKnown ==
  ASSUME NEW o \in Seq(Object), NEW r \in Seq(SUBSET Nat), StoreInv(o, r),
         NEW c \in Command, CmdShape(o, c), c.pc = "walk",
         o[c.cur].dir[c.path[Level(c)]] # 0
  PROVE  /\ o[c.cur].dir[c.path[Level(c)]] \in 1..Len(o)
         /\ \A x \in r[o[c.cur].dir[c.path[Level(c)]]] :
              Under(o, r, c.cur, c.path[Level(c)], x)
<1>1. /\ c.cur \in 1..Len(o) /\ c.path \in Path /\ c.old \in Seq(Nat)
      /\ Level(c) = Len(c.old) + 1 /\ Len(c.old) < Len(c.path)
  BY DEF Command, CmdShape, TreeIn, Level
<1>2. Len(c.path) \in Nat /\ Len(c.old) \in Nat /\ Level(c) \in 1..Len(c.path)
  BY <1>1, PathFacts
<1>3. c.path[Level(c)] \in Name
  BY <1>1, <1>2, PathFacts
<1>4. o[c.cur].dir[c.path[Level(c)]] \in 1..(c.cur - 1)
  BY <1>1, <1>3, BesideKnown
<1>5. o[c.cur].dir[c.path[Level(c)]] \in 1..Len(o)
  <2>1. Len(o) \in Nat /\ c.cur \in Nat /\ c.cur <= Len(o)
    BY <1>1
  <2> QED BY <2>1, <1>4
<1> QED BY <1>5 DEF Under

(* Descending into a directory that exists. *)
LEMMA DescendCmd ==
  ASSUME NEW o \in Seq(Object), NEW r \in Seq(SUBSET Nat), StoreInv(o, r),
         NEW c \in Command, CmdShape(o, c), Apart(o, r, c), c.pc = "walk",
         Level(c) # Len(c.path),
         NEW k, TreeIn(o, k),
         \A x \in r[k] : Under(o, r, c.cur, c.path[Level(c)], x),
         NEW c2, c2 = [c EXCEPT !.old = Append(@, c.cur), !.cur = k]
  PROVE  c2 \in Command /\ CmdShape(o, c2) /\ Apart(o, r, c2)
<1>0. /\ c.old \in Seq(Nat) /\ c.cur \in Nat /\ c.path \in Path
      /\ Level(c) = Len(c.old) + 1 /\ Len(c.old) < Len(c.path)
  BY DEF Command, CmdShape, Level
<1>a. Len(c.path) \in Nat /\ Len(c.old) \in Nat
  BY <1>0, PathFacts
<1>1. Level(c) \in 1..Len(c.path) /\ Level(c) < Len(c.path)
  BY <1>0, <1>a
<1>3. k \in Nat
  BY DEF TreeIn
<1>4. c2 \in Command
  BY <1>0, <1>a, <1>1, <1>3, AppendNat DEF Command
<1>5. /\ c2.old = Append(c.old, c.cur) /\ c2.path = c.path /\ c2.base = c.base
      /\ c2.ret = c.ret /\ c2.cur = k /\ c2.pc = "walk"
      /\ c2.trees = {} /\ c2.blobs = {}
  BY DEF Command, CmdShape
<1>p. Pushed(o, r, c, c2)
  BY <1>5, PushLevel
<1>6. /\ Len(c2.old) = Level(c)
      /\ \A i \in 1..Len(c2.old) : TreeIn(o, c2.old[i])
  BY <1>0, <1>a, <1>1, <1>5, <1>p DEF Pushed
<1>7. CmdShape(o, c2)
  BY <1>0, <1>a, <1>1, <1>3, <1>5, <1>6 DEF CmdShape, TreeIn, Committed
<1>8. Top(c2) = Len(c2.old)
  BY <1>5 DEF Top
<1>9. \A x : x \in Doomed(c2) <=> x = c2.base \/ \E j \in 1..Len(c2.old) : x = c2.old[j]
  BY <1>5 DEF Doomed
<1>11. /\ \A i, j \in 1..Top(c2) : \A x \in 1..Len(o) :
            Beside(o, r, c2, i, x) /\ Beside(o, r, c2, j, x) => i = j
       /\ \A i \in 1..Top(c2) : \A x \in 1..Len(o) :
            Beside(o, r, c2, i, x) => ~Returned(r, c2, x) /\ x \notin Doomed(c2)
       /\ \A x \in Doomed(c2) : ~Returned(r, c2, x)
  <2>1. \A i, j \in 1..Top(c2) : \A x \in 1..Len(o) :
          Beside(o, r, c2, i, x) /\ Beside(o, r, c2, j, x) => i = j
    BY <1>8, <1>p DEF Pushed
  <2>2. \A i \in 1..Top(c2) : \A x \in 1..Len(o) :
          Beside(o, r, c2, i, x) => ~Returned(r, c2, x) /\ x \notin Doomed(c2)
    <3> SUFFICES ASSUME NEW i \in 1..Top(c2), NEW x \in 1..Len(o), Beside(o, r, c2, i, x)
                 PROVE  ~Returned(r, c2, x) /\ x \notin Doomed(c2)
      OBVIOUS
    <3>1. /\ ~Returned(r, c2, x) /\ x # c2.base
          /\ \A j \in 1..Len(c2.old) : x # c2.old[j]
      BY <1>8, <1>p DEF Pushed
    <3> QED BY <3>1, <1>9
  <2>3. \A x \in Doomed(c2) : ~Returned(r, c2, x)
    BY <1>9, <1>p DEF Pushed
  <2> QED BY <2>1, <2>2, <2>3
<1>12. \A x \in r[c2.cur] : /\ x \notin Doomed(c2)
                           /\ ~Returned(r, c2, x)
                           /\ \A i \in 1..Top(c2) : ~Beside(o, r, c2, i, x)
  BY <1>5, <1>8, <1>9, <1>p DEF Pushed
<1>13. Apart(o, r, c2)
  BY <1>5, <1>11, <1>12 DEF Apart, Committed
<1> QED BY <1>4, <1>7, <1>13

(* add and mkdir: the next directory of the path is missing. *)
LEMMA MissingParentCmd ==
  ASSUME NEW o \in Seq(Object), NEW r \in Seq(SUBSET Nat), StoreInv(o, r),
         NEW c \in Command, CmdShape(o, c), Apart(o, r, c), c.pc = "walk",
         Level(c) # Len(c.path),
         NEW c2, c2 = [c EXCEPT !.old = Append(@, c.cur), !.pc = "parent"]
  PROVE  c2 \in Command /\ CmdShape(o, c2) /\ Apart(o, r, c2)
<1>0. /\ c.old \in Seq(Nat) /\ c.cur \in Nat /\ c.path \in Path
      /\ Level(c) = Len(c.old) + 1 /\ Len(c.old) < Len(c.path)
  BY DEF Command, CmdShape, Level
<1>a. Len(c.path) \in Nat /\ Len(c.old) \in Nat
  BY <1>0, PathFacts
<1>1. Level(c) \in 1..Len(c.path) /\ Level(c) < Len(c.path)
  BY <1>0, <1>a
<1>2. c2 \in Command
  BY <1>0, <1>a, <1>1, AppendNat DEF Command, Label
<1>3. /\ c2.old = Append(c.old, c.cur) /\ c2.path = c.path /\ c2.base = c.base
      /\ c2.ret = c.ret /\ c2.pc = "parent" /\ c2.trees = {} /\ c2.blobs = {}
  BY DEF Command, CmdShape
<1>p. Pushed(o, r, c, c2)
  BY <1>3, PushLevel
<1>4. /\ Len(c2.old) = Level(c)
      /\ \A i \in 1..Len(c2.old) : TreeIn(o, c2.old[i])
  BY <1>0, <1>a, <1>1, <1>3, <1>p DEF Pushed
<1>5. CmdShape(o, c2)
  BY <1>0, <1>a, <1>1, <1>3, <1>4 DEF CmdShape, Committed
<1>6. Top(c2) = Len(c2.old)
  BY <1>3 DEF Top
<1>7. \A x : x \in Doomed(c2) <=> x = c2.base \/ \E j \in 1..Len(c2.old) : x = c2.old[j]
  BY <1>3 DEF Doomed
<1>8. /\ \A i, j \in 1..Top(c2) : \A x \in 1..Len(o) :
            Beside(o, r, c2, i, x) /\ Beside(o, r, c2, j, x) => i = j
      /\ \A i \in 1..Top(c2) : \A x \in 1..Len(o) :
            Beside(o, r, c2, i, x) => ~Returned(r, c2, x) /\ x \notin Doomed(c2)
      /\ \A x \in Doomed(c2) : ~Returned(r, c2, x)
  <2>1. \A i, j \in 1..Top(c2) : \A x \in 1..Len(o) :
          Beside(o, r, c2, i, x) /\ Beside(o, r, c2, j, x) => i = j
    BY <1>6, <1>p DEF Pushed
  <2>2. \A i \in 1..Top(c2) : \A x \in 1..Len(o) :
          Beside(o, r, c2, i, x) => ~Returned(r, c2, x) /\ x \notin Doomed(c2)
    <3> SUFFICES ASSUME NEW i \in 1..Top(c2), NEW x \in 1..Len(o), Beside(o, r, c2, i, x)
                 PROVE  ~Returned(r, c2, x) /\ x \notin Doomed(c2)
      OBVIOUS
    <3>1. /\ ~Returned(r, c2, x) /\ x # c2.base
          /\ \A j \in 1..Len(c2.old) : x # c2.old[j]
      BY <1>6, <1>p DEF Pushed
    <3> QED BY <3>1, <1>7
  <2>3. \A x \in Doomed(c2) : ~Returned(r, c2, x)
    BY <1>7, <1>p DEF Pushed
  <2> QED BY <2>1, <2>2, <2>3
<1>9. Apart(o, r, c2)
  BY <1>3, <1>8 DEF Apart, Committed
<1> QED BY <1>2, <1>5, <1>9

(* The last level: the entry is replaced or erased, and what is erased is what
   lies under the entry, apart from everything that stays. *)
LEMMA LeafCmd ==
  ASSUME NEW o \in Seq(Object), NEW r \in Seq(SUBSET Nat), StoreInv(o, r),
         NEW c \in Command, CmdShape(o, c), Apart(o, r, c), c.pc = "walk",
         Level(c) = Len(c.path),
         NEW ret, NEW trees, NEW blobs,
         \/ ret = c.ret /\ trees = {} /\ blobs = {}
         \/ /\ ret = 0
            /\ \A x \in trees \cup blobs : Under(o, r, c.cur, c.path[Level(c)], x),
         NEW c2, c2 = Edited(c, ret, trees, blobs)
  PROVE  c2 \in Command /\ CmdShape(o, c2) /\ Apart(o, r, c2)
<1>0. /\ c.old \in Seq(Nat) /\ c.cur \in Nat /\ c.path \in Path
      /\ Level(c) = Len(c.old) + 1 /\ c.ret \in 0..Len(o)
  BY DEF Command, CmdShape, Level
<1>1. Len(c.path) \in Nat \ {0}
  BY <1>0, PathFacts
<1>2. /\ c2.old = Append(c.old, c.cur) /\ c2.path = c.path /\ c2.base = c.base
      /\ c2.ret = ret /\ c2.pc = "store" /\ c2.trees = trees /\ c2.blobs = blobs
      /\ c2.lvl = Len(c.path) /\ ret \in {c.ret, 0}
  BY DEF Command, Edited
<1>p. Pushed(o, r, c, c2)
  BY <1>2, PushLevel
<1>3. \A x \in trees \cup blobs : ret = 0 /\ Under(o, r, c.cur, c.path[Level(c)], x)
  OBVIOUS
<1>4. r[c.cur] \subseteq 1..Len(o)
  <2>1. c.cur \in 1..Len(o)
    BY DEF CmdShape, TreeIn
  <2> QED BY <2>1, ReachBelow
<1>5. trees \cup blobs \subseteq 1..Len(o)
  BY <1>2, <1>3, <1>4, <1>p DEF Pushed
<1>6. c2 \in Command
  <2>1. trees \in SUBSET Nat /\ blobs \in SUBSET Nat
    BY <1>5
  <2>2. Append(c.old, c.cur) \in Seq(Nat) /\ ret \in Nat
    BY <1>0, <1>1, <1>2, AppendNat
  <2> QED BY <1>0, <1>1, <2>1, <2>2 DEF Command, Edited, Label
<1>7. /\ Len(c2.old) = Level(c)
      /\ \A i \in 1..Len(c2.old) : TreeIn(o, c2.old[i])
  BY <1>0, <1>1, <1>2, <1>p DEF Pushed
<1>8. CmdShape(o, c2)
  <2>1. c2.ret \in 0..Len(o) /\ c2.base \in 0..Len(o)
    BY <1>2 DEF CmdShape
  <2>2. c2.trees \subseteq 1..Len(o) /\ c2.blobs \subseteq 1..Len(o)
    BY <1>2, <1>5
  <2>3. Len(c2.old) = Len(c2.path) /\ c2.lvl \in 1..Len(c2.old)
    BY <1>1, <1>2, <1>7
  <2> QED BY <1>0, <1>2, <1>7, <2>1, <2>2, <2>3 DEF CmdShape, Committed
<1>9. Top(c2) = Len(c2.old)
  BY <1>0, <1>1, <1>2, <1>7 DEF Top
<1>10. \A x \in Doomed(c2) :
         \/ x = c2.base
         \/ \E j \in 1..Len(c2.old) : x = c2.old[j]
         \/ ret = 0 /\ Under(o, r, c.cur, c.path[Level(c)], x)
  BY <1>2, <1>3 DEF Doomed
<1>11. \A i, j \in 1..Top(c2) : \A x \in 1..Len(o) :
            Beside(o, r, c2, i, x) /\ Beside(o, r, c2, j, x) => i = j
  BY <1>2, <1>9, <1>p DEF Pushed
<1>12. \A i \in 1..Top(c2) : \A x \in 1..Len(o) :
            Beside(o, r, c2, i, x) => ~Returned(r, c2, x) /\ x \notin Doomed(c2)
  <2> SUFFICES ASSUME NEW i \in 1..Len(c2.old), NEW x, Beside(o, r, c2, i, x)
               PROVE  ~Returned(r, c2, x) /\ x \notin Doomed(c2)
    BY <1>9
  <2>1. /\ ~Returned(r, c2, x) /\ x # c2.base
        /\ \A j \in 1..Len(c2.old) : x # c2.old[j]
    BY <1>p DEF Pushed
  <2>2. ~Under(o, r, c.cur, c.path[Level(c)], x)
    BY <1>p DEF Pushed
  <2> QED BY <2>1, <2>2, <1>10
<1>13. \A x \in Doomed(c2) : ~Returned(r, c2, x)
  BY <1>2, <1>10, <1>p DEF Pushed, Returned
<1>14. Apart(o, r, c2)
  BY <1>2, <1>11, <1>12, <1>13 DEF Apart, Committed
<1> QED BY <1>6, <1>8, <1>14

WithParent(c, h) == [c EXCEPT !.cur = h, !.pc = "walk"]

(* The placeholder of a missing parent is stored and becomes the tree to walk in. *)
LEMMA StoreParentCmd ==
  ASSUME NEW o \in Seq(Object), NEW r \in Seq(SUBSET Nat), StoreInv(o, r),
         NEW o2, NEW r2, Extends(o, r, o2, r2),
         NEW c \in Command, CmdShape(o, c), Apart(o, r, c), c.pc = "parent",
         TreeIn(o2, Len(o2)), r2[Len(o2)] = {Len(o2)}
  PROVE  LET c2 == WithParent(c, Len(o2)) IN
         c2 \in Command /\ CmdShape(o2, c2) /\ Apart(o2, r2, c2)
<1> DEFINE c2 == WithParent(c, Len(o2))
<1>0. /\ o2 \in Seq(Object) /\ r2 \in Seq(SUBSET Nat)
      /\ Grows(o, o2) /\ Grows(r, r2) /\ ObjectInv(o2, r2, Len(o2))
  BY DEF Extends
<1>1. CmdShape(o2, c) /\ Apart(o2, r2, c) /\ StoreInv(o2, r2)
  BY <1>0, CmdGrows, StoreGrows
<1>2. Len(o) \in Nat /\ Len(o2) = Len(o) + 1 /\ Len(o2) \in Nat /\ Len(r) = Len(o)
  BY <1>0 DEF Grows, StoreInv
<1>3. c2 \in Command
  BY <1>2 DEF WithParent, Command, Label
<1>4. /\ c2.pc = "walk" /\ c2.ret = c.ret /\ c2.old = c.old /\ c2.cur = Len(o2)
      /\ c2.path = c.path /\ c2.trees = {} /\ c2.blobs = {} /\ c2.base = c.base
      /\ c.trees = {} /\ c.blobs = {} /\ c.path \in Path /\ Len(c.old) < Len(c.path)
  BY DEF WithParent, CmdShape, Command
<1>5. CmdShape(o2, c2)
  BY <1>1, <1>2, <1>4 DEF CmdShape, Committed
<1>6. Doomed(c2) = Doomed(c) /\ Top(c2) = Len(c.old) /\ Top(c) = Len(c.old)
  BY <1>4 DEF Doomed, Top
<1>7. \A i : \A x : Beside(o2, r2, c2, i, x) <=> Beside(o2, r2, c, i, x)
  BY <1>4 DEF Beside
<1>8. \A x : Returned(r2, c2, x) <=> Returned(r2, c, x)
  BY <1>4 DEF Returned
<1>9. Len(o2) \notin Doomed(c)
  BY <1>2, <1>4 DEF Doomed, CmdShape, TreeIn
<1>10. ~Returned(r2, c, Len(o2))
  <2>1. CASE c.ret = 0
    BY <2>1 DEF Returned
  <2>2. CASE c.ret # 0
    <3>1. c.ret \in 1..Len(o)
      BY <2>2, <1>2 DEF CmdShape
    <3>2. r2[c.ret] = r[c.ret] /\ r[c.ret] \subseteq 1..c.ret
      BY <1>0, <3>1, <1>2, ReachBelow DEF Grows
    <3> QED BY <3>1, <3>2, <1>2 DEF Returned
  <2> QED BY <2>1, <2>2
<1>11. \A i \in 1..Len(c.old) : ~Beside(o2, r2, c, i, Len(o2))
  <2> SUFFICES ASSUME NEW i \in 1..Len(c.old), Beside(o2, r2, c, i, Len(o2)) PROVE FALSE
    OBVIOUS
  <2>1. c.old[i] \in 1..Len(o2)
    BY <1>1 DEF CmdShape, TreeIn
  <2>2. Len(o2) \in 1..(c.old[i] - 1)
    BY <1>0, <1>1, <2>1, BesideBelow
  <2> QED BY <2>1, <2>2, <1>2
<1>12. Apart(o2, r2, c2)
  BY <1>1, <1>4, <1>6, <1>7, <1>8, <1>9, <1>10, <1>11 DEF Apart, Building, Committed
<1> QED BY <1>3, <1>5, <1>12

----------------------------------------------------------------------------
(* What the commands store *)

BelowDir(r, dir) == UNION {r[dir[n]] : n \in {m \in Name : dir[m] # 0}}

DisjointDir(o, r, dir) ==
  /\ dir \in [Name -> Nat]
  /\ \A n \in Name : dir[n] \in 0..Len(o)
  /\ \A m, n \in Name : \A x :
       dir[m] # 0 /\ dir[n] # 0 /\ x \in r[dir[m]] /\ x \in r[dir[n]] => m = n

TreeAdded(o, r, o2, r2, dir) ==
  /\ o2 = Append(o, Tree(dir))
  /\ r2 = Append(r, {Len(o) + 1} \cup BelowDir(r, dir))

(* A new tree is well formed when its entries lead to disjoint sets of objects. *)
LEMMA NewTree ==
  ASSUME NEW o \in Seq(Object), NEW r \in Seq(SUBSET Nat), StoreInv(o, r),
         NEW dir, DisjointDir(o, r, dir),
         NEW o2, NEW r2, TreeAdded(o, r, o2, r2, dir)
  PROVE  /\ Extends(o, r, o2, r2)
         /\ TreeIn(o2, Len(o2))
         /\ r2[Len(o2)] = {Len(o2)} \cup BelowDir(r, dir)
<1>0. /\ dir \in [Name -> Nat]
      /\ \A n \in Name : dir[n] \in 0..Len(o)
      /\ \A m, n \in Name : \A x :
           dir[m] # 0 /\ dir[n] # 0 /\ x \in r[dir[m]] /\ x \in r[dir[n]] => m = n
      /\ o2 = Append(o, Tree(dir))
      /\ r2 = Append(r, {Len(o) + 1} \cup BelowDir(r, dir))
  BY DEF DisjointDir, TreeAdded
<1> DEFINE h == Len(o) + 1
<1>1. Tree(dir) \in Object /\ Tree(dir).kind = "tree" /\ Tree(dir).dir = dir
  BY <1>0 DEF Tree, Object
<1>2. Len(o) \in Nat /\ Len(r) = Len(o)
  BY DEF StoreInv
<1>3. \A n \in Name : dir[n] # 0 => dir[n] \in 1..Len(o) /\ r[dir[n]] \subseteq 1..Len(o)
  <2> SUFFICES ASSUME NEW n \in Name, dir[n] # 0
               PROVE  dir[n] \in 1..Len(o) /\ r[dir[n]] \subseteq 1..Len(o)
    OBVIOUS
  <2>1. dir[n] \in 1..Len(o)
    BY <1>0, <1>2
  <2> QED BY <2>1, ReachBelow
<1>4. BelowDir(r, dir) \subseteq 1..Len(o)
  BY <1>3 DEF BelowDir
<1>5. {h} \cup BelowDir(r, dir) \in SUBSET Nat
  BY <1>2, <1>4
<1>6. /\ o2 \in Seq(Object) /\ Grows(o, o2) /\ o2[h] = Tree(dir) /\ Len(o2) = h
  BY <1>0, <1>1, AppendGrows DEF Grows
<1>7. /\ r2 \in Seq(SUBSET Nat) /\ Grows(r, r2) /\ r2[h] = {h} \cup BelowDir(r, dir)
  BY <1>0, <1>2, <1>5, AppendGrows
<1>8. \A n \in Name : dir[n] # 0 => r2[dir[n]] = r[dir[n]]
  BY <1>2, <1>3, <1>7 DEF Grows
<1>9. \A n \in Name : \A x : Under(o2, r2, h, n, x) <=> dir[n] # 0 /\ x \in r[dir[n]]
  BY <1>1, <1>6, <1>8 DEF Under
<1>10. \A x : x \in r2[h] <=> x = h \/ \E n \in Name : Under(o2, r2, h, n, x)
  <2>1. \A x : x \in BelowDir(r, dir) <=> \E n \in Name : dir[n] # 0 /\ x \in r[dir[n]]
    BY DEF BelowDir
  <2>2. \A x : x \in r2[h] <=> x = h \/ x \in BelowDir(r, dir)
    BY <1>7
  <2> HIDE DEF h
  <2> QED BY <1>9, <2>1, <2>2
<1>11. \A n \in Name : o2[h].dir[n] < h
  BY <1>0, <1>1, <1>2, <1>6
<1>12. r2[h] \subseteq 1..h /\ h \in r2[h]
  BY <1>2, <1>4, <1>7
<1>13. o2[h].kind = "tree"
  BY <1>1, <1>6
<1>14. \A m, n \in Name : \A x :
         Under(o2, r2, h, m, x) /\ Under(o2, r2, h, n, x) => m = n
  BY <1>0, <1>9
<1> HIDE DEF h
<1>15. ObjectInv(o2, r2, h)
  BY <1>10, <1>11, <1>12, <1>13, <1>14 DEF ObjectInv
<1>16. TreeIn(o2, h)
  BY <1>1, <1>2, <1>6 DEF TreeIn, h
<1> QED BY <1>6, <1>7, <1>15, <1>16 DEF Extends

CommitAdded(o, r, o2, r2, t) ==
  /\ o2 = Append(o, Commit(t))
  /\ r2 = Append(r, {Len(o) + 1} \cup r[t])

(* A new commit above a tree of the store. *)
LEMMA NewCommit ==
  ASSUME NEW o \in Seq(Object), NEW r \in Seq(SUBSET Nat), StoreInv(o, r),
         NEW t, TreeIn(o, t),
         NEW o2, NEW r2, CommitAdded(o, r, o2, r2, t)
  PROVE  /\ Extends(o, r, o2, r2)
         /\ CommitIn(o2, Len(o2))
         /\ r2[Len(o2)] = {Len(o2)} \cup r[t]
<1> DEFINE h == Len(o) + 1
<1>1. t \in Nat /\ t \in 1..Len(o) /\ Len(o) \in Nat /\ Len(r) = Len(o)
  BY DEF TreeIn, StoreInv
<1>2. Commit(t) \in Object /\ Commit(t).kind = "commit" /\ Commit(t).root = t
      /\ Commit(t).dir = EmptyDir
  BY <1>1 DEF Commit, Object, EmptyDir
<1>3. r[t] \subseteq 1..Len(o)
  BY <1>1, ReachBelow
<1>4. {h} \cup r[t] \in SUBSET Nat
  BY <1>1, <1>3
<1>5. /\ o2 \in Seq(Object) /\ Grows(o, o2) /\ o2[h] = Commit(t) /\ Len(o2) = h
  BY <1>2, AppendGrows DEF Grows, CommitAdded
<1>6. /\ r2 \in Seq(SUBSET Nat) /\ Grows(r, r2) /\ r2[h] = {h} \cup r[t]
  <2>1. r2 = Append(r, {h} \cup r[t])
    BY DEF CommitAdded
  <2> QED BY <1>1, <1>4, <2>1, AppendGrows
<1>7. r2[t] = r[t] /\ TreeIn(o2, t) /\ t < h
  BY <1>1, <1>5, <1>6 DEF Grows, TreeIn
<1>8. \A n \in Name : o2[h].dir[n] = 0
  BY <1>2, <1>5 DEF EmptyDir
<1>9. r2[h] \subseteq 1..h /\ h \in r2[h] /\ \A n \in Name : o2[h].dir[n] < h
  BY <1>1, <1>3, <1>6, <1>8
<1>10. \A n \in Name : \A x : ~Under(o2, r2, h, n, x)
  BY <1>8 DEF Under
<1>11. o2[h].kind = "commit" /\ o2[h].root = t
  BY <1>2, <1>5
<1> HIDE DEF h
<1>12. ObjectInv(o2, r2, h)
  BY <1>6, <1>7, <1>9, <1>10, <1>11 DEF ObjectInv
<1>13. CommitIn(o2, h)
  BY <1>1, <1>5, <1>11 DEF CommitIn, h
<1> QED BY <1>5, <1>6, <1>12, <1>13 DEF Extends

(* A new blob reaches itself only. *)
LEMMA NewBlob ==
  ASSUME NEW o \in Seq(Object), NEW r \in Seq(SUBSET Nat), StoreInv(o, r),
         NEW o2, o2 = Append(o, Blob),
         NEW r2, r2 = Append(r, {Len(o) + 1} \cup {})
  PROVE  Extends(o, r, o2, r2) /\ r2[Len(o2)] = {Len(o2)}
<1> DEFINE h == Len(o) + 1
<1>1. Len(o) \in Nat /\ Len(r) = Len(o)
  BY DEF StoreInv
<1>2. Blob \in Object /\ Blob.kind = "blob" /\ Blob.dir = EmptyDir
  BY DEF Blob, Object, EmptyDir
<1>3. /\ o2 \in Seq(Object) /\ Grows(o, o2) /\ o2[h] = Blob /\ Len(o2) = h
  BY <1>2, AppendGrows DEF Grows
<1>4. {h} \cup {} \in SUBSET Nat
  BY <1>1
<1>5. /\ r2 \in Seq(SUBSET Nat) /\ Grows(r, r2) /\ r2[h] = {h}
  BY <1>1, <1>4, AppendGrows
<1>6. \A n \in Name : o2[h].dir[n] = 0
  BY <1>2, <1>3 DEF EmptyDir
<1>7. \A n \in Name : \A x : ~Under(o2, r2, h, n, x)
  BY <1>6 DEF Under
<1>8. r2[h] \subseteq 1..h /\ h \in r2[h] /\ \A n \in Name : o2[h].dir[n] < h
  BY <1>1, <1>5, <1>6
<1>9. o2[h].kind = "blob"
  BY <1>2, <1>3
<1> HIDE DEF h
<1>10. ObjectInv(o2, r2, h)
  BY <1>5, <1>7, <1>8, <1>9 DEF ObjectInv, h
<1> QED BY <1>3, <1>5, <1>10 DEF Extends
----------------------------------------------------------------------------
(* On the way up *)

(* The tree of the current level with its entry replaced by what was returned. *)
LevelDir(o, c) == [o[c.old[c.lvl]].dir EXCEPT ![c.path[c.lvl]] = c.ret]

(* Its entries still lead to disjoint sets of objects, and it reaches what hangs off
   the path at this level and what the level below returned. *)
LEMMA LevelDirFacts ==
  ASSUME NEW o \in Seq(Object), NEW r \in Seq(SUBSET Nat), StoreInv(o, r),
         NEW c \in Command, CmdShape(o, c), Apart(o, r, c), c.pc = "store"
  PROVE  /\ DisjointDir(o, r, LevelDir(o, c))
         /\ \A x : x \in BelowDir(r, LevelDir(o, c)) <=>
                   Beside(o, r, c, c.lvl, x) \/ Returned(r, c, x)
<1> DEFINE L == c.lvl
           t == c.old[L]
           p == c.path[L]
           dir == LevelDir(o, c)
<1>1. /\ L \in 1..Len(c.old) /\ Len(c.old) = Len(c.path) /\ TreeIn(o, t)
      /\ t \in 1..Len(o) /\ c.ret \in 0..Len(o) /\ Len(o) \in Nat /\ c.path \in Path
  BY DEF CmdShape, TreeIn
<1>2. p \in Name
  BY <1>1, PathFacts
<1>3. o[t] \in Object
  BY <1>1
<1>4. o[t].dir \in [Name -> Nat]
  BY <1>3 DEF Object
<1>5. /\ dir \in [Name -> Nat] /\ dir[p] = c.ret
      /\ \A n \in Name : n # p => dir[n] = o[t].dir[n]
  <2> DEFINE d == o[t].dir
  <2>1. dir = [d EXCEPT ![p] = c.ret]
    BY DEF LevelDir
  <2>2. d \in [Name -> Nat] /\ c.ret \in Nat
    BY <1>1, <1>4
  <2> HIDE DEF d, p, dir
  <2>3. /\ dir \in [Name -> Nat] /\ dir[p] = c.ret
        /\ \A n \in Name : n # p => dir[n] = d[n]
    BY <1>2, <2>1, <2>2
  <2> QED BY <2>3 DEF d
<1>6. ObjectInv(o, r, t)
  BY <1>1 DEF StoreInv
<1>7. \A n \in Name : dir[n] \in 0..Len(o)
  <2> SUFFICES ASSUME NEW n \in Name PROVE dir[n] \in 0..Len(o)
    OBVIOUS
  <2>1. CASE n = p
    BY <2>1, <1>1, <1>5
  <2>2. CASE n # p
    <3>1. dir[n] \in Nat /\ dir[n] < t
      BY <2>2, <1>4, <1>5, <1>6 DEF ObjectInv
    <3> QED BY <3>1, <1>1
  <2> QED BY <2>1, <2>2
<1>8. \A x : Returned(r, c, x) <=> dir[p] # 0 /\ x \in r[dir[p]]
  BY <1>5 DEF Returned
<1>9. \A n \in Name : \A x : n # p => (Under(o, r, t, n, x) <=> dir[n] # 0 /\ x \in r[dir[n]])
  BY <1>5 DEF Under
<1>10. \A x : Beside(o, r, c, L, x) <=> \E n \in Name : n # p /\ dir[n] # 0 /\ x \in r[dir[n]]
  BY <1>9 DEF Beside
<1>11. \A x : Beside(o, r, c, L, x) => ~Returned(r, c, x)
  <2> SUFFICES ASSUME NEW x, Beside(o, r, c, L, x) PROVE ~Returned(r, c, x)
    OBVIOUS
  <2>1. x \in 1..(t - 1)
    BY <1>1, BesideBelow
  <2>2. x \in 1..Len(o)
    BY <2>1, <1>1
  <2>3. L \in 1..Top(c)
    BY <1>1 DEF Top
  <2> QED BY <2>2, <2>3 DEF Apart, Building
<1>12. \A m, n \in Name : \A x :
         m # p /\ n # p /\ dir[m] # 0 /\ dir[n] # 0 /\ x \in r[dir[m]] /\ x \in r[dir[n]] => m = n
  <2> SUFFICES ASSUME NEW m \in Name, NEW n \in Name, NEW x, m # p, n # p,
                      Under(o, r, t, m, x), Under(o, r, t, n, x)
               PROVE  m = n
    BY <1>9
  <2>1. x \in r[t]
    BY <1>1, <1>6 DEF ObjectInv, TreeIn
  <2> QED BY <2>1, <1>6 DEF ObjectInv
<1>13. \A x : x \in BelowDir(r, dir) <=> \E n \in Name : dir[n] # 0 /\ x \in r[dir[n]]
  BY DEF BelowDir
<1> HIDE DEF L, t, p, dir
<1>14. \A m, n \in Name : \A x :
         dir[m] # 0 /\ dir[n] # 0 /\ x \in r[dir[m]] /\ x \in r[dir[n]] => m = n
  BY <1>8, <1>10, <1>11, <1>12
<1>15. \A x : x \in BelowDir(r, dir) <=> Beside(o, r, c, L, x) \/ Returned(r, c, x)
  BY <1>2, <1>8, <1>10, <1>13
<1>16. DisjointDir(o, r, dir)
  BY <1>5, <1>7, <1>14 DEF DisjointDir
<1> QED BY <1>15, <1>16 DEF L, dir

WithTree(c, h) == [c EXCEPT !.ret = h, !.lvl = @ - 1, !.pc = IF c.lvl = 1 THEN "commit" ELSE "store"]

(* Storing the tree of a level: the recursion returns it to the level above. *)
LEMMA StoreTreeCmd ==
  ASSUME NEW o \in Seq(Object), NEW r \in Seq(SUBSET Nat), StoreInv(o, r),
         NEW o2, NEW r2, Extends(o, r, o2, r2),
         NEW c \in Command, CmdShape(o, c), Apart(o, r, c), c.pc = "store",
         TreeIn(o2, Len(o2)),
         r2[Len(o2)] = {Len(o2)} \cup BelowDir(r, LevelDir(o, c))
  PROVE  LET c2 == WithTree(c, Len(o2)) IN
         c2 \in Command /\ CmdShape(o2, c2) /\ Apart(o2, r2, c2)
<1> DEFINE c2 == WithTree(c, Len(o2))
<1>0. /\ o2 \in Seq(Object) /\ r2 \in Seq(SUBSET Nat)
      /\ Grows(o, o2) /\ Grows(r, r2) /\ ObjectInv(o2, r2, Len(o2))
  BY DEF Extends
<1> DEFINE h == Len(o2)
<1>1. CmdShape(o2, c) /\ Apart(o2, r2, c) /\ StoreInv(o2, r2)
  BY <1>0, CmdGrows, StoreGrows
<1>2. Len(o) \in Nat /\ h = Len(o) + 1 /\ h \in Nat /\ Len(r) = Len(o)
  BY <1>0 DEF Grows, StoreInv
<1>3. c.lvl \in 1..Len(c.old) /\ Len(c.old) \in Nat /\ c.lvl \in Nat
  BY DEF CmdShape, Command
<1>4. c.lvl - 1 \in Nat
  BY <1>3
<1>5. c2 \in Command
  BY <1>2, <1>4 DEF WithTree, Command, Label
<1>6. /\ c2.ret = h /\ c2.lvl = c.lvl - 1 /\ c2.pc \in {"commit", "store"}
      /\ (c2.pc = "commit" <=> c.lvl = 1)
      /\ c2.old = c.old /\ c2.path = c.path /\ c2.base = c.base
      /\ c2.trees = c.trees /\ c2.blobs = c.blobs
  BY DEF WithTree, Command
<1>7. CmdShape(o2, c2)
  <2>0. h \in 0..Len(o2) /\ TreeIn(o2, h)
    BY <1>2 DEF TreeIn
  <2> HIDE DEF c2, h
  <2>1. /\ c.path \in Path /\ Len(c.old) = Len(c.path)
        /\ c.base \in 0..Len(o2) /\ c.trees \subseteq 1..Len(o2) /\ c.blobs \subseteq 1..Len(o2)
        /\ \A i \in 1..Len(c.old) : TreeIn(o2, c.old[i])
    BY <1>1 DEF CmdShape
  <2>2. c2.pc = "store" => c2.lvl \in 1..Len(c2.old)
    BY ONLY <1>3, <1>6
  <2>3. /\ c2.path \in Path /\ Len(c2.old) = Len(c2.path)
        /\ \A i \in 1..Len(c2.old) : TreeIn(o2, c2.old[i])
        /\ c2.ret \in 0..Len(o2) /\ TreeIn(o2, c2.ret) /\ c2.base \in 0..Len(o2)
        /\ c2.trees \subseteq 1..Len(o2) /\ c2.blobs \subseteq 1..Len(o2)
    BY ONLY <2>0, <2>1, <1>6
  <2>4. c2.pc \in {"commit", "store"}
    BY <1>6
  <2> QED BY ONLY <2>2, <2>3, <2>4 DEF CmdShape, Committed
<1>8. Top(c2) = c.lvl - 1 /\ Top(c) = c.lvl /\ Doomed(c2) = Doomed(c)
  <2>1. Top(c) = c.lvl /\ c.pc = "store"
    BY DEF Top
  <2>2. Top(c2) = c.lvl - 1
    BY <1>3, <1>6 DEF Top
  <2>3. Doomed(c2) = Doomed(c)
    BY <1>6 DEF Doomed
  <2> QED BY <2>1, <2>2, <2>3
<1>9. \A i : \A x : Beside(o2, r2, c2, i, x) <=> Beside(o2, r2, c, i, x)
  BY <1>6 DEF Beside
<1>10. \A x : Beside(o2, r2, c, c.lvl, x) <=> Beside(o, r, c, c.lvl, x)
  <2>1. c.old[c.lvl] \in 1..Len(o)
    BY <1>3 DEF CmdShape, TreeIn
  <2> QED BY <1>0, <2>1, UnderGrows DEF Beside
<1>11. \A x : Returned(r2, c, x) <=> Returned(r, c, x)
  BY <1>0, <1>2 DEF Returned, CmdShape, Grows
<1>12. \A x : Returned(r2, c2, x) <=>
              x = h \/ Beside(o2, r2, c, c.lvl, x) \/ Returned(r2, c, x)
  <2>1. \A x : Returned(r2, c2, x) <=> x = h \/ x \in BelowDir(r, LevelDir(o, c))
    BY <1>2, <1>6 DEF Returned
  <2> QED BY <2>1, <1>10, <1>11, LevelDirFacts
<1>13. Doomed(c) \subseteq 0..Len(o)
  BY DEF Doomed, CmdShape, TreeIn
<1>14. h \notin Doomed(c)
  BY <1>2, <1>13
<1>15. \A i \in 1..Len(c.old) : \A x : Beside(o2, r2, c, i, x) => x \in 1..Len(o2) /\ x # h
  <2> SUFFICES ASSUME NEW i \in 1..Len(c.old), NEW x, Beside(o2, r2, c, i, x)
               PROVE  x \in 1..Len(o2) /\ x # h
    OBVIOUS
  <2>1. c.old[i] \in 1..Len(o2)
    BY <1>1 DEF CmdShape, TreeIn
  <2>2. x \in 1..(c.old[i] - 1)
    BY <1>0, <1>1, <2>1, BesideBelow
  <2> QED BY <1>2, <2>1, <2>2
<1>16. \A i \in 1..Top(c2) : i \in 1..Top(c) /\ i \in 1..Len(c.old) /\ i # c.lvl
  BY <1>3, <1>8
<1>17. c.lvl \in 1..Top(c)
  BY <1>3, <1>8
<1>18. /\ \A i, j \in 1..Top(c) : \A x \in 1..Len(o2) :
            Beside(o2, r2, c, i, x) /\ Beside(o2, r2, c, j, x) => i = j
       /\ \A i \in 1..Top(c) : \A x \in 1..Len(o2) :
            Beside(o2, r2, c, i, x) => ~Returned(r2, c, x) /\ x \notin Doomed(c)
       /\ \A x \in Doomed(c) : ~Returned(r2, c, x)
  BY <1>1 DEF Apart, Building
<1> HIDE DEF h
<1>19. /\ \A i, j \in 1..Top(c2) : \A x \in 1..Len(o2) :
            Beside(o2, r2, c2, i, x) /\ Beside(o2, r2, c2, j, x) => i = j
       /\ \A i \in 1..Top(c2) : \A x \in 1..Len(o2) :
            Beside(o2, r2, c2, i, x) => ~Returned(r2, c2, x) /\ x \notin Doomed(c2)
  BY <1>8, <1>9, <1>12, <1>15, <1>16, <1>17, <1>18
<1>20. \A x \in Doomed(c2) : ~Returned(r2, c2, x)
  <2> SUFFICES ASSUME NEW x \in Doomed(c), Returned(r2, c2, x) PROVE FALSE
    BY <1>8
  <2>1. Beside(o2, r2, c, c.lvl, x)
    BY <1>12, <1>14, <1>18
  <2> QED BY <2>1, <1>3, <1>15, <1>17, <1>18
<1>21. Apart(o2, r2, c2)
  BY <1>6, <1>19, <1>20 DEF Apart, Committed
<1> QED BY <1>5, <1>7, <1>21

WithCommit(c, h) == [c EXCEPT !.newc = h, !.pc = "localhead"]

(* Storing the commit: nothing it reaches is doomed. *)
LEMMA StoreCommitCmd ==
  ASSUME NEW o \in Seq(Object), NEW r \in Seq(SUBSET Nat), StoreInv(o, r),
         NEW o2, NEW r2, Extends(o, r, o2, r2),
         NEW c \in Command, CmdShape(o, c), Apart(o, r, c), c.pc = "commit",
         CommitIn(o2, Len(o2)),
         r2[Len(o2)] = {Len(o2)} \cup r[c.ret]
  PROVE  LET c2 == WithCommit(c, Len(o2)) IN
         c2 \in Command /\ CmdShape(o2, c2) /\ Apart(o2, r2, c2)
<1> DEFINE c2 == WithCommit(c, Len(o2))
<1>0. /\ o2 \in Seq(Object) /\ r2 \in Seq(SUBSET Nat)
      /\ Grows(o, o2) /\ Grows(r, r2) /\ ObjectInv(o2, r2, Len(o2))
  BY DEF Extends
<1>1. CmdShape(o2, c)
  BY <1>0, CmdGrows
<1>2. Len(o) \in Nat /\ Len(o2) = Len(o) + 1 /\ Len(o2) \in Nat
  BY <1>0 DEF Grows
<1>3. c2 \in Command
  BY <1>2 DEF WithCommit, Command, Label
<1>4. /\ c2.newc = Len(o2) /\ c2.pc = "localhead" /\ c2.ret = c.ret
      /\ c2.old = c.old /\ c2.path = c.path /\ c2.base = c.base
      /\ c2.trees = c.trees /\ c2.blobs = c.blobs
  BY DEF WithCommit, Command
<1>5. CmdShape(o2, c2)
  BY <1>1, <1>4 DEF CmdShape, Committed
<1>6. Doomed(c) \subseteq 0..Len(o) /\ Doomed(c2) = Doomed(c)
  BY <1>4 DEF Doomed, CmdShape, TreeIn
<1>7. c.ret # 0
  BY <1>2 DEF CmdShape, TreeIn
<1>8. \A x \in Doomed(c) : x \notin r[c.ret]
  BY <1>7 DEF Apart, Building, Returned
<1>9. Doomed(c2) \cap r2[c2.newc] = {}
  BY <1>2, <1>4, <1>6, <1>8
<1>10. Apart(o2, r2, c2)
  BY <1>4, <1>9 DEF Apart, Building
<1> QED BY <1>3, <1>5, <1>10

(* After the commit a command only moves its labels and forgets what it deleted. *)
LEMMA CleanUpCmd ==
  ASSUME NEW o, NEW r, NEW c \in Command, CmdShape(o, c), Apart(o, r, c),
         c.pc \in Committed,
         NEW c2 \in Command, c2.pc \in Committed,
         c2.old = c.old, c2.path = c.path, c2.base = c.base, c2.ret = c.ret,
         c2.newc = c.newc, c2.trees \subseteq c.trees, c2.blobs \subseteq c.blobs,
         c2.pc = "deltrees" => c2.lvl \in 1..Len(c.old)
  PROVE  CmdShape(o, c2) /\ Apart(o, r, c2)
<1>1. CmdShape(o, c2)
  BY DEF CmdShape, Committed
<1>2. Doomed(c2) \subseteq Doomed(c)
  BY DEF Doomed
<1>3. Apart(o, r, c2)
  BY <1>2 DEF Apart, Committed, Building
<1> QED BY <1>1, <1>3
----------------------------------------------------------------------------
(* The invariant holds of every behaviour *)

LEMMA InitIInv == Init => IInv
<1> SUFFICES ASSUME Init PROVE IInv
  OBVIOUS
<1>1. EmptyDir \in [Name -> Nat] /\ \A n \in Name : EmptyDir[n] = 0
  BY DEF EmptyDir
<1>2. /\ Tree(EmptyDir) \in Object /\ Tree(EmptyDir).kind = "tree"
      /\ Tree(EmptyDir).dir = EmptyDir
      /\ Commit(1) \in Object /\ Commit(1).kind = "commit"
      /\ Commit(1).root = 1 /\ Commit(1).dir = EmptyDir
  BY <1>1 DEF Tree, Commit, Object
<1>3. /\ obj \in Seq(Object) /\ Len(obj) = 2
      /\ obj[1] = Tree(EmptyDir) /\ obj[2] = Commit(1)
  BY <1>2 DEF Init
<1>4. /\ reach \in Seq(SUBSET Nat) /\ Len(reach) = 2
      /\ reach[1] = {1} /\ reach[2] = {1, 2}
  BY DEF Init
<1>5. ObjectInv(obj, reach, 1)
  BY <1>1, <1>2, <1>3, <1>4 DEF ObjectInv, Under
<1>6. ObjectInv(obj, reach, 2)
  BY <1>1, <1>2, <1>3, <1>4 DEF ObjectInv, Under, TreeIn
<1>7. StoreInv(obj, reach)
  BY <1>3, <1>4, <1>5, <1>6 DEF StoreInv
<1>8. /\ IdleCmd \in Command
      /\ CmdShape(obj, IdleCmd) /\ Apart(obj, reach, IdleCmd)
  BY <1>3, ResetCmd DEF IdleCmd
<1>9. 2 \in Commits /\ Hash = {1, 2}
  BY <1>2, <1>3 DEF Commits, Hash
<1>10. TypeOK
  BY <1>3, <1>4, <1>8, <1>9, ConstantsAssumption DEF Init, TypeOK
<1>11. \A d \in Device : cmd[d] = IdleCmd
  BY DEF Init
<1> QED BY <1>7, <1>8, <1>10, <1>11 DEF IInv

(* Steps that encrypt nothing and move one command. *)
LEMMA CommandMoves ==
  ASSUME IInv, UNCHANGED <<obj, reach>>,
         NEW d \in Device, NEW c2 \in Command, cmd' = [cmd EXCEPT ![d] = c2],
         CmdShape(obj, c2), Apart(obj, reach, c2),
         remote' \subseteq Hash, cloudHead' \in Commits, owner' \in Device,
         localHead' \in [Device -> Commits \cup {NoHead, TornHead}],
         queue' \in [Device -> SUBSET Hash], unsent' \subseteq Hash,
         clean' \in BOOLEAN, leaked' \subseteq Hash,
         cmds' \in 0..MaxCmds, faults' \in 0..MaxFaults
  PROVE  IInv'
<1>1. cmd \in [Device -> Command] /\ obj \in Seq(Object) /\ reach \in Seq(SUBSET Nat)
      /\ Len(reach) = Len(obj)
  BY DEF IInv, TypeOK
<1>2. \A e \in Device : cmd'[e] = IF e = d THEN c2 ELSE cmd[e]
  BY <1>1
<1>3. Hash' = Hash /\ Commits' = Commits
  BY DEF Hash, Commits
<1>4. cmd' \in [Device -> Command]
  BY <1>1
<1>5. TypeOK'
  BY <1>1, <1>3, <1>4 DEF TypeOK
<1> QED BY <1>2, <1>5 DEF IInv

(* Steps that encrypt a new object and move one command. *)
LEMMA CommandStores ==
  ASSUME IInv, Extends(obj, reach, obj', reach'),
         NEW d \in Device, NEW c2 \in Command, cmd' = [cmd EXCEPT ![d] = c2],
         CmdShape(obj', c2), Apart(obj', reach', c2),
         remote' \subseteq Hash \cup {NextHash}, UNCHANGED headVars,
         queue' \in [Device -> SUBSET (Hash \cup {NextHash})],
         unsent' \subseteq Hash \cup {NextHash},
         clean' \in BOOLEAN, UNCHANGED leaked,
         UNCHANGED cmds, faults' \in 0..MaxFaults
  PROVE  IInv'
<1>1. /\ cmd \in [Device -> Command] /\ obj \in Seq(Object)
      /\ reach \in Seq(SUBSET Nat) /\ StoreInv(obj, reach)
  BY DEF IInv, TypeOK
<1>2. StoreInv(obj', reach') /\ Len(reach') = Len(obj')
  BY <1>1, StoreGrows DEF Extends, StoreInv
<1>3. \A e \in Device : cmd'[e] = IF e = d THEN c2 ELSE cmd[e]
  BY <1>1
<1>4. \A e \in Device : CmdShape(obj', cmd[e]) /\ Apart(obj', reach', cmd[e])
  BY <1>1, CmdGrows DEF IInv, Extends
<1>5. \A e \in Device : CmdShape(obj', cmd'[e]) /\ Apart(obj', reach', cmd'[e])
  BY <1>3, <1>4
<1>6. Hash \subseteq Hash' /\ Commits \subseteq Commits' /\ NextHash \in Hash'
  <2>1. /\ Len(obj) \in Nat /\ Len(obj') = Len(obj) + 1
        /\ \A h \in 1..Len(obj) : obj'[h] = obj[h]
    BY <1>1 DEF Extends, Grows
  <2> QED BY <2>1 DEF Hash, Commits, NextHash
<1>7. remote' \subseteq Hash' /\ unsent' \subseteq Hash' /\ leaked' \subseteq Hash'
  BY <1>6 DEF IInv, TypeOK
<1>8. queue' \in [Device -> SUBSET Hash']
  BY <1>6
<1>9. /\ cloudHead' \in Commits' /\ owner' \in Device
      /\ localHead' \in [Device -> Commits' \cup {NoHead, TornHead}]
  BY <1>6 DEF IInv, TypeOK, headVars
<1>10. cmd' \in [Device -> Command]
  BY <1>1
<1>11. cmds' \in 0..MaxCmds
  BY DEF IInv, TypeOK
<1>12. TypeOK'
  BY <1>2, <1>7, <1>8, <1>9, <1>10, <1>11 DEF TypeOK, Extends
<1> QED BY <1>2, <1>5, <1>12 DEF IInv

(* A command that ends, whatever else the step does to the heads and the cloud. *)
LEMMA CommandEndsStep ==
  ASSUME IInv, UNCHANGED <<obj, reach>>, NEW d \in Device,
         NEW l \in {"idle", "exit"},
         NEW out \in {"none", "ok", "error", "nohead", "aborted"},
         cmd' = [cmd EXCEPT ![d] = FreshCmd(l, "none", <<>>, out)],
         remote' \subseteq Hash, cloudHead' \in Commits, owner' \in Device,
         localHead' \in [Device -> Commits \cup {NoHead, TornHead}],
         queue' \in [Device -> SUBSET Hash], unsent' \subseteq Hash,
         clean' \in BOOLEAN, leaked' \subseteq Hash,
         cmds' \in 0..MaxCmds, faults' \in 0..MaxFaults
  PROVE  IInv'
<1>1. obj \in Seq(Object)
  BY DEF IInv, TypeOK
<1>2. LET c == FreshCmd(l, "none", <<>>, out) IN
      c \in Command /\ CmdShape(obj, c) /\ Apart(obj, reach, c)
  BY <1>1, ResetCmd
<1> QED BY <1>2, CommandMoves

(* Counters of a step that may use up a fault. *)
LEMMA FaultCount ==
  ASSUME TypeOK, Fault \/ UNCHANGED faults
  PROVE  faults' \in 0..MaxFaults
  BY ConstantsAssumption DEF TypeOK, Fault

LEMMA MayStartCount ==
  ASSUME TypeOK, NEW d \in Device, MayStart(d), cmds' = cmds + 1
  PROVE  cmds' \in 0..MaxCmds
  BY ConstantsAssumption DEF TypeOK, MayStart

(* An exception that reaches main, with nothing else or with one call's effect. *)
LEMMA ThrowStep ==
  ASSUME IInv, UNCHANGED <<obj, reach>>, NEW d \in Device, Throw(d),
         remote' \subseteq Hash, cloudHead' \in Commits, owner' \in Device,
         localHead' \in [Device -> Commits \cup {NoHead, TornHead}],
         UNCHANGED poolVars, UNCHANGED leaked, UNCHANGED cmds,
         Fault \/ UNCHANGED faults
  PROVE  IInv'
<1>1. TypeOK
  BY DEF IInv
<1>2. clean' \in BOOLEAN
  BY DEF Throw
<1>3. faults' \in 0..MaxFaults
  BY <1>1, FaultCount
<1>4. /\ queue' \in [Device -> SUBSET Hash] /\ unsent' \subseteq Hash
      /\ leaked' \subseteq Hash /\ cmds' \in 0..MaxCmds
  BY <1>1 DEF TypeOK, poolVars
<1>5. cmd' = [cmd EXCEPT ![d] = FreshCmd("exit", "none", <<>>, "error")]
  BY DEF Throw, Finish
<1> QED BY <1>2, <1>3, <1>4, <1>5, CommandEndsStep

(* The same when the step changes nothing else at all. *)
LEMMA ThrowOnly ==
  ASSUME IInv, NEW d \in Device, Throw(d),
         UNCHANGED <<storeVars, headVars, poolVars, leaked, cmds>>,
         Fault \/ UNCHANGED faults
  PROVE  IInv'
  BY ThrowStep DEF IInv, TypeOK, storeVars, headVars
(* Steps of one command that change nothing else. *)
LEMMA OnlyCommand ==
  ASSUME IInv, UNCHANGED <<storeVars, headVars, poolVars, ghostVars, countVars>>,
         NEW d \in Device, NEW c2 \in Command, cmd' = [cmd EXCEPT ![d] = c2],
         CmdShape(obj, c2), Apart(obj, reach, c2)
  PROVE  IInv'
<1>1. TypeOK
  BY DEF IInv
<1>2. /\ UNCHANGED <<obj, reach>>
      /\ remote' \subseteq Hash /\ cloudHead' \in Commits /\ owner' \in Device
      /\ localHead' \in [Device -> Commits \cup {NoHead, TornHead}]
      /\ queue' \in [Device -> SUBSET Hash] /\ unsent' \subseteq Hash
      /\ clean' \in BOOLEAN /\ leaked' \subseteq Hash
      /\ cmds' \in 0..MaxCmds /\ faults' \in 0..MaxFaults
  BY <1>1 DEF TypeOK, storeVars, headVars, poolVars, ghostVars, countVars
<1> QED BY <1>2, CommandMoves

(* What the invariant says of one command and of the store. *)
LEMMA Facts ==
  ASSUME IInv, NEW d \in Device
  PROVE  /\ TypeOK /\ StoreInv(obj, reach)
         /\ obj \in Seq(Object) /\ reach \in Seq(SUBSET Nat)
         /\ cmd \in [Device -> Command] /\ cmd[d] \in Command
         /\ CmdShape(obj, cmd[d]) /\ Apart(obj, reach, cmd[d])
  BY DEF IInv, TypeOK

LEMMA StartStep ==
  ASSUME IInv, NEW d \in Device, Start(d)
  PROVE  IInv'
<1>0. /\ TypeOK /\ obj \in Seq(Object) /\ cmd \in [Device -> Command]
  BY Facts
<1>1. CASE Begin(d)
  <2>1. PICK q \in Op, p \in Path : cmd' = [cmd EXCEPT ![d] = FreshCmd("head", q, p, "none")]
    BY <1>1 DEF Begin
  <2>2. LET c == FreshCmd("head", q, p, "none") IN
        c \in Command /\ CmdShape(obj, c) /\ Apart(obj, reach, c)
    BY <1>0, BeginCmd
  <2>3. cmds' \in 0..MaxCmds
    BY <1>0, <1>1, MayStartCount DEF Begin
  <2>4. /\ UNCHANGED <<obj, reach>>
        /\ remote' \subseteq Hash /\ cloudHead' \in Commits /\ owner' \in Device
        /\ localHead' \in [Device -> Commits \cup {NoHead, TornHead}]
        /\ queue' \in [Device -> SUBSET Hash] /\ unsent' \subseteq Hash
        /\ clean' \in BOOLEAN /\ leaked' \subseteq Hash /\ faults' \in 0..MaxFaults
    BY <1>0, <1>1 DEF Begin, TypeOK, storeVars, headVars, poolVars, ghostVars
  <2> QED BY <2>1, <2>2, <2>3, <2>4, CommandMoves
<1>2. CASE Sync(d)
  <2>1. cmds' \in 0..MaxCmds
    BY <1>0, <1>2, MayStartCount DEF Sync
  <2>2. localHead' \in [Device -> Commits \cup {NoHead, TornHead}]
    BY <1>0, <1>2 DEF Sync, TypeOK
  <2>3. Hash' = Hash /\ Commits' = Commits
    BY <1>2 DEF Sync, storeVars, Hash, Commits
  <2>4. TypeOK'
    BY <1>0, <1>2, <2>1, <2>2, <2>3 DEF Sync, TypeOK, storeVars, poolVars, ghostVars
  <2> QED BY <1>2, <2>4 DEF Sync, IInv, storeVars
<1>3. CASE InitExisting(d)
  <2>1. cmds' \in 0..MaxCmds
    BY <1>0, <1>3, MayStartCount DEF InitExisting
  <2>2. localHead' \in [Device -> Commits \cup {NoHead, TornHead}]
    BY <1>0, <1>3 DEF InitExisting, TypeOK
  <2>3. Hash' = Hash /\ Commits' = Commits
    BY <1>3 DEF InitExisting, storeVars, Hash, Commits
  <2>4. TypeOK'
    BY <1>0, <1>3, <2>1, <2>2, <2>3 DEF InitExisting, TypeOK, storeVars, poolVars, ghostVars
  <2> QED BY <1>3, <2>4 DEF InitExisting, IInv, storeVars
<1> QED BY <1>1, <1>2, <1>3 DEF Start

(* The local HEAD a command starts from names a commit when it is in the cloud. *)
LEMMA HeadIsCommit ==
  ASSUME TypeOK, NEW d \in Device, localHead[d] \in remote
  PROVE  CommitIn(obj, localHead[d])
<1>1. localHead[d] \in Hash /\ localHead[d] \in Commits \cup {NoHead, TornHead}
  BY DEF TypeOK
<1>2. localHead[d] \in Nat
  BY <1>1 DEF Hash, TypeOK
<1>3. localHead[d] \in Commits
  BY <1>1, <1>2, ConstantsAssumption
<1> QED BY <1>3 DEF Commits, Hash, CommitIn

(* mkdir's new directory and a missing parent: an empty tree joins the store. *)
LEMMA EmptyTreeStored ==
  ASSUME IInv, EncryptTree(EmptyDir)
  PROVE  /\ Extends(obj, reach, obj', reach')
         /\ TreeIn(obj', Len(obj')) /\ reach'[Len(obj')] = {Len(obj')}
         /\ Len(obj') = NextHash
<1>1. obj \in Seq(Object) /\ reach \in Seq(SUBSET Nat) /\ StoreInv(obj, reach)
  BY DEF IInv, TypeOK
<1>2. /\ EmptyDir \in [Name -> Nat] /\ \A n \in Name : EmptyDir[n] = 0
      /\ ReachOfDir(EmptyDir) = {} /\ BelowDir(reach, EmptyDir) = {}
  BY DEF EmptyDir, ReachOfDir, BelowDir
<1>3. TreeAdded(obj, reach, obj', reach', EmptyDir)
  BY <1>2 DEF EncryptTree, Encrypt, NextHash, TreeAdded
<1>4. DisjointDir(obj, reach, EmptyDir)
  BY <1>1, <1>2 DEF DisjointDir
<1>5. /\ Extends(obj, reach, obj', reach')
      /\ TreeIn(obj', Len(obj'))
      /\ reach'[Len(obj')] = {Len(obj')} \cup BelowDir(reach, EmptyDir)
  BY <1>1, <1>3, <1>4, NewTree
<1>6. Len(obj') = NextHash
  BY <1>5 DEF Extends, Grows, NextHash
<1> QED BY <1>2, <1>5, <1>6

(* A put of the new object that changes only the store and one command. *)
LEMMA StoreMoves ==
  ASSUME IInv, Extends(obj, reach, obj', reach'), Put,
         UNCHANGED <<headVars, poolVars, leaked, cmds>>, clean' \in BOOLEAN,
         Fault \/ UNCHANGED faults,
         NEW d \in Device, NEW c2 \in Command, cmd' = [cmd EXCEPT ![d] = c2],
         CmdShape(obj', c2), Apart(obj', reach', c2)
  PROVE  IInv'
<1>1. TypeOK
  BY DEF IInv
<1>2. faults' \in 0..MaxFaults
  BY <1>1, FaultCount
<1>3. /\ remote' \subseteq Hash \cup {NextHash}
      /\ queue' \in [Device -> SUBSET (Hash \cup {NextHash})]
      /\ unsent' \subseteq Hash \cup {NextHash}
  BY <1>1 DEF TypeOK, Put, poolVars
<1> QED BY <1>2, <1>3, CommandStores

LEMMA PrepareStep ==
  ASSUME IInv, NEW d \in Device, Prepare(d)
  PROVE  IInv'
<1>0. /\ TypeOK /\ StoreInv(obj, reach)
      /\ obj \in Seq(Object) /\ reach \in Seq(SUBSET Nat)
      /\ cmd \in [Device -> Command] /\ cmd[d] \in Command
      /\ CmdShape(obj, cmd[d]) /\ Apart(obj, reach, cmd[d])
  BY Facts
<1>1. CASE ReadHead(d)
  <2>1. PICK l \in {"blob", "leaf", "walk"} :
          cmd' = [cmd EXCEPT ![d] = [cmd[d] EXCEPT !.base = localHead[d],
                                        !.cur = obj[localHead[d]].root, !.pc = l]]
    BY <1>0, <1>1 DEF ReadHead
  <2>2. CommitIn(obj, localHead[d]) /\ cmd[d].pc = "head"
    BY <1>0, <1>1, HeadIsCommit DEF ReadHead, At
  <2>3. LET c2 == [cmd[d] EXCEPT !.base = localHead[d],
                                 !.cur = obj[localHead[d]].root, !.pc = l]
        IN c2 \in Command /\ CmdShape(obj, c2) /\ Apart(obj, reach, c2)
    BY <1>0, <2>2, ReadHeadCmd
  <2>4. UNCHANGED <<storeVars, headVars, poolVars, ghostVars, countVars>>
    BY <1>1 DEF ReadHead
  <2> QED BY <2>1, <2>3, <2>4, OnlyCommand
<1>2. CASE ReadHeadMissing(d)
  <2>1. LET c2 == FreshCmd("exit", "none", <<>>, "nohead") IN
        c2 \in Command /\ CmdShape(obj, c2) /\ Apart(obj, reach, c2)
    BY <1>0, ResetCmd
  <2>2. cmd' = [cmd EXCEPT ![d] = FreshCmd("exit", "none", <<>>, "nohead")]
    BY <1>2 DEF ReadHeadMissing, Finish
  <2>3. UNCHANGED <<storeVars, headVars, poolVars, ghostVars, countVars>>
    BY <1>2 DEF ReadHeadMissing
  <2> QED BY <2>1, <2>2, <2>3, OnlyCommand
<1>3. CASE ReadHeadInvalid(d)
  BY <1>3, ThrowOnly DEF ReadHeadInvalid, countVars
<1>4. CASE StoreBlob(d)
  <2>1. Extends(obj, reach, obj', reach') /\ reach'[Len(obj')] = {Len(obj')}
    BY <1>0, <1>4, NewBlob DEF StoreBlob, Encrypt, NextHash
  <2>2. Len(obj') = NextHash
    BY <2>1 DEF Extends, Grows, NextHash
  <2>3. cmd' = [cmd EXCEPT ![d] = WithLeaf(cmd[d], Len(obj'))]
    BY <1>0, <1>4, <2>2 DEF StoreBlob, WithLeaf
  <2>4. LET c2 == WithLeaf(cmd[d], Len(obj'))
        IN c2 \in Command /\ CmdShape(obj', c2) /\ Apart(obj', reach', c2)
    <3>1. cmd[d].pc \in {"blob", "leaf"}
      BY <1>4 DEF StoreBlob, At
    <3> QED BY <1>0, <2>1, <3>1, StoreLeafCmd
  <2>5. /\ remote' \subseteq Hash \cup {NextHash}
        /\ queue' \in [Device -> SUBSET (Hash \cup {NextHash})]
        /\ unsent' \subseteq Hash \cup {NextHash}
        /\ clean' \in BOOLEAN /\ faults' \in 0..MaxFaults
    BY <1>0, <1>4 DEF StoreBlob, TypeOK, ghostVars, countVars
  <2>6. UNCHANGED headVars /\ UNCHANGED leaked /\ UNCHANGED cmds
    BY <1>4 DEF StoreBlob, ghostVars, countVars
  <2> QED BY <2>1, <2>3, <2>4, <2>5, <2>6, CommandStores
<1>5. CASE StoreLeaf(d)
  <2>1. /\ Extends(obj, reach, obj', reach')
        /\ reach'[Len(obj')] = {Len(obj')} /\ Len(obj') = NextHash
    BY <1>5, EmptyTreeStored DEF StoreLeaf
  <2>3. cmd[d].pc \in {"blob", "leaf"}
    BY <1>5 DEF StoreLeaf, At
  <2>4. LET c2 == WithLeaf(cmd[d], Len(obj'))
        IN c2 \in Command /\ CmdShape(obj', c2) /\ Apart(obj', reach', c2)
    BY <1>0, <2>1, <2>3, StoreLeafCmd
  <2>5. cmd' = [cmd EXCEPT ![d] = WithLeaf(cmd[d], Len(obj'))]
    BY <1>0, <1>5, <2>1 DEF StoreLeaf, WithLeaf
  <2>6. /\ Put /\ UNCHANGED <<headVars, poolVars, leaked, cmds>> /\ clean' \in BOOLEAN
        /\ UNCHANGED faults
    BY <1>0, <1>5 DEF StoreLeaf, TypeOK, ghostVars, countVars
  <2> QED BY <2>1, <2>4, <2>5, <2>6, StoreMoves
<1> QED BY <1>1, <1>2, <1>3, <1>4, <1>5 DEF Prepare
LEMMA WalkStep ==
  ASSUME IInv, NEW d \in Device, Walk(d)
  PROVE  IInv'
<1>0. /\ TypeOK /\ StoreInv(obj, reach)
      /\ obj \in Seq(Object) /\ reach \in Seq(SUBSET Nat)
      /\ cmd \in [Device -> Command] /\ cmd[d] \in Command
      /\ CmdShape(obj, cmd[d]) /\ Apart(obj, reach, cmd[d])
  BY Facts
<1> DEFINE c == cmd[d]
<1>e. Entry(c) = obj[c.cur].dir[c.path[Level(c)]]
  BY DEF Entry
<1>l. ASSUME Loaded(d) PROVE c.pc = "walk"
  BY <1>l DEF Loaded, At
<1>r. ASSUME Loaded(d), Entry(c) # 0
      PROVE  /\ Entry(c) \in 1..Len(obj)
             /\ \A x \in reach[Entry(c)] : Under(obj, reach, c.cur, c.path[Level(c)], x)
  BY <1>0, <1>e, <1>l, <1>r, EntryKnown
<1>1. CASE LoadTreeMissing(d)
  BY <1>1, ThrowOnly DEF LoadTreeMissing, countVars
<1>2. CASE Descend(d)
  <2>1. /\ c.pc = "walk" /\ Level(c) # Len(c.path) /\ TreeIn(obj, Entry(c))
        /\ \A x \in reach[Entry(c)] : Under(obj, reach, c.cur, c.path[Level(c)], x)
    BY <1>2, <1>l, <1>r DEF Descend, LastLevel, IsTree, TreeIn
  <2>2. LET c2 == [c EXCEPT !.old = Append(@, c.cur), !.cur = Entry(c)]
        IN c2 \in Command /\ CmdShape(obj, c2) /\ Apart(obj, reach, c2)
    BY <1>0, <2>1, DescendCmd
  <2>3. cmd' = [cmd EXCEPT ![d] = [c EXCEPT !.old = Append(@, c.cur), !.cur = Entry(c)]]
    BY <1>0, <1>2 DEF Descend
  <2> QED BY <1>2, <2>2, <2>3, OnlyCommand DEF Descend
<1>3. CASE MissingParent(d)
  <2>1. c.pc = "walk" /\ Level(c) # Len(c.path)
    BY <1>3, <1>l DEF MissingParent, LastLevel
  <2>2. LET c2 == [c EXCEPT !.old = Append(@, c.cur), !.pc = "parent"]
        IN c2 \in Command /\ CmdShape(obj, c2) /\ Apart(obj, reach, c2)
    BY <1>0, <2>1, MissingParentCmd
  <2>3. cmd' = [cmd EXCEPT ![d] = [c EXCEPT !.old = Append(@, c.cur), !.pc = "parent"]]
    BY <1>0, <1>3 DEF MissingParent
  <2> QED BY <1>3, <2>2, <2>3, OnlyCommand DEF MissingParent
<1>4. CASE StoreParent(d)
  <2>1. /\ Extends(obj, reach, obj', reach') /\ TreeIn(obj', Len(obj'))
        /\ reach'[Len(obj')] = {Len(obj')} /\ Len(obj') = NextHash
    BY <1>4, EmptyTreeStored DEF StoreParent
  <2>3. c.pc = "parent"
    BY <1>4 DEF StoreParent, At
  <2>4. LET c2 == WithParent(c, Len(obj'))
        IN c2 \in Command /\ CmdShape(obj', c2) /\ Apart(obj', reach', c2)
    BY <1>0, <2>1, <2>3, StoreParentCmd
  <2>5. cmd' = [cmd EXCEPT ![d] = WithParent(c, Len(obj'))]
    BY <1>0, <1>4, <2>1 DEF StoreParent, WithParent
  <2>6. /\ Put /\ UNCHANGED <<headVars, poolVars, leaked, cmds>> /\ clean' \in BOOLEAN
        /\ UNCHANGED faults
    BY <1>0, <1>4 DEF StoreParent, TypeOK, ghostVars, countVars
  <2> QED BY <2>1, <2>4, <2>5, <2>6, StoreMoves
<1>5. CASE LeafUpsert(d)
  <2> DEFINE c2 == Edited(c, c.ret, {}, {})
  <2>1. c.pc = "walk" /\ Level(c) = Len(c.path)
    BY <1>5, <1>l DEF LeafUpsert, LastLevel
  <2>2. c2 \in Command /\ CmdShape(obj, c2) /\ Apart(obj, reach, c2)
    BY <1>0, <2>1, LeafCmd
  <2>3. cmd' = [cmd EXCEPT ![d] = c2]
    BY <1>0, <1>5 DEF LeafUpsert
  <2>4. leaked' \subseteq Hash
    BY <1>0, <1>5, <1>r DEF LeafUpsert, TypeOK, Hash
  <2>5. /\ UNCHANGED <<obj, reach>>
        /\ remote' \subseteq Hash /\ cloudHead' \in Commits /\ owner' \in Device
        /\ localHead' \in [Device -> Commits \cup {NoHead, TornHead}]
        /\ queue' \in [Device -> SUBSET Hash] /\ unsent' \subseteq Hash
        /\ clean' \in BOOLEAN /\ cmds' \in 0..MaxCmds /\ faults' \in 0..MaxFaults
    BY <1>0, <1>5 DEF LeafUpsert, TypeOK, storeVars, headVars, poolVars, countVars
  <2> HIDE DEF c2
  <2> QED BY <2>2, <2>3, <2>4, <2>5, CommandMoves
<1>6. CASE LeafRemove(d)
  <2> DEFINE c2 == Edited(c, 0, {}, {Entry(c)})
  <2>1. c.pc = "walk" /\ Level(c) = Len(c.path) /\ Entry(c) # 0
    BY <1>6, <1>l DEF LeafRemove, LastLevel, IsBlob
  <2>2. Under(obj, reach, c.cur, c.path[Level(c)], Entry(c))
    BY <1>0, <1>6, <1>r, <2>1, ReachBelow DEF LeafRemove
  <2>3. c2 \in Command /\ CmdShape(obj, c2) /\ Apart(obj, reach, c2)
    BY <1>0, <2>1, <2>2, LeafCmd
  <2>4. cmd' = [cmd EXCEPT ![d] = c2]
    BY <1>0, <1>6 DEF LeafRemove
  <2> HIDE DEF c2
  <2> QED BY <1>6, <2>3, <2>4, OnlyCommand DEF LeafRemove
<1>7. CASE LeafRmdir(d)
  <2> DEFINE gone == reach[Entry(c)]
             c2 == Edited(c, 0, TreesIn(gone), BlobsIn(gone))
  <2>1. c.pc = "walk" /\ Level(c) = Len(c.path) /\ Entry(c) # 0 /\ Loaded(d)
    BY <1>7, <1>l DEF LeafRmdir, RmdirTarget, LastLevel, IsTree
  <2>2. \A x \in TreesIn(gone) \cup BlobsIn(gone) :
          Under(obj, reach, c.cur, c.path[Level(c)], x)
    BY <1>r, <2>1 DEF TreesIn, BlobsIn
  <2>3. c2 \in Command /\ CmdShape(obj, c2) /\ Apart(obj, reach, c2)
    BY <1>0, <2>1, <2>2, LeafCmd
  <2>4. cmd' = [cmd EXCEPT ![d] = c2]
    BY <1>0, <1>7 DEF LeafRmdir
  <2> HIDE DEF c2
  <2> QED BY <1>7, <2>3, <2>4, OnlyCommand DEF LeafRmdir
<1>8. CASE AskConfirm(d)
  <2> DEFINE c2 == [c EXCEPT !.pc = "confirm"]
  <2>1. c.pc = "walk"
    BY <1>8, <1>l DEF AskConfirm, RmdirTarget
  <2>2. c2 \in Command
    BY <1>0 DEF Command, Label
  <2>3. /\ c2.pc = "confirm" /\ c2.path = c.path /\ c2.old = c.old /\ c2.ret = c.ret
        /\ c2.base = c.base /\ c2.trees = c.trees /\ c2.blobs = c.blobs
    BY <1>0 DEF Command
  <2>4. CmdShape(obj, c2)
    BY <1>0, <2>1, <2>3 DEF CmdShape, Committed
  <2>5. Apart(obj, reach, c2)
    BY <2>3 DEF Apart, Building, Committed
  <2>6. cmd' = [cmd EXCEPT ![d] = c2]
    BY <1>0, <1>8 DEF AskConfirm
  <2> HIDE DEF c2
  <2> QED BY <1>8, <2>2, <2>4, <2>5, <2>6, OnlyCommand DEF AskConfirm
<1>9. CASE RejectEntry(d)
  BY <1>9, ThrowOnly DEF RejectEntry, countVars
<1> QED BY <1>1, <1>2, <1>3, <1>4, <1>5, <1>6, <1>7, <1>8, <1>9 DEF Walk
(* The new tree of a level joins the store. *)
LEMMA LevelTreeStored ==
  ASSUME IInv, NEW d \in Device, At(d, "store"), EncryptTree(NewDir(cmd[d]))
  PROVE  /\ Extends(obj, reach, obj', reach')
         /\ TreeIn(obj', Len(obj'))
         /\ reach'[Len(obj')] = {Len(obj')} \cup BelowDir(reach, LevelDir(obj, cmd[d]))
         /\ Len(obj') = NextHash
<1>1. /\ obj \in Seq(Object) /\ reach \in Seq(SUBSET Nat) /\ StoreInv(obj, reach)
      /\ cmd[d] \in Command /\ CmdShape(obj, cmd[d]) /\ Apart(obj, reach, cmd[d])
      /\ cmd[d].pc = "store"
  BY Facts DEF At
<1>2. NewDir(cmd[d]) = LevelDir(obj, cmd[d])
  BY DEF NewDir, LevelDir
<1>3. TreeAdded(obj, reach, obj', reach', LevelDir(obj, cmd[d]))
  BY <1>2 DEF EncryptTree, Encrypt, NextHash, TreeAdded, ReachOfDir, BelowDir
<1>4. DisjointDir(obj, reach, LevelDir(obj, cmd[d]))
  BY <1>1, LevelDirFacts
<1>5. /\ Extends(obj, reach, obj', reach')
      /\ TreeIn(obj', Len(obj'))
      /\ reach'[Len(obj')] = {Len(obj')} \cup BelowDir(reach, LevelDir(obj, cmd[d]))
  BY <1>1, <1>3, <1>4, NewTree
<1>6. Len(obj') = NextHash
  BY <1>5 DEF Extends, Grows, NextHash
<1> QED BY <1>5, <1>6

(* The new commit joins the store. *)
LEMMA CommitStored ==
  ASSUME IInv, NEW d \in Device, At(d, "commit"), EncryptCommit(cmd[d].ret)
  PROVE  /\ Extends(obj, reach, obj', reach')
         /\ CommitIn(obj', Len(obj'))
         /\ reach'[Len(obj')] = {Len(obj')} \cup reach[cmd[d].ret]
         /\ Len(obj') = NextHash
<1>1. /\ obj \in Seq(Object) /\ reach \in Seq(SUBSET Nat) /\ StoreInv(obj, reach)
      /\ TreeIn(obj, cmd[d].ret)
  BY Facts DEF At, CmdShape
<1>2. CommitAdded(obj, reach, obj', reach', cmd[d].ret)
  BY DEF EncryptCommit, Encrypt, NextHash, CommitAdded
<1>3. /\ Extends(obj, reach, obj', reach')
      /\ CommitIn(obj', Len(obj'))
      /\ reach'[Len(obj')] = {Len(obj')} \cup reach[cmd[d].ret]
  BY <1>1, <1>2, NewCommit
<1>4. Len(obj') = NextHash
  BY <1>3 DEF Extends, Grows, NextHash
<1> QED BY <1>3, <1>4

(* A command past its commit names that commit. *)
LEMMA NewCommitKnown ==
  ASSUME IInv, NEW d \in Device, cmd[d].pc \in Committed
  PROVE  cmd[d].newc \in Commits
<1>1. CommitIn(obj, cmd[d].newc)
  BY Facts DEF CmdShape
<1> QED BY <1>1 DEF CommitIn, Commits, Hash

(* A step past the commit that moves the command's label, or its place in old. *)
LEMMA LabelMoves ==
  ASSUME NEW o, NEW r, NEW c \in Command, CmdShape(o, c), Apart(o, r, c),
         c.pc \in Committed, NEW l \in Committed, NEW k \in Nat,
         l = "deltrees" => k \in 1..Len(c.old)
  PROVE  LET c2 == [c EXCEPT !.lvl = k, !.pc = l] IN
         c2 \in Command /\ CmdShape(o, c2) /\ Apart(o, r, c2)
<1> DEFINE c2 == [c EXCEPT !.lvl = k, !.pc = l]
<1>1. c2 \in Command
  BY DEF Command, Label, Committed
<1>2. /\ c2.pc = l /\ c2.lvl = k /\ c2.old = c.old /\ c2.path = c.path /\ c2.base = c.base
      /\ c2.ret = c.ret /\ c2.newc = c.newc /\ c2.trees = c.trees /\ c2.blobs = c.blobs
  BY DEF Command
<1> HIDE DEF c2
<1>3. c2.trees \subseteq c.trees /\ c2.blobs \subseteq c.blobs
  BY <1>2
<1>4. CmdShape(o, c2) /\ Apart(o, r, c2)
  BY <1>1, <1>2, <1>3, CleanUpCmd
<1> QED BY <1>1, <1>4 DEF c2

LEMMA PublishStep ==
  ASSUME IInv, NEW d \in Device, Publish(d)
  PROVE  IInv'
<1>0. /\ TypeOK /\ StoreInv(obj, reach)
      /\ obj \in Seq(Object) /\ reach \in Seq(SUBSET Nat)
      /\ cmd \in [Device -> Command] /\ cmd[d] \in Command
      /\ CmdShape(obj, cmd[d]) /\ Apart(obj, reach, cmd[d])
  BY Facts
<1> DEFINE c == cmd[d]
<1>1. CASE StoreTree(d)
  <2>1. /\ Extends(obj, reach, obj', reach') /\ TreeIn(obj', Len(obj'))
        /\ reach'[Len(obj')] = {Len(obj')} \cup BelowDir(reach, LevelDir(obj, c))
        /\ Len(obj') = NextHash
    BY <1>1, LevelTreeStored DEF StoreTree
  <2>2. c.pc = "store"
    BY <1>1 DEF StoreTree, At
  <2>3. LET c2 == WithTree(c, Len(obj'))
        IN c2 \in Command /\ CmdShape(obj', c2) /\ Apart(obj', reach', c2)
    BY <1>0, <2>1, <2>2, StoreTreeCmd
  <2>4. cmd' = [cmd EXCEPT ![d] = WithTree(c, Len(obj'))]
    BY <1>0, <1>1, <2>1 DEF StoreTree, WithTree
  <2>5. /\ Put /\ UNCHANGED <<headVars, poolVars, leaked, cmds>> /\ clean' \in BOOLEAN
        /\ UNCHANGED faults
    BY <1>0, <1>1 DEF StoreTree, TypeOK, ghostVars, countVars
  <2> QED BY <2>1, <2>3, <2>4, <2>5, StoreMoves
<1>2. CASE StoreCommit(d)
  <2>1. /\ Extends(obj, reach, obj', reach') /\ CommitIn(obj', Len(obj'))
        /\ reach'[Len(obj')] = {Len(obj')} \cup reach[c.ret]
        /\ Len(obj') = NextHash
    BY <1>2, CommitStored DEF StoreCommit
  <2>2. c.pc = "commit"
    BY <1>2 DEF StoreCommit, At
  <2>3. LET c2 == WithCommit(c, Len(obj'))
        IN c2 \in Command /\ CmdShape(obj', c2) /\ Apart(obj', reach', c2)
    BY <1>0, <2>1, <2>2, StoreCommitCmd
  <2>4. cmd' = [cmd EXCEPT ![d] = WithCommit(c, Len(obj'))]
    BY <1>0, <1>2, <2>1 DEF StoreCommit, WithCommit
  <2>5. /\ Put /\ UNCHANGED <<headVars, poolVars, leaked, cmds>> /\ clean' \in BOOLEAN
        /\ UNCHANGED faults
    BY <1>0, <1>2 DEF StoreCommit, TypeOK, ghostVars, countVars
  <2> QED BY <2>1, <2>3, <2>4, <2>5, StoreMoves
<1>3. CASE WriteLocalHead(d)
  <2> DEFINE c2 == [c EXCEPT !.lvl = c.lvl, !.pc = "cloudhead"]
  <2>1. c.pc \in Committed /\ c.lvl \in Nat /\ c.newc \in Commits
    BY <1>0, <1>3, NewCommitKnown DEF WriteLocalHead, At, Committed, Command
  <2>2. c2 \in Command /\ CmdShape(obj, c2) /\ Apart(obj, reach, c2)
    BY <1>0, <2>1, LabelMoves DEF Committed
  <2>3. cmd' = [cmd EXCEPT ![d] = c2]
    BY <1>0, <1>3 DEF WriteLocalHead, Command
  <2>4. localHead' \in [Device -> Commits \cup {NoHead, TornHead}]
    BY <1>0, <1>3, <2>1 DEF WriteLocalHead, TypeOK
  <2>5. /\ UNCHANGED <<obj, reach>>
        /\ remote' \subseteq Hash /\ cloudHead' \in Commits /\ owner' \in Device
        /\ queue' \in [Device -> SUBSET Hash] /\ unsent' \subseteq Hash
        /\ clean' \in BOOLEAN /\ leaked' \subseteq Hash
        /\ cmds' \in 0..MaxCmds /\ faults' \in 0..MaxFaults
    BY <1>0, <1>3 DEF WriteLocalHead, TypeOK, storeVars, poolVars, ghostVars, countVars
  <2> HIDE DEF c2
  <2> QED BY <2>2, <2>3, <2>4, <2>5, CommandMoves
<1>4. CASE PutCloudHead(d)
  <2> DEFINE c2 == [c EXCEPT !.lvl = c.lvl, !.pc = "delcommit"]
  <2>1. c.pc \in Committed /\ c.lvl \in Nat /\ c.newc \in Commits
    BY <1>0, <1>4, NewCommitKnown DEF PutCloudHead, At, Committed, Command
  <2>2. c2 \in Command /\ CmdShape(obj, c2) /\ Apart(obj, reach, c2)
    BY <1>0, <2>1, LabelMoves DEF Committed
  <2>3. cmd' = [cmd EXCEPT ![d] = c2]
    BY <1>0, <1>4 DEF PutCloudHead, Command
  <2>4. cloudHead' \in Commits
    BY <1>4, <2>1 DEF PutCloudHead
  <2>5. /\ UNCHANGED <<obj, reach>>
        /\ remote' \subseteq Hash /\ owner' \in Device
        /\ localHead' \in [Device -> Commits \cup {NoHead, TornHead}]
        /\ queue' \in [Device -> SUBSET Hash] /\ unsent' \subseteq Hash
        /\ clean' \in BOOLEAN /\ leaked' \subseteq Hash
        /\ cmds' \in 0..MaxCmds /\ faults' \in 0..MaxFaults
    BY <1>0, <1>4 DEF PutCloudHead, TypeOK, storeVars, poolVars, ghostVars, countVars
  <2> HIDE DEF c2
  <2> QED BY <2>2, <2>3, <2>4, <2>5, CommandMoves
<1> QED BY <1>1, <1>2, <1>3, <1>4 DEF Publish
(* A step past the commit that forgets what it has deleted. *)
LEMMA Forgets ==
  ASSUME NEW o, NEW r, NEW c \in Command, CmdShape(o, c), Apart(o, r, c),
         c.pc = "delremoved", NEW T, T \subseteq c.trees, NEW B, B \subseteq c.blobs
  PROVE  LET c2 == [c EXCEPT !.trees = T, !.blobs = B] IN
         c2 \in Command /\ CmdShape(o, c2) /\ Apart(o, r, c2)
<1> DEFINE c2 == [c EXCEPT !.trees = T, !.blobs = B]
<1>1. c2 \in Command
  BY DEF Command
<1>2. /\ c2.pc = "delremoved" /\ c2.old = c.old /\ c2.path = c.path /\ c2.base = c.base
      /\ c2.ret = c.ret /\ c2.newc = c.newc /\ c2.trees = T /\ c2.blobs = B
  BY DEF Command
<1> HIDE DEF c2
<1>3. CmdShape(o, c2) /\ Apart(o, r, c2)
  BY <1>1, <1>2, CleanUpCmd DEF Committed
<1> QED BY <1>1, <1>3 DEF c2

(* The loop over the old trees, whether or not a deletion succeeded. *)
LEMMA OldTreeMoves ==
  ASSUME NEW o, NEW r, NEW c \in Command, CmdShape(o, c), Apart(o, r, c),
         c.pc = "deltrees"
  PROVE  LET c2 == AfterOldTree(c) IN
         c2 \in Command /\ CmdShape(o, c2) /\ Apart(o, r, c2)
<1>1. c.lvl \in 1..Len(c.old) /\ Len(c.old) \in Nat /\ c.lvl \in Nat /\ c.pc \in Committed
  BY DEF CmdShape, Command, Committed
<1>2. CASE c.lvl < Len(c.old)
  <2>1. c.lvl + 1 \in Nat /\ c.lvl + 1 \in 1..Len(c.old)
    BY <1>1, <1>2
  <2>2. LET c2 == [c EXCEPT !.lvl = c.lvl + 1, !.pc = "deltrees"] IN
        c2 \in Command /\ CmdShape(o, c2) /\ Apart(o, r, c2)
    BY <1>1, <2>1, LabelMoves DEF Committed
  <2>3. AfterOldTree(c) = [c EXCEPT !.lvl = c.lvl + 1, !.pc = "deltrees"]
    BY <1>2 DEF AfterOldTree, Command
  <2> QED BY <2>2, <2>3
<1>3. CASE ~(c.lvl < Len(c.old))
  <2>1. LET c2 == [c EXCEPT !.lvl = c.lvl, !.pc = "delremoved"] IN
        c2 \in Command /\ CmdShape(o, c2) /\ Apart(o, r, c2)
    BY <1>1, LabelMoves DEF Committed
  <2>2. AfterOldTree(c) = [c EXCEPT !.lvl = c.lvl, !.pc = "delremoved"]
    BY <1>3 DEF AfterOldTree, Command
  <2> QED BY <2>1, <2>2
<1> QED BY <1>2, <1>3

(* A deletion in the cloud that moves one command. *)
LEMMA DeleteMoves ==
  ASSUME IInv, UNCHANGED <<obj, reach, headVars, poolVars, leaked, cmds>>,
         remote' \subseteq remote, clean' \in BOOLEAN, Fault \/ UNCHANGED faults,
         NEW d \in Device, NEW c2 \in Command, cmd' = [cmd EXCEPT ![d] = c2],
         CmdShape(obj, c2), Apart(obj, reach, c2)
  PROVE  IInv'
<1>1. TypeOK
  BY DEF IInv
<1>2. faults' \in 0..MaxFaults
  BY <1>1, FaultCount
<1>3. /\ remote' \subseteq Hash /\ cloudHead' \in Commits /\ owner' \in Device
      /\ localHead' \in [Device -> Commits \cup {NoHead, TornHead}]
      /\ queue' \in [Device -> SUBSET Hash] /\ unsent' \subseteq Hash
      /\ leaked' \subseteq Hash /\ cmds' \in 0..MaxCmds
  BY <1>1 DEF TypeOK, headVars, poolVars
<1> QED BY <1>2, <1>3, CommandMoves

LEMMA CleanUpStep ==
  ASSUME IInv, NEW d \in Device, CleanUp(d)
  PROVE  IInv'
<1>0. /\ TypeOK /\ obj \in Seq(Object)
      /\ cmd \in [Device -> Command] /\ cmd[d] \in Command
      /\ CmdShape(obj, cmd[d]) /\ Apart(obj, reach, cmd[d])
  BY Facts
<1> DEFINE c == cmd[d]
<1>1. CASE RemoveOldCommit(d)
  <2> DEFINE c2 == [c EXCEPT !.lvl = 1, !.pc = "deltrees"]
  <2>1. c.pc \in Committed /\ c.path \in Path /\ Len(c.old) = Len(c.path)
    BY <1>0, <1>1 DEF RemoveOldCommit, At, Committed, CmdShape
  <2>2. 1 \in 1..Len(c.old)
    BY <2>1, PathFacts
  <2>3. c2 \in Command /\ CmdShape(obj, c2) /\ Apart(obj, reach, c2)
    BY <1>0, <2>1, <2>2, LabelMoves DEF Committed
  <2>4. cmd' = [cmd EXCEPT ![d] = c2]
    BY <1>0, <1>1 DEF RemoveOldCommit
  <2>5. /\ remote' \subseteq remote /\ clean' \in BOOLEAN /\ UNCHANGED faults
        /\ UNCHANGED <<obj, reach, headVars, poolVars, leaked, cmds>>
    BY <1>0, <1>1 DEF RemoveOldCommit, TypeOK, ghostVars, countVars
  <2> HIDE DEF c2
  <2> QED BY <2>3, <2>4, <2>5, DeleteMoves
<1>2. CASE OldCommitGone(d)
  BY <1>2, ThrowOnly DEF OldCommitGone, countVars
<1>3. CASE RemoveOldTree(d)
  <2>1. c.pc = "deltrees"
    BY <1>3 DEF RemoveOldTree, At
  <2>2. AfterOldTree(c) \in Command /\ CmdShape(obj, AfterOldTree(c))
        /\ Apart(obj, reach, AfterOldTree(c))
    BY <1>0, <2>1, OldTreeMoves
  <2>3. cmd' = [cmd EXCEPT ![d] = AfterOldTree(c)]
    BY <1>3 DEF RemoveOldTree
  <2>4. /\ remote' \subseteq remote /\ clean' \in BOOLEAN /\ UNCHANGED faults
        /\ UNCHANGED <<obj, reach, headVars, poolVars, leaked, cmds>>
    BY <1>0, <1>3 DEF RemoveOldTree, TypeOK, ghostVars, countVars
  <2> QED BY <2>2, <2>3, <2>4, DeleteMoves
<1>4. CASE RemoveSubtree(d)
  <2>1. PICK x \in c.trees : /\ remote' = remote \ {x}
                             /\ clean' = (clean /\ x \in remote)
                             /\ cmd' = [cmd EXCEPT ![d].trees = @ \ {x}]
    BY <1>4 DEF RemoveSubtree
  <2> DEFINE c2 == [c EXCEPT !.trees = c.trees \ {x}, !.blobs = c.blobs]
  <2>2. c.pc = "delremoved"
    BY <1>4 DEF RemoveSubtree, At
  <2>3. c2 \in Command /\ CmdShape(obj, c2) /\ Apart(obj, reach, c2)
    BY <1>0, <2>2, Forgets
  <2>4. cmd' = [cmd EXCEPT ![d] = c2]
    BY <1>0, <2>1 DEF Command
  <2>5. clean' \in BOOLEAN
    BY <2>1
  <2>6. /\ remote' \subseteq remote /\ UNCHANGED faults
        /\ UNCHANGED <<obj, reach, headVars, poolVars, leaked, cmds>>
    BY <1>4, <2>1 DEF RemoveSubtree, countVars
  <2> HIDE DEF c2
  <2> QED BY <2>3, <2>4, <2>5, <2>6, DeleteMoves
<1>5. CASE RemoveBlob(d)
  <2>1. PICK x \in c.blobs : /\ remote' = remote \ {x}
                             /\ cmd' = [cmd EXCEPT ![d].blobs = @ \ {x}]
    BY <1>5 DEF RemoveBlob
  <2> DEFINE c2 == [c EXCEPT !.trees = c.trees, !.blobs = c.blobs \ {x}]
  <2>2. c.pc = "delremoved"
    BY <1>5 DEF RemoveBlob, At
  <2>3. c2 \in Command /\ CmdShape(obj, c2) /\ Apart(obj, reach, c2)
    BY <1>0, <2>2, Forgets
  <2>4. cmd' = [cmd EXCEPT ![d] = c2]
    BY <1>0, <2>1 DEF Command
  <2>5. /\ remote' \subseteq remote /\ clean' \in BOOLEAN /\ UNCHANGED faults
        /\ UNCHANGED <<obj, reach, headVars, poolVars, leaked, cmds>>
    BY <1>0, <1>5, <2>1 DEF RemoveBlob, TypeOK, ghostVars, countVars
  <2> HIDE DEF c2
  <2> QED BY <2>3, <2>4, <2>5, DeleteMoves
<1>6. CASE BlobGone(d)
  BY <1>6, ThrowOnly DEF BlobGone, countVars
<1>7. CASE Done(d)
  <2>1. LET c2 == FreshCmd("exit", "none", <<>>, "ok") IN
        c2 \in Command /\ CmdShape(obj, c2) /\ Apart(obj, reach, c2)
    BY <1>0, ResetCmd
  <2>2. cmd' = [cmd EXCEPT ![d] = FreshCmd("exit", "none", <<>>, "ok")]
    BY <1>7 DEF Done, Finish
  <2> QED BY <1>7, <2>1, <2>2, OnlyCommand DEF Done
<1> QED BY <1>1, <1>2, <1>3, <1>4, <1>5, <1>6, <1>7 DEF CleanUp

LEMMA ExitStep ==
  ASSUME IInv, NEW d \in Device, Exit(d)
  PROVE  IInv'
<1>1. obj \in Seq(Object)
  BY Facts
<1>2. LET c2 == FreshCmd("idle", "none", <<>>, "none") IN
      c2 \in Command /\ CmdShape(obj, c2) /\ Apart(obj, reach, c2)
  BY <1>1, ResetCmd
<1>3. cmd' = [cmd EXCEPT ![d] = FreshCmd("idle", "none", <<>>, "none")]
  BY DEF Exit, IdleCmd
<1> QED BY <1>2, <1>3, OnlyCommand DEF Exit

LEMMA AnswerStep ==
  ASSUME IInv, NEW d \in Device, Answer(d)
  PROVE  IInv'
<1>0. obj \in Seq(Object) /\ cmd[d] \in Command /\ CmdShape(obj, cmd[d])
  BY Facts
<1>1. CASE ConfirmYes(d)
  <2>1. cmd[d].path \in Path
    BY <1>0, <1>1 DEF ConfirmYes, At, CmdShape
  <2>2. LET c2 == FreshCmd("head", "rmdirall", cmd[d].path, "none") IN
        c2 \in Command /\ CmdShape(obj, c2) /\ Apart(obj, reach, c2)
    BY <1>0, <2>1, BeginCmd
  <2>3. cmd' = [cmd EXCEPT ![d] = FreshCmd("head", "rmdirall", cmd[d].path, "none")]
    BY <1>1 DEF ConfirmYes
  <2> QED BY <1>1, <2>2, <2>3, OnlyCommand DEF ConfirmYes
<1>2. CASE ConfirmNo(d)
  <2>1. LET c2 == FreshCmd("exit", "none", <<>>, "aborted") IN
        c2 \in Command /\ CmdShape(obj, c2) /\ Apart(obj, reach, c2)
    BY <1>0, ResetCmd
  <2>2. cmd' = [cmd EXCEPT ![d] = FreshCmd("exit", "none", <<>>, "aborted")]
    BY <1>2 DEF ConfirmNo, Finish
  <2> QED BY <1>2, <2>1, <2>2, OnlyCommand DEF ConfirmNo
<1> QED BY <1>1, <1>2 DEF Answer

(* Uploads: only the cloud and the pool change. *)
LEMMA PoolStep ==
  ASSUME IInv, UNCHANGED <<obj, reach, headVars, cmd, leaked, cmds>>,
         remote' \subseteq Hash, queue' \in [Device -> SUBSET Hash],
         unsent' \subseteq unsent, clean' \in BOOLEAN, Fault \/ UNCHANGED faults
  PROVE  IInv'
<1>1. TypeOK
  BY DEF IInv
<1>2. faults' \in 0..MaxFaults
  BY <1>1, FaultCount
<1>3. Hash' = Hash /\ Commits' = Commits
  BY DEF Hash, Commits
<1>4. TypeOK'
  BY <1>1, <1>2, <1>3 DEF TypeOK, headVars
<1> QED BY <1>4 DEF IInv

LEMMA UploadStep ==
  ASSUME IInv, NEW d \in Device, Upload(d) \/ UploadFails(d)
  PROVE  IInv'
<1>0. TypeOK
  BY Facts
<1>1. CASE Upload(d)
  <2>1. PICK b \in queue[d] : /\ remote' = remote \cup {b}
                              /\ unsent' = unsent \ {b}
                              /\ queue' = [queue EXCEPT ![d] = @ \ {b}]
    BY <1>1 DEF Upload
  <2>2. b \in Hash
    BY <1>0 DEF TypeOK
  <2>3. /\ remote' \subseteq Hash /\ queue' \in [Device -> SUBSET Hash]
        /\ unsent' \subseteq unsent
    BY <1>0, <2>1, <2>2 DEF TypeOK
  <2>4. clean' \in BOOLEAN /\ UNCHANGED <<obj, reach, headVars, cmd, leaked, cmds>>
        /\ UNCHANGED faults
    BY <1>0, <1>1 DEF Upload, TypeOK, ghostVars, countVars
  <2> QED BY <2>3, <2>4, PoolStep
<1>2. CASE UploadFails(d)
  <2>1. PICK b \in queue[d] : queue' = [queue EXCEPT ![d] = @ \ {b}]
    BY <1>2 DEF UploadFails
  <2>2. remote' \subseteq Hash /\ queue' \in [Device -> SUBSET Hash]
        /\ unsent' \subseteq unsent
    BY <1>0, <1>2, <2>1 DEF UploadFails, TypeOK, storeVars
  <2>3. /\ clean' \in BOOLEAN /\ Fault
        /\ UNCHANGED <<obj, reach, headVars, cmd, leaked, cmds>>
    BY <1>2 DEF UploadFails, storeVars
  <2> QED BY <2>2, <2>3, PoolStep
<1> QED BY <1>1, <1>2
LEMMA FailStep ==
  ASSUME IInv, NEW d \in Device, Fail(d)
  PROVE  IInv'
<1>0. /\ TypeOK /\ obj \in Seq(Object) /\ reach \in Seq(SUBSET Nat) /\ StoreInv(obj, reach)
      /\ cmd \in [Device -> Command] /\ cmd[d] \in Command
      /\ CmdShape(obj, cmd[d]) /\ Apart(obj, reach, cmd[d])
  BY Facts
<1> DEFINE c == cmd[d]
<1>1. CASE UploadFails(d)
  BY <1>1, UploadStep
<1>2. CASE CallFails(d)
  BY <1>2, ThrowOnly DEF CallFails
<1>3. CASE PutReplyLost(d)
  <2>1. Extends(obj, reach, obj', reach')
    <3>1. CASE EncryptTree(EmptyDir)
      BY <3>1, EmptyTreeStored
    <3>2. CASE At(d, "store") /\ EncryptTree(NewDir(c))
      BY <3>2, LevelTreeStored
    <3>3. CASE At(d, "commit") /\ EncryptCommit(c.ret)
      BY <3>3, CommitStored
    <3> QED BY <1>3, <3>1, <3>2, <3>3 DEF PutReplyLost
  <2>2. LET c2 == FreshCmd("exit", "none", <<>>, "error") IN
        c2 \in Command /\ CmdShape(obj', c2) /\ Apart(obj', reach', c2)
    BY <2>1, ResetCmd DEF Extends
  <2>3. cmd' = [cmd EXCEPT ![d] = FreshCmd("exit", "none", <<>>, "error")]
    BY <1>3 DEF PutReplyLost, Finish
  <2>4. /\ Put /\ UNCHANGED <<headVars, poolVars, leaked, cmds>> /\ clean' \in BOOLEAN
        /\ Fault
    BY <1>3 DEF PutReplyLost
  <2> QED BY <2>1, <2>2, <2>3, <2>4, StoreMoves
<1>4. CASE HeadReplyLost(d)
  <2>1. c.newc \in Commits
    BY <1>4, NewCommitKnown DEF HeadReplyLost, At, Committed
  <2>2. /\ UNCHANGED <<obj, reach>> /\ remote' \subseteq Hash /\ owner' \in Device
        /\ localHead' \in [Device -> Commits \cup {NoHead, TornHead}]
        /\ cloudHead' \in Commits
    BY <1>0, <1>4, <2>1 DEF HeadReplyLost, TypeOK, storeVars
  <2>3. /\ Throw(d) /\ Fault /\ UNCHANGED poolVars /\ UNCHANGED leaked /\ UNCHANGED cmds
    BY <1>4 DEF HeadReplyLost
  <2> QED BY <2>2, <2>3, ThrowStep
<1>5. CASE RemoveReplyLost(d)
  <2>1. /\ UNCHANGED <<obj, reach>> /\ remote' \subseteq Hash /\ owner' \in Device
        /\ localHead' \in [Device -> Commits \cup {NoHead, TornHead}]
        /\ cloudHead' \in Commits
    BY <1>0, <1>5 DEF RemoveReplyLost, TypeOK, headVars
  <2>2. /\ Throw(d) /\ Fault /\ UNCHANGED poolVars /\ UNCHANGED leaked /\ UNCHANGED cmds
    BY <1>5 DEF RemoveReplyLost
  <2> QED BY <2>1, <2>2, ThrowStep
<1>6. CASE TreeRemoveFails(d)
  <2>1. /\ remote' \subseteq remote /\ clean' \in BOOLEAN /\ Fault
        /\ UNCHANGED <<obj, reach, headVars, poolVars, leaked, cmds>>
    BY <1>6 DEF TreeRemoveFails, storeVars
  <2>2. CASE At(d, "deltrees") /\ cmd' = [cmd EXCEPT ![d] = AfterOldTree(@)]
    <3>1. AfterOldTree(c) \in Command /\ CmdShape(obj, AfterOldTree(c))
          /\ Apart(obj, reach, AfterOldTree(c))
      BY <1>0, <2>2, OldTreeMoves DEF At
    <3>2. cmd' = [cmd EXCEPT ![d] = AfterOldTree(c)]
      BY <2>2
    <3> QED BY <2>1, <3>1, <3>2, DeleteMoves
  <2>3. ASSUME At(d, "delremoved"), NEW x \in c.trees,
               cmd' = [cmd EXCEPT ![d].trees = @ \ {x}]
        PROVE  IInv'
    <3> DEFINE c2 == [c EXCEPT !.trees = c.trees \ {x}, !.blobs = c.blobs]
    <3>1. c2 \in Command /\ CmdShape(obj, c2) /\ Apart(obj, reach, c2)
      BY <1>0, <2>3, Forgets DEF At
    <3>2. cmd' = [cmd EXCEPT ![d] = c2]
      BY <1>0, <2>3 DEF Command
    <3> HIDE DEF c2
    <3> QED BY <2>1, <3>1, <3>2, DeleteMoves
  <2> QED BY <1>6, <2>2, <2>3 DEF TreeRemoveFails
<1>7. CASE LocalHeadTorn(d)
  <2> DEFINE c2 == [c EXCEPT !.lvl = c.lvl, !.pc = "cloudhead"]
  <2>1. c.pc \in Committed /\ c.lvl \in Nat
    BY <1>0, <1>7 DEF LocalHeadTorn, At, Committed, Command
  <2>2. c2 \in Command /\ CmdShape(obj, c2) /\ Apart(obj, reach, c2)
    BY <1>0, <2>1, LabelMoves DEF Committed
  <2>3. cmd' = [cmd EXCEPT ![d] = c2]
    BY <1>0, <1>7 DEF LocalHeadTorn, Command
  <2>4. faults' \in 0..MaxFaults
    BY <1>0, <1>7, FaultCount DEF LocalHeadTorn
  <2>5. /\ UNCHANGED <<obj, reach>>
        /\ remote' \subseteq Hash /\ cloudHead' \in Commits /\ owner' \in Device
        /\ localHead' \in [Device -> Commits \cup {NoHead, TornHead}]
        /\ queue' \in [Device -> SUBSET Hash] /\ unsent' \subseteq Hash
        /\ clean' \in BOOLEAN /\ leaked' \subseteq Hash
        /\ cmds' \in 0..MaxCmds
    BY <1>0, <1>7 DEF LocalHeadTorn, TypeOK, storeVars, poolVars, ghostVars
  <2> HIDE DEF c2
  <2> QED BY <2>2, <2>3, <2>4, <2>5, CommandMoves
<1>8. CASE SyncTorn(d)
  <2>1. cmds' \in 0..MaxCmds /\ faults' \in 0..MaxFaults
    BY <1>0, <1>8, MayStartCount, FaultCount DEF SyncTorn
  <2>2. localHead' \in [Device -> Commits \cup {NoHead, TornHead}]
    BY <1>0, <1>8 DEF SyncTorn, TypeOK
  <2>3. Hash' = Hash /\ Commits' = Commits
    BY <1>8 DEF SyncTorn, storeVars, Hash, Commits
  <2>4. TypeOK'
    BY <1>0, <1>8, <2>1, <2>2, <2>3 DEF SyncTorn, TypeOK, storeVars, poolVars, ghostVars
  <2> QED BY <1>8, <2>4 DEF SyncTorn, IInv, storeVars
<1>9. CASE DiesWritingHead(d)
  <2>1. clean' \in BOOLEAN
    BY <1>9 DEF DiesWritingHead
  <2>2. faults' \in 0..MaxFaults
    BY <1>0, <1>9, FaultCount DEF DiesWritingHead
  <2>3. /\ UNCHANGED <<obj, reach>>
        /\ remote' \subseteq Hash /\ cloudHead' \in Commits /\ owner' \in Device
        /\ localHead' \in [Device -> Commits \cup {NoHead, TornHead}]
        /\ queue' \in [Device -> SUBSET Hash] /\ unsent' \subseteq Hash
        /\ leaked' \subseteq Hash /\ cmds' \in 0..MaxCmds
    BY <1>0, <1>9 DEF DiesWritingHead, TypeOK, storeVars
  <2>4. cmd' = [cmd EXCEPT ![d] = FreshCmd("idle", "none", <<>>, "none")]
    BY <1>9 DEF DiesWritingHead, IdleCmd
  <2> QED BY <2>1, <2>2, <2>3, <2>4, CommandEndsStep
<1>10. CASE Crash(d)
  <2>1. clean' \in BOOLEAN
    BY <1>10 DEF Crash
  <2>2. faults' \in 0..MaxFaults
    BY <1>0, <1>10, FaultCount DEF Crash
  <2>3. /\ UNCHANGED <<obj, reach>>
        /\ remote' \subseteq Hash /\ cloudHead' \in Commits /\ owner' \in Device
        /\ localHead' \in [Device -> Commits \cup {NoHead, TornHead}]
        /\ queue' \in [Device -> SUBSET Hash] /\ unsent' \subseteq Hash
        /\ leaked' \subseteq Hash /\ cmds' \in 0..MaxCmds
    BY <1>0, <1>10 DEF Crash, TypeOK, storeVars, headVars
  <2>4. cmd' = [cmd EXCEPT ![d] = FreshCmd("idle", "none", <<>>, "none")]
    BY <1>10 DEF Crash, IdleCmd
  <2> QED BY <2>1, <2>2, <2>3, <2>4, CommandEndsStep
<1> QED BY <1>1, <1>2, <1>3, <1>4, <1>5, <1>6, <1>7, <1>8, <1>9, <1>10 DEF Fail

LEMMA StutterStep ==
  ASSUME IInv, UNCHANGED vars
  PROVE  IInv'
<1>1. /\ UNCHANGED <<obj, reach, remote, cloudHead, localHead, owner, cmd>>
      /\ UNCHANGED <<queue, unsent, clean, leaked, cmds, faults>>
  BY DEF vars, storeVars, headVars, poolVars, ghostVars, countVars
<1>2. TypeOK'
  BY <1>1 DEF IInv, TypeOK, Hash, Commits
<1> QED BY <1>1, <1>2 DEF IInv

LEMMA NextIInv == IInv /\ [Next]_vars => IInv'
<1> SUFFICES ASSUME IInv, [Next]_vars PROVE IInv'
  OBVIOUS
<1>1. ASSUME NEW d \in Device, Proceed(d) PROVE IInv'
  BY <1>1, PrepareStep, WalkStep, PublishStep, CleanUpStep, ExitStep DEF Proceed
<1>2. ASSUME NEW d \in Device, Start(d) \/ Answer(d) \/ Upload(d) \/ Fail(d) PROVE IInv'
  BY <1>2, StartStep, AnswerStep, UploadStep, FailStep
<1>3. CASE UNCHANGED vars
  BY <1>3, StutterStep
<1> QED BY <1>1, <1>2, <1>3 DEF Next

----------------------------------------------------------------------------
(* The theorems *)

(* The inductive invariant holds in every reachable state. *)
THEOREM Invariance == Spec => []IInv
<1> QED BY InitIInv, NextIInv, PTL DEF Spec

(* Every hash in use names an object that was made, a HEAD always names a commit,
   and the variables keep their types (VaultEngine::write_head, store_commit). *)
THEOREM TypeCorrect == Spec => []TypeOK
<1>1. IInv => TypeOK
  BY DEF IInv
<1> QED BY <1>1, Invariance, PTL

(* Two entries of a stored directory never lead to the same object, whatever the
   devices do, in spite of lost replies and crashes: rmdir and remove delete nothing
   that another name of the directory uses (upsert_*, remove_*_from_tree). *)
THEOREM NothingShared == Spec => []NoSharing
<1>1. IInv => NoSharing
  <2> SUFFICES ASSUME IInv, NEW h \in Hash, NEW m \in Name, NEW n \in Name, m # n,
                      obj[h].dir[m] # 0, obj[h].dir[n] # 0,
                      NEW x \in reach[obj[h].dir[m]], x \in reach[obj[h].dir[n]]
               PROVE  FALSE
    BY DEF NoSharing
  <2>1. ObjectInv(obj, reach, h) /\ Under(obj, reach, h, m, x) /\ Under(obj, reach, h, n, x)
    BY DEF IInv, StoreInv, Hash, Under
  <2> QED BY <2>1 DEF ObjectInv
<1> QED BY <1>1, Invariance, PTL

(* No command ever deletes an object its own new commit uses (the clean-up of add,
   mkdir, remove and rmdir), for any devices, names, bounds and faults. *)
THEOREM OwnSnapshotSafe == Spec => []OwnSnapshotKept
<1>1. IInv => OwnSnapshotKept
  BY DEF IInv, OwnSnapshotKept, Apart
<1> QED BY <1>1, Invariance, PTL

----------------------------------------------------------------------------
(* The commit the cloud HEAD names is in the cloud, for any devices working *)
(* at the same time from whatever local HEAD.                               *)
(*                                                                           *)
(* A commit belongs to the command that made it until HEAD names it: no      *)
(* other device has it as its local HEAD or works from it.  After that HEAD  *)
(* only ever moves to commits of that kind, so the old commit that a command *)
(* removes is never the one HEAD names.                                      *)

Publishing == {"localhead", "cloudhead"}
IsCommit(h) == obj[h].kind = "commit"

Private(d) ==
  cmd[d].pc \in Publishing =>
    /\ cmd[d].newc \in remote
    /\ cmd[d].newc \notin {cloudHead, cmd[d].base}
    /\ \A e \in Device \ {d} :
         /\ cmd[d].newc \notin {localHead[e], cmd[e].base}
         /\ cmd[e].pc \in Publishing => cmd[e].newc # cmd[d].newc

Outdated(d) == At(d, "delcommit") => cloudHead # cmd[d].base

(* The objects that a command deletes besides its old commit *)
SparesCommits(d) == \A x \in cmd[d].trees \cup cmd[d].blobs : ~IsCommit(x)

HeadInv ==
  /\ HeadCommitExists
  /\ \A d \in Device : Private(d) /\ Outdated(d) /\ SparesCommits(d)

----------------------------------------------------------------------------
(* Steps of one device that neither move HEAD nor remove a commit *)

OthersStay(d) ==
  \A e \in Device \ {d} : cmd'[e] = cmd[e] /\ localHead'[e] = localHead[e]

StoreStays ==
  /\ \A h \in Hash : obj'[h] = obj[h]
  /\ \A h \in remote \ remote' : ~IsCommit(h)

(* The command of d has not come to know a commit that its device did not know *)
NothingNew(d) ==
  /\ cmd'[d].base \in {0, cmd[d].base, localHead[d]}
  /\ cmd'[d].pc \in Publishing =>
       /\ cmd[d].pc \in Publishing
       /\ cmd'[d].newc = cmd[d].newc /\ cmd'[d].base = cmd[d].base
  /\ cmd'[d].pc = "delcommit" => cmd[d].pc = "delcommit" /\ cmd'[d].base = cmd[d].base

HeadFollows(d) ==
  \/ localHead'[d] \in {NoHead, TornHead, localHead[d], cloudHead}
  \/ cmd[d].pc \in Publishing /\ localHead'[d] = cmd[d].newc

Spares(d) == \A x \in cmd'[d].trees \cup cmd'[d].blobs : x \in Hash /\ ~IsCommit(x)

(* What HeadInv needs to know of the hashes in use *)
LEMMA Known ==
  ASSUME IInv
  PROVE  /\ Hash \subseteq Nat \ {0} /\ NoHead \notin Hash /\ TornHead \notin Hash
         /\ cloudHead \in Hash /\ IsCommit(cloudHead) /\ remote \subseteq Hash
         /\ \A d \in Device :
              /\ cmd[d].pc \in Committed => cmd[d].newc \in Hash /\ IsCommit(cmd[d].newc)
              /\ cmd[d].base \in 0..Len(obj)
              /\ cmd[d].trees \cup cmd[d].blobs \subseteq Hash
              /\ \A i \in 1..Len(cmd[d].old) : cmd[d].old[i] \in Hash /\ ~IsCommit(cmd[d].old[i])
              /\ localHead[d] \in Hash \cup {NoHead, TornHead}
<1>1. Len(obj) \in Nat
  BY Facts DEF IInv, TypeOK
<1>2. Hash \subseteq Nat \ {0} /\ NoHead \notin Hash /\ TornHead \notin Hash
  BY <1>1, ConstantsAssumption DEF Hash
<1>3. cloudHead \in Hash /\ IsCommit(cloudHead) /\ remote \subseteq Hash
  BY DEF IInv, TypeOK, Commits, IsCommit
<1>4. ASSUME NEW d \in Device
      PROVE  /\ cmd[d].pc \in Committed => cmd[d].newc \in Hash /\ IsCommit(cmd[d].newc)
             /\ cmd[d].base \in 0..Len(obj)
             /\ cmd[d].trees \cup cmd[d].blobs \subseteq Hash
             /\ \A i \in 1..Len(cmd[d].old) : cmd[d].old[i] \in Hash /\ ~IsCommit(cmd[d].old[i])
             /\ localHead[d] \in Hash \cup {NoHead, TornHead}
  <2>1. CmdShape(obj, cmd[d]) /\ TypeOK
    BY Facts
  <2>2. localHead[d] \in Hash \cup {NoHead, TornHead}
    BY <2>1 DEF TypeOK, Commits
  <2> QED
    BY <2>1, <2>2 DEF CmdShape, CommitIn, TreeIn, IsCommit, Hash
<1> QED
  BY <1>2, <1>3, <1>4

LEMMA QuietStep ==
  ASSUME NEW d \in Device, IInv, HeadInv, OthersStay(d), StoreStays, UNCHANGED cloudHead,
         NothingNew(d), HeadFollows(d), Spares(d)
  PROVE  HeadInv'
<1> USE Known
<1>0. Publishing \subseteq Committed /\ 0 \notin Hash
  BY DEF Publishing, Committed
<1>1. HeadCommitExists'
  BY DEF HeadInv, HeadCommitExists, StoreStays
<1>2. ASSUME NEW e \in Device, cmd[e].pc \in Publishing
      PROVE  /\ cmd[e].newc \in remote' /\ cmd[e].newc \in Hash /\ cmd[e].newc # cloudHead
             /\ cmd[e].newc # cmd[e].base
             /\ \A g \in Device \ {e} :
                  /\ cmd[e].newc \notin {localHead[g], cmd[g].base}
                  /\ cmd[g].pc \in Publishing => cmd[g].newc # cmd[e].newc
  <2>1. Private(e) /\ cmd[e].newc \in Hash /\ IsCommit(cmd[e].newc)
    BY <1>0, <1>2 DEF HeadInv
  <2> QED
    BY <1>2, <2>1 DEF Private, StoreStays
<1>3. Private(d)'
  BY <1>2 DEF Private, NothingNew, OthersStay
<1>4. ASSUME NEW e \in Device \ {d} PROVE Private(e)'
  <2> SUFFICES ASSUME cmd[e].pc \in Publishing PROVE Private(e)'
    BY DEF Private, OthersStay
  <2>1. cmd[e].newc \notin {localHead'[d], cmd'[d].base}
    BY <1>0, <1>2 DEF NothingNew, HeadFollows
  <2>2. cmd'[d].pc \in Publishing => cmd'[d].newc # cmd[e].newc
    BY <1>2 DEF NothingNew
  <2> QED
    BY <1>2, <2>1, <2>2 DEF Private, OthersStay
<1>5. \A e \in Device : Outdated(e)'
  BY DEF HeadInv, Outdated, At, NothingNew, OthersStay
<1>6. \A e \in Device : SparesCommits(e)'
  <2>1. \A h \in Hash : IsCommit(h)' <=> IsCommit(h)
    BY DEF StoreStays, IsCommit
  <2>2. SparesCommits(d)'
    BY <2>1 DEF Spares, SparesCommits, IsCommit
  <2>3. ASSUME NEW e \in Device \ {d} PROVE SparesCommits(e)'
    <3>1. \A x \in cmd[e].trees \cup cmd[e].blobs : x \in Hash /\ ~IsCommit(x)
      BY DEF HeadInv, SparesCommits
    <3> QED
      BY <2>1, <3>1 DEF SparesCommits, OthersStay, IsCommit
  <2> QED
    BY <2>2, <2>3
<1> QED
  BY <1>1, <1>3, <1>4, <1>5, <1>6 DEF HeadInv

(* A step that encrypts, or that leaves the objects alone, and deletes no commit *)
LEMMA Appended ==
  ASSUME IInv, NEW o, obj' = Append(obj, o) \/ UNCHANGED obj, remote \subseteq remote'
  PROVE  StoreStays
<1>1. obj \in Seq(Object)
  BY Facts DEF IInv, TypeOK
<1>2. \A h \in Hash : obj'[h] = obj[h]
  BY <1>1 DEF Hash
<1> QED
  BY <1>2 DEF StoreStays

LEMMA OneCommand ==
  ASSUME NEW d \in Device, IInv, NEW c, cmd' = [cmd EXCEPT ![d] = c],
         UNCHANGED localHead \/ \E h : localHead' = [localHead EXCEPT ![d] = h]
  PROVE  OthersStay(d) /\ cmd'[d] = c
  BY Facts DEF IInv, TypeOK, OthersStay

(* A command that starts, starts over or ends *)
LEMMA FreshStep ==
  ASSUME NEW d \in Device, IInv, HeadInv, NEW l \in {"idle", "exit", "head"}, NEW o, NEW q, NEW out,
         cmd' = [cmd EXCEPT ![d] = FreshCmd(l, o, q, out)],
         UNCHANGED localHead \/ \E h : localHead' = [localHead EXCEPT ![d] = h],
         StoreStays, UNCHANGED cloudHead, HeadFollows(d)
  PROVE  HeadInv'
<1>1. OthersStay(d) /\ cmd'[d] = FreshCmd(l, o, q, out)
  BY OneCommand
<1>2. NothingNew(d) /\ Spares(d)
  BY <1>1 DEF FreshCmd, NothingNew, Spares, Publishing
<1> QED
  BY <1>1, <1>2, QuietStep

(* A command that goes on, and works from the same commit *)
Working == {"blob", "leaf", "walk", "parent", "store", "confirm", "commit", "deltrees", "delremoved"}

LEMMA WorkStep ==
  ASSUME NEW d \in Device, IInv, HeadInv, NEW c, cmd' = [cmd EXCEPT ![d] = c],
         c.pc \in Working, c.base = cmd[d].base,
         \A x \in c.trees \cup c.blobs : x \in Hash /\ ~IsCommit(x),
         StoreStays, UNCHANGED <<cloudHead, localHead>>
  PROVE  HeadInv'
<1>1. OthersStay(d) /\ cmd'[d] = c
  BY OneCommand
<1>2. NothingNew(d)
  BY <1>1 DEF NothingNew, Publishing, Working
<1>3. Spares(d) /\ HeadFollows(d)
  BY <1>1 DEF Spares, HeadFollows
<1> QED
  BY <1>1, <1>2, <1>3, QuietStep

(* The same, when it is to delete nothing more *)
LEMMA SameDeletions ==
  ASSUME NEW d \in Device, IInv, HeadInv, NEW c, cmd' = [cmd EXCEPT ![d] = c],
         c.pc \in Working, c.base = cmd[d].base,
         c.trees \subseteq cmd[d].trees, c.blobs \subseteq cmd[d].blobs,
         StoreStays, UNCHANGED <<cloudHead, localHead>>
  PROVE  HeadInv'
<1>1. \A x \in c.trees \cup c.blobs : x \in Hash /\ ~IsCommit(x)
  BY Known DEF HeadInv, SparesCommits
<1>2. UNCHANGED cloudHead /\ UNCHANGED localHead
  OBVIOUS
<1> QED
  BY <1>1, <1>2, WorkStep

(* A step that runs no command *)
LEMMA NoCommand ==
  ASSUME NEW d \in Device, IInv, HeadInv, UNCHANGED <<cmd, cloudHead>>, StoreStays,
         UNCHANGED localHead \/ \E h \in {NoHead, TornHead, cloudHead} : localHead' = [localHead EXCEPT ![d] = h]
  PROVE  HeadInv'
<1>0. localHead \in [Device -> Commits \cup {NoHead, TornHead}]
  BY Facts DEF TypeOK
<1>1. OthersStay(d) /\ HeadFollows(d)
  BY <1>0 DEF OthersStay, HeadFollows
<1>2. \A x \in cmd[d].trees \cup cmd[d].blobs : x \in Hash /\ ~IsCommit(x)
  BY Known DEF HeadInv, SparesCommits
<1> QED
  BY <1>1, <1>2, QuietStep DEF NothingNew, Spares

LEMMA ThrowQuietly ==
  ASSUME NEW d \in Device, IInv, HeadInv, Throw(d) \/ \E r : Finish(d, r),
         UNCHANGED localHead \/ \E h : localHead' = [localHead EXCEPT ![d] = h],
         StoreStays, UNCHANGED cloudHead, HeadFollows(d)
  PROVE  HeadInv'
<1>1. PICK out : cmd' = [cmd EXCEPT ![d] = FreshCmd("exit", "none", <<>>, out)]
  BY DEF Throw, Finish
<1> QED
  BY <1>1, FreshStep

LEMMA FinishStep ==
  ASSUME NEW d \in Device, IInv, HeadInv, Throw(d) \/ \E r : Finish(d, r), StoreStays,
         UNCHANGED <<cloudHead, localHead>>
  PROVE  HeadInv'
  BY ThrowQuietly DEF HeadFollows

LEMMA SameStore == ASSUME IInv, UNCHANGED <<obj, remote>> PROVE StoreStays
  BY DEF StoreStays

----------------------------------------------------------------------------
(* Every action keeps the invariant *)

LEMMA StartHead ==
  ASSUME NEW d \in Device, IInv, HeadInv, Start(d) \/ SyncTorn(d) PROVE HeadInv'
<1>0. StoreStays /\ UNCHANGED cloudHead
  BY SameStore DEF Start, Begin, Sync, InitExisting, SyncTorn, storeVars, headVars
<1>1. CASE Begin(d)
  <2>1. PICK o \in Op, q \in Path : cmd' = [cmd EXCEPT ![d] = FreshCmd("head", o, q, "none")]
    BY <1>1 DEF Begin
  <2>2. UNCHANGED localHead
    BY <1>1 DEF Begin, headVars
  <2>3. HeadFollows(d)
    BY <2>2 DEF HeadFollows
  <2> QED
    BY <1>0, <2>1, <2>2, <2>3, FreshStep
<1>2. CASE Sync(d) \/ InitExisting(d) \/ SyncTorn(d)
  <2>1. \E h \in {NoHead, TornHead, cloudHead} : localHead' = [localHead EXCEPT ![d] = h]
    BY <1>2 DEF Sync, InitExisting, SyncTorn
  <2>2. UNCHANGED cmd
    BY <1>2 DEF Sync, InitExisting, SyncTorn
  <2> QED
    BY <1>0, <2>1, <2>2, NoCommand
<1> QED
  BY <1>1, <1>2 DEF Start

LEMMA PrepareHead ==
  ASSUME NEW d \in Device, IInv, HeadInv, Prepare(d) PROVE HeadInv'
<1>0. cmd[d] \in Command /\ cmd \in [Device -> Command]
  BY Facts
<1> DEFINE c == cmd[d]
<1>1. CASE ReadHead(d)
  <2> DEFINE next == CASE c.op = "add"   -> "blob"
                       [] c.op = "mkdir" -> "leaf"
                       [] OTHER          -> "walk"
             c2   == [c EXCEPT !.base = localHead[d], !.cur = obj[localHead[d]].root, !.pc = next]
  <2>1. next \in {"blob", "leaf", "walk"}
    OBVIOUS
  <2>2. cmd' = [cmd EXCEPT ![d] = c2]
    BY <1>0, <1>1 DEF ReadHead
  <2> HIDE DEF next
  <2>3. c2.base = localHead[d] /\ c2.pc = next /\ c2.trees = c.trees /\ c2.blobs = c.blobs
    BY <1>0 DEF Command
  <2> HIDE DEF c2
  <2>4. UNCHANGED <<obj, remote, cloudHead, localHead>>
    BY <1>1 DEF ReadHead, storeVars, headVars
  <2>5. OthersStay(d) /\ cmd'[d] = c2
    BY <2>2, <2>4, OneCommand
  <2>6. NothingNew(d) /\ HeadFollows(d)
    BY <2>1, <2>3, <2>4, <2>5 DEF NothingNew, HeadFollows, Publishing
  <2>7. Spares(d)
    BY <2>3, <2>5, Known DEF Spares, HeadInv, SparesCommits
  <2> QED
    BY <2>4, <2>5, <2>6, <2>7, SameStore, QuietStep
<1>2. CASE ReadHeadMissing(d) \/ ReadHeadInvalid(d)
  <2>1. Throw(d) \/ \E r : Finish(d, r)
    BY <1>2 DEF ReadHeadMissing, ReadHeadInvalid
  <2>2. UNCHANGED <<obj, remote, cloudHead, localHead>>
    BY <1>2 DEF ReadHeadMissing, ReadHeadInvalid, storeVars, headVars
  <2> QED
    BY <2>1, <2>2, SameStore, FinishStep
<1>3. CASE StoreBlob(d) \/ StoreLeaf(d)
  <2> DEFINE c2 == [c EXCEPT !.ret = NextHash, !.pc = "walk"]
  <2>1. cmd' = [cmd EXCEPT ![d] = c2]
    BY <1>0, <1>3 DEF StoreBlob, StoreLeaf
  <2>2. c2.base = c.base /\ c2.pc = "walk" /\ c2.trees = c.trees /\ c2.blobs = c.blobs
    BY <1>0 DEF Command
  <2> HIDE DEF c2
  <2>3. \E o : obj' = Append(obj, o)
    BY <1>3 DEF StoreBlob, StoreLeaf, EncryptTree, Encrypt
  <2>4. remote \subseteq remote' /\ UNCHANGED <<cloudHead, localHead>>
    BY <1>3 DEF StoreBlob, StoreLeaf, Put, headVars
  <2>5. StoreStays
    BY <2>3, <2>4, Appended
  <2> QED
    BY <2>1, <2>2, <2>4, <2>5, SameDeletions DEF Working
<1> QED
  BY <1>1, <1>2, <1>3 DEF Prepare

(* The entry a walking command has found, and what is below it *)
LEMMA EntryIsHash ==
  ASSUME IInv, NEW d \in Device, cmd[d].pc = "walk", Entry(cmd[d]) # 0
  PROVE  Entry(cmd[d]) \in Hash /\ reach[Entry(cmd[d])] \subseteq Hash
<1>1. obj[cmd[d].cur].dir[cmd[d].path[Level(cmd[d])]] \in 1..Len(obj)
  BY Facts, EntryKnown DEF Entry
<1>2. Entry(cmd[d]) \in 1..Len(obj) /\ Len(obj) \in Nat
  BY <1>1, Facts DEF Entry
<1>3. reach[Entry(cmd[d])] \subseteq 1..Entry(cmd[d])
  BY <1>2, Facts, ReachBelow
<1> QED
  BY <1>2, <1>3 DEF Hash

LEMMA WalkHead ==
  ASSUME NEW d \in Device, IInv, HeadInv, Walk(d) PROVE HeadInv'
<1>0. cmd[d] \in Command /\ cmd \in [Device -> Command] /\ CmdShape(obj, cmd[d])
  BY Facts
<1> DEFINE c == cmd[d]
<1>1. CASE LoadTreeMissing(d) \/ RejectEntry(d)
  <2>1. Throw(d) /\ UNCHANGED <<obj, remote, cloudHead, localHead>>
    BY <1>1 DEF LoadTreeMissing, RejectEntry, storeVars, headVars
  <2> QED
    BY <2>1, SameStore, FinishStep
<1>2. CASE Descend(d)
  <2> DEFINE c2 == [c EXCEPT !.old = Append(c.old, c.cur), !.cur = Entry(c)]
  <2>1. cmd' = [cmd EXCEPT ![d] = c2] /\ c.pc = "walk"
    BY <1>0, <1>2 DEF Descend, Loaded, At
  <2>2. c2.base = c.base /\ c2.pc = c.pc /\ c2.trees = c.trees /\ c2.blobs = c.blobs
    BY <1>0 DEF Command
  <2> HIDE DEF c2
  <2>3. UNCHANGED <<obj, remote, cloudHead, localHead>>
    BY <1>2 DEF Descend, storeVars, headVars
  <2>4. StoreStays
    BY <2>3, SameStore
  <2> QED
    BY <2>1, <2>2, <2>3, <2>4, SameDeletions DEF Working
<1>3. CASE MissingParent(d)
  <2> DEFINE c2 == [c EXCEPT !.old = Append(c.old, c.cur), !.pc = "parent"]
  <2>1. cmd' = [cmd EXCEPT ![d] = c2]
    BY <1>0, <1>3 DEF MissingParent
  <2>2. c2.base = c.base /\ c2.pc = "parent" /\ c2.trees = c.trees /\ c2.blobs = c.blobs
    BY <1>0 DEF Command
  <2> HIDE DEF c2
  <2>3. UNCHANGED <<obj, remote, cloudHead, localHead>>
    BY <1>3 DEF MissingParent, storeVars, headVars
  <2>4. StoreStays
    BY <2>3, SameStore
  <2> QED
    BY <2>1, <2>2, <2>3, <2>4, SameDeletions DEF Working
<1>4. CASE StoreParent(d)
  <2> DEFINE c2 == [c EXCEPT !.cur = NextHash, !.pc = "walk"]
  <2>1. cmd' = [cmd EXCEPT ![d] = c2]
    BY <1>0, <1>4 DEF StoreParent
  <2>2. c2.base = c.base /\ c2.pc = "walk" /\ c2.trees = c.trees /\ c2.blobs = c.blobs
    BY <1>0 DEF Command
  <2> HIDE DEF c2
  <2>3. \E o : obj' = Append(obj, o)
    BY <1>4 DEF StoreParent, EncryptTree, Encrypt
  <2>4. remote \subseteq remote' /\ UNCHANGED <<cloudHead, localHead>>
    BY <1>4 DEF StoreParent, Put, headVars
  <2>5. StoreStays
    BY <2>3, <2>4, Appended
  <2> QED
    BY <2>1, <2>2, <2>4, <2>5, SameDeletions DEF Working
<1>5. CASE LeafUpsert(d) \/ LeafRemove(d) \/ LeafRmdir(d)
  <2>1. PICK ret, T, B : cmd' = [cmd EXCEPT ![d] = Edited(c, ret, T, B)]
                         /\ \A x \in T \cup B : x \in Hash /\ ~IsCommit(x)
    <3>1. CASE LeafUpsert(d)
      <4>1. cmd' = [cmd EXCEPT ![d] = Edited(c, c.ret, {}, {})]
        BY <3>1 DEF LeafUpsert
      <4>2. \A x \in {} \cup {} : x \in Hash /\ ~IsCommit(x)
        OBVIOUS
      <4> QED
        BY <4>1, <4>2
    <3>2. CASE LeafRemove(d)
      <4>1. cmd' = [cmd EXCEPT ![d] = Edited(c, 0, {}, {Entry(c)})] /\ IsBlob(Entry(c))
        BY <3>2 DEF LeafRemove
      <4>2. c.pc = "walk" /\ LastLevel(c)
        BY <3>2 DEF LeafRemove, Loaded, At
      <4>3. Entry(c) \in Hash /\ ~IsCommit(Entry(c))
        BY <4>1, <4>2, EntryIsHash DEF IsBlob, IsCommit
      <4>4. \A x \in {} \cup {Entry(c)} : x \in Hash /\ ~IsCommit(x)
        BY <4>3
      <4> QED
        BY <4>1, <4>4
    <3>3. CASE LeafRmdir(d)
      <4> DEFINE gone == reach[Entry(c)]
      <4>1. cmd' = [cmd EXCEPT ![d] = Edited(c, 0, TreesIn(gone), BlobsIn(gone))]
        BY <3>3 DEF LeafRmdir
      <4>2. c.pc = "walk" /\ LastLevel(c) /\ IsTree(Entry(c))
        BY <3>3 DEF LeafRmdir, RmdirTarget, Loaded, At
      <4>3. gone \subseteq Hash
        BY <4>2, EntryIsHash DEF IsTree
      <4>4. \A x \in TreesIn(gone) \cup BlobsIn(gone) : x \in Hash /\ ~IsCommit(x)
        BY <4>3 DEF TreesIn, BlobsIn, IsCommit
      <4> QED
        BY <4>1, <4>4
    <3> QED
      BY <1>5, <3>1, <3>2, <3>3
  <2> DEFINE c2 == Edited(c, ret, T, B)
  <2>2. c2.base = c.base /\ c2.pc = "store" /\ c2.trees = T /\ c2.blobs = B
    BY <1>0 DEF Edited, Command
  <2> HIDE DEF c2
  <2>3. UNCHANGED <<obj, remote, cloudHead, localHead>>
    BY <1>5 DEF LeafUpsert, LeafRemove, LeafRmdir, storeVars, headVars
  <2>4. cmd' = [cmd EXCEPT ![d] = c2]
    BY <2>1 DEF c2
  <2> QED
    BY <2>1, <2>2, <2>3, <2>4, SameStore, WorkStep DEF Working
<1>6. CASE AskConfirm(d)
  <2> DEFINE c2 == [c EXCEPT !.pc = "confirm"]
  <2>1. cmd' = [cmd EXCEPT ![d] = c2]
    BY <1>0, <1>6 DEF AskConfirm
  <2>2. c2.base = c.base /\ c2.pc = "confirm" /\ c2.trees = c.trees /\ c2.blobs = c.blobs
    BY <1>0 DEF Command
  <2> HIDE DEF c2
  <2>3. UNCHANGED <<obj, remote, cloudHead, localHead>>
    BY <1>6 DEF AskConfirm, storeVars, headVars
  <2>4. StoreStays
    BY <2>3, SameStore
  <2> QED
    BY <2>1, <2>2, <2>3, <2>4, SameDeletions DEF Working
<1> QED
  BY <1>1, <1>2, <1>3, <1>4, <1>5, <1>6 DEF Walk

(* d publishes its commit, and nothing else changes *)
LEMMA HeadMoves ==
  ASSUME NEW d \in Device, IInv, HeadInv, At(d, "cloudhead"), cloudHead' = cmd[d].newc,
         UNCHANGED <<obj, remote, localHead>>, OthersStay(d), cmd'[d].pc \in {"delcommit", "exit"},
         cmd'[d].pc = "delcommit" => cmd'[d].base = cmd[d].base,
         cmd'[d].base \in {0, cmd[d].base},
         cmd'[d].trees \subseteq cmd[d].trees, cmd'[d].blobs \subseteq cmd[d].blobs
  PROVE  HeadInv'
<1>1. /\ cmd[d].newc \in remote /\ cmd[d].newc # cmd[d].base
      /\ \A e \in Device \ {d} :
           /\ cmd[d].newc \notin {localHead[e], cmd[e].base}
           /\ cmd[e].pc \in Publishing => cmd[e].newc # cmd[d].newc
  BY DEF HeadInv, Private, Publishing, At
<1>2. HeadCommitExists'
  BY <1>1 DEF HeadCommitExists
<1>3. \A e \in Device : Outdated(e)'
  BY <1>1 DEF Outdated, At, OthersStay
<1>4. \A e \in Device : SparesCommits(e)'
  BY DEF HeadInv, SparesCommits, OthersStay, IsCommit
<1>5. Private(d)'
  BY DEF Private, Publishing
<1>6. ASSUME NEW e \in Device \ {d}, cmd[e].pc \in Publishing PROVE Private(e)'
  <2>1. Private(e)
    BY DEF HeadInv
  <2>2. cmd'[e] = cmd[e] /\ cmd[e].newc # cmd[d].newc
    BY <1>1, <1>6 DEF OthersStay
  <2>3. \A g \in Device \ {e} : cmd[e].newc \notin {localHead[g], cmd[g].base}
    BY <1>6, <2>1 DEF Private
  <2>4. \A g \in Device \ {e} : cmd[g].pc \in Publishing => cmd[g].newc # cmd[e].newc
    BY <1>6, <2>1 DEF Private
  <2>5. IInv /\ cmd[e].newc \in Hash /\ 0 \notin Hash
    BY <1>6, Known DEF Publishing, Committed
  <2>6. cmd[e].newc \in remote /\ cmd[e].newc # cmd[e].base /\ cmd[e].newc # cmd[d].newc
    BY <1>6, <2>1, <2>2 DEF Private
  <2>7. cmd[e].newc \notin {localHead[d], cmd[d].base}
    BY <2>3
  <2>8. ASSUME NEW g \in Device \ {e}
        PROVE  /\ cmd[e].newc \notin {localHead[g], cmd'[g].base}
               /\ cmd'[g].pc \in Publishing => cmd'[g].newc # cmd[e].newc
    <3>1. CASE g = d
      BY <3>1, <2>5, <2>7 DEF Publishing
    <3>2. CASE g # d
      BY <3>2, <2>3, <2>4 DEF OthersStay
    <3> QED
      BY <3>1, <3>2
  <2> QED
    BY <2>2, <2>6, <2>8 DEF Private
<1>7. \A e \in Device \ {d} : Private(e)'
  BY <1>6 DEF Private, OthersStay
<1> QED
  BY <1>2, <1>3, <1>4, <1>5, <1>7 DEF HeadInv

(* store_commit: nobody else can know the hash of the new commit *)
LEMMA StoreCommitHead ==
  ASSUME NEW d \in Device, IInv, HeadInv, StoreCommit(d) PROVE HeadInv'
<1>0. cmd[d] \in Command /\ cmd \in [Device -> Command] /\ Len(obj) \in Nat
  BY Facts
<1> DEFINE c2 == [cmd[d] EXCEPT !.newc = NextHash, !.pc = "localhead"]
<1>1. cmd' = [cmd EXCEPT ![d] = c2]
  BY <1>0 DEF StoreCommit
<1>2. /\ c2.newc = NextHash /\ c2.pc = "localhead" /\ c2.base = cmd[d].base
      /\ c2.trees = cmd[d].trees /\ c2.blobs = cmd[d].blobs
  BY <1>0 DEF Command
<1> HIDE DEF c2
<1>3. cmd'[d] = c2 /\ \A e \in Device \ {d} : cmd'[e] = cmd[e]
  BY <1>0, <1>1
<1>4. \E o : obj' = Append(obj, o)
  BY DEF StoreCommit, EncryptCommit, Encrypt
<1>5. remote' = remote \cup {NextHash} /\ UNCHANGED <<cloudHead, localHead>>
  BY DEF StoreCommit, Put, headVars
<1>6. StoreStays
  BY <1>4, <1>5, Appended
<1>7. NextHash \notin Hash /\ NextHash # 0 /\ NextHash # NoHead /\ NextHash # TornHead
  BY <1>0, ConstantsAssumption DEF NextHash, Hash
<1>8. HeadCommitExists'
  BY <1>5 DEF HeadInv, HeadCommitExists
<1>9. ASSUME NEW e \in Device
      PROVE  /\ NextHash \notin {cloudHead, localHead[e], cmd[e].base}
             /\ cmd[e].pc \in Publishing => cmd[e].newc # NextHash
  <2>1. NextHash # cmd[e].base
    BY <1>0, Known DEF NextHash
  <2>2. NextHash # cloudHead /\ NextHash # localHead[e]
    BY <1>7, Known
  <2>3. cmd[e].pc \in Publishing => cmd[e].newc \in Hash
    BY Known DEF Publishing, Committed
  <2> QED
    BY <1>7, <2>1, <2>2, <2>3
<1>10. Private(d)'
  BY <1>2, <1>3, <1>5, <1>9 DEF Private
<1>11. ASSUME NEW e \in Device \ {d}, cmd[e].pc \in Publishing PROVE Private(e)'
  <2>1. Private(e) /\ cmd[e].newc # NextHash
    BY <1>9, <1>11 DEF HeadInv
  <2>2. ASSUME NEW g \in Device \ {e}
        PROVE  /\ cmd[e].newc \notin {localHead'[g], cmd'[g].base}
               /\ cmd'[g].pc \in Publishing => cmd'[g].newc # cmd[e].newc
    <3>1. CASE g = d
      BY <1>2, <1>3, <1>5, <1>11, <2>1, <3>1 DEF Private
    <3>2. CASE g # d
      BY <1>3, <1>5, <1>11, <2>1, <3>2 DEF Private
    <3> QED
      BY <3>1, <3>2
  <2> QED
    BY <1>3, <1>5, <1>11, <2>1, <2>2 DEF Private
<1>12. \A e \in Device \ {d} : Private(e)'
  BY <1>3, <1>11 DEF Private
<1>13. \A e \in Device : Outdated(e)'
  BY <1>2, <1>3, <1>5 DEF HeadInv, Outdated, At
<1>14. \A e \in Device : SparesCommits(e)'
  <2>1. \A h \in Hash : ~IsCommit(h) => ~IsCommit(h)'
    BY <1>6 DEF StoreStays, IsCommit
  <2>2. ASSUME NEW e \in Device
        PROVE  \A x \in cmd'[e].trees \cup cmd'[e].blobs : x \in Hash /\ ~IsCommit(x)
    BY <1>2, <1>3, Known DEF HeadInv, SparesCommits
  <2> QED
    BY <2>1, <2>2 DEF SparesCommits, IsCommit
<1> QED
  BY <1>8, <1>10, <1>12, <1>13, <1>14 DEF HeadInv

LEMMA PublishHead ==
  ASSUME NEW d \in Device, IInv, HeadInv, Publish(d) PROVE HeadInv'
<1>0. cmd[d] \in Command /\ cmd \in [Device -> Command]
  BY Facts
<1> DEFINE c == cmd[d]
<1>1. CASE StoreTree(d)
  <2> DEFINE next == IF c.lvl = 1 THEN "commit" ELSE "store"
             c2   == [c EXCEPT !.ret = NextHash, !.lvl = c.lvl - 1, !.pc = next]
  <2>1. cmd' = [cmd EXCEPT ![d] = c2]
    BY <1>0, <1>1 DEF StoreTree
  <2>2. c2.base = c.base /\ c2.pc = next /\ c2.trees = c.trees /\ c2.blobs = c.blobs
    BY <1>0 DEF Command
  <2>3. next \in Working
    BY DEF Working
  <2> HIDE DEF c2, next
  <2>4. \E o : obj' = Append(obj, o)
    BY <1>1 DEF StoreTree, EncryptTree, Encrypt
  <2>5. remote \subseteq remote' /\ UNCHANGED <<cloudHead, localHead>>
    BY <1>1 DEF StoreTree, Put, headVars
  <2>6. StoreStays
    BY <2>4, <2>5, Appended
  <2> QED
    BY <2>1, <2>2, <2>3, <2>5, <2>6, SameDeletions
<1>2. CASE WriteLocalHead(d)
  <2> DEFINE c2 == [c EXCEPT !.pc = "cloudhead"]
  <2>1. cmd' = [cmd EXCEPT ![d] = c2] /\ c.pc = "localhead"
    BY <1>0, <1>2 DEF WriteLocalHead, At
  <2>2. /\ c2.base = c.base /\ c2.pc = "cloudhead" /\ c2.newc = c.newc
        /\ c2.trees = c.trees /\ c2.blobs = c.blobs
    BY <1>0 DEF Command
  <2> HIDE DEF c2
  <2>3. UNCHANGED <<obj, remote, cloudHead>> /\ localHead' = [localHead EXCEPT ![d] = c.newc]
    BY <1>2 DEF WriteLocalHead, storeVars
  <2>4. OthersStay(d) /\ cmd'[d] = c2
    BY <2>1, <2>3, OneCommand
  <2>5. localHead'[d] = c.newc
    BY <2>3, Facts DEF TypeOK
  <2>6. NothingNew(d) /\ HeadFollows(d)
    BY <2>1, <2>2, <2>4, <2>5 DEF NothingNew, HeadFollows, Publishing
  <2>7. Spares(d)
    BY <2>2, <2>4, Known DEF Spares, HeadInv, SparesCommits
  <2> QED
    BY <2>3, <2>4, <2>6, <2>7, SameStore, QuietStep
<1>3. CASE PutCloudHead(d)
  <2> DEFINE c2 == [c EXCEPT !.pc = "delcommit"]
  <2>1. cmd' = [cmd EXCEPT ![d] = c2]
    BY <1>0, <1>3 DEF PutCloudHead
  <2>2. c2.base = c.base /\ c2.pc = "delcommit" /\ c2.trees = c.trees /\ c2.blobs = c.blobs
    BY <1>0 DEF Command
  <2> HIDE DEF c2
  <2>3. /\ UNCHANGED <<obj, remote, localHead>>
        /\ At(d, "cloudhead") /\ cloudHead' = cmd[d].newc
    BY <1>3 DEF PutCloudHead, storeVars
  <2>4. OthersStay(d) /\ cmd'[d] = c2
    BY <2>1, <2>3, OneCommand
  <2>5. /\ cmd'[d].pc \in {"delcommit", "exit"} /\ cmd'[d].base = cmd[d].base
        /\ cmd'[d].base \in {0, cmd[d].base}
        /\ cmd'[d].trees \subseteq cmd[d].trees /\ cmd'[d].blobs \subseteq cmd[d].blobs
    BY <2>2, <2>4
  <2> QED
    BY <2>3, <2>4, <2>5, HeadMoves
<1> QED
  BY <1>1, <1>2, <1>3, StoreCommitHead DEF Publish

(* The old commit goes: HEAD does not name it, and no other command made it *)
LEMMA OldCommitGoes ==
  ASSUME NEW d \in Device, IInv, HeadInv, At(d, "delcommit"), remote' = remote \ {cmd[d].base},
         UNCHANGED <<obj, cloudHead, localHead>>, OthersStay(d),
         cmd'[d].pc \in {"deltrees", "exit"},
         cmd'[d].trees \subseteq cmd[d].trees, cmd'[d].blobs \subseteq cmd[d].blobs,
         cmd'[d].base \in {0, cmd[d].base}
  PROVE  HeadInv'
<1>1. HeadCommitExists'
  BY DEF HeadInv, HeadCommitExists, Outdated
<1>2. \A e \in Device : Outdated(e)'
  BY DEF HeadInv, Outdated, At, OthersStay
<1>3. \A e \in Device : SparesCommits(e)'
  BY DEF HeadInv, SparesCommits, OthersStay, IsCommit
<1>4. Private(d)'
  BY DEF Private, Publishing
<1>5. ASSUME NEW e \in Device \ {d}, cmd[e].pc \in Publishing PROVE Private(e)'
  <2>1. Private(e) /\ cmd'[e] = cmd[e]
    BY DEF HeadInv, OthersStay
  <2>2. cmd[e].newc # cmd[d].base /\ cmd[e].newc \in remote'
    BY <1>5, <2>1 DEF Private
  <2>3. cmd[e].newc # 0
    BY <1>5, Known DEF Publishing, Committed
  <2>4. ASSUME NEW g \in Device \ {e}
        PROVE  /\ cmd[e].newc \notin {localHead[g], cmd'[g].base}
               /\ cmd'[g].pc \in Publishing => cmd'[g].newc # cmd[e].newc
    <3>1. CASE g = d
      BY <1>5, <2>1, <2>2, <2>3, <3>1 DEF Private, Publishing
    <3>2. CASE g # d
      BY <1>5, <2>1, <3>2 DEF Private, OthersStay
    <3> QED
      BY <3>1, <3>2
  <2> QED
    BY <1>5, <2>1, <2>2, <2>4 DEF Private
<1>6. \A e \in Device \ {d} : Private(e)'
  BY <1>5 DEF Private, OthersStay
<1> QED
  BY <1>1, <1>2, <1>3, <1>4, <1>6 DEF HeadInv

(* A tree or a blob goes *)
LEMMA Deletes ==
  ASSUME IInv, NEW x, ~IsCommit(x), remote' = remote \ {x}, UNCHANGED obj
  PROVE  StoreStays
  BY DEF StoreStays

(* AfterOldTree moves on in the loop, or out of it *)
LEMMA OldTreeCmd ==
  ASSUME NEW c \in Command, c.pc = "deltrees"
  PROVE  /\ AfterOldTree(c).pc \in Working /\ AfterOldTree(c).base = c.base
         /\ AfterOldTree(c).trees = c.trees /\ AfterOldTree(c).blobs = c.blobs
  BY DEF AfterOldTree, Command, Working

LEMMA CleanUpHead ==
  ASSUME NEW d \in Device, IInv, HeadInv, CleanUp(d) PROVE HeadInv'
<1>0. cmd[d] \in Command /\ cmd \in [Device -> Command] /\ CmdShape(obj, cmd[d])
  BY Facts
<1> DEFINE c == cmd[d]
<1>1. CASE RemoveOldCommit(d)
  <2> DEFINE c2 == [c EXCEPT !.lvl = 1, !.pc = "deltrees"]
  <2>1. cmd' = [cmd EXCEPT ![d] = c2]
    BY <1>0, <1>1 DEF RemoveOldCommit
  <2>2. c2.base = c.base /\ c2.pc = "deltrees" /\ c2.trees = c.trees /\ c2.blobs = c.blobs
    BY <1>0 DEF Command
  <2> HIDE DEF c2
  <2>3. /\ UNCHANGED <<obj, cloudHead, localHead>>
        /\ At(d, "delcommit") /\ remote' = remote \ {c.base}
    BY <1>1 DEF RemoveOldCommit, headVars
  <2>4. OthersStay(d) /\ cmd'[d] = c2
    BY <2>1, <2>3, OneCommand
  <2>5. /\ cmd'[d].pc \in {"deltrees", "exit"} /\ cmd'[d].base \in {0, cmd[d].base}
        /\ cmd'[d].trees \subseteq cmd[d].trees /\ cmd'[d].blobs \subseteq cmd[d].blobs
    BY <2>2, <2>4
  <2> QED
    BY <2>3, <2>4, <2>5, OldCommitGoes
<1>2. CASE OldCommitGone(d) \/ BlobGone(d) \/ Done(d)
  <2>1. Throw(d) \/ \E r : Finish(d, r)
    BY <1>2 DEF OldCommitGone, BlobGone, Done
  <2>2. UNCHANGED <<obj, remote, cloudHead, localHead>>
    BY <1>2 DEF OldCommitGone, BlobGone, Done, storeVars, headVars
  <2> QED
    BY <2>1, <2>2, SameStore, FinishStep
<1>3. CASE RemoveOldTree(d)
  <2>1. c.pc = "deltrees" /\ c.lvl \in 1..Len(c.old)
    BY <1>0, <1>3 DEF RemoveOldTree, At, CmdShape
  <2>2. ~IsCommit(c.old[c.lvl])
    BY <2>1, Known
  <2>3. /\ cmd' = [cmd EXCEPT ![d] = AfterOldTree(c)]
        /\ remote' = remote \ {c.old[c.lvl]} /\ UNCHANGED <<obj, cloudHead, localHead>>
    BY <1>3 DEF RemoveOldTree, headVars
  <2>4. StoreStays
    BY <2>2, <2>3, Deletes
  <2> QED
    BY <1>0, <2>1, <2>3, <2>4, OldTreeCmd, SameDeletions
<1>4. CASE RemoveSubtree(d)
  <2>1. PICK t \in c.trees : /\ remote' = remote \ {t}
                             /\ cmd' = [cmd EXCEPT ![d].trees = @ \ {t}]
    BY <1>4 DEF RemoveSubtree
  <2> DEFINE c2 == [c EXCEPT !.trees = c.trees \ {t}]
  <2>2. cmd' = [cmd EXCEPT ![d] = c2] /\ c.pc = "delremoved"
    BY <1>0, <1>4, <2>1 DEF RemoveSubtree, At
  <2>3. c2.base = c.base /\ c2.pc = c.pc /\ c2.trees = c.trees \ {t} /\ c2.blobs = c.blobs
    BY <1>0 DEF Command
  <2> HIDE DEF c2
  <2>4. UNCHANGED <<obj, cloudHead, localHead>> /\ ~IsCommit(t)
    BY <1>4 DEF RemoveSubtree, headVars, HeadInv, SparesCommits
  <2>5. StoreStays
    BY <2>1, <2>4, Deletes
  <2> QED
    BY <2>2, <2>3, <2>4, <2>5, SameDeletions DEF Working
<1>5. CASE RemoveBlob(d)
  <2>1. PICK b \in c.blobs \cap remote : /\ remote' = remote \ {b}
                                        /\ cmd' = [cmd EXCEPT ![d].blobs = @ \ {b}]
    BY <1>5 DEF RemoveBlob
  <2> DEFINE c2 == [c EXCEPT !.blobs = c.blobs \ {b}]
  <2>2. cmd' = [cmd EXCEPT ![d] = c2] /\ c.pc = "delremoved"
    BY <1>0, <1>5, <2>1 DEF RemoveBlob, At
  <2>3. c2.base = c.base /\ c2.pc = c.pc /\ c2.trees = c.trees /\ c2.blobs = c.blobs \ {b}
    BY <1>0 DEF Command
  <2> HIDE DEF c2
  <2>4. UNCHANGED <<obj, cloudHead, localHead>> /\ ~IsCommit(b)
    BY <1>5 DEF RemoveBlob, headVars, HeadInv, SparesCommits
  <2>5. StoreStays
    BY <2>1, <2>4, Deletes
  <2> QED
    BY <2>2, <2>3, <2>4, <2>5, SameDeletions DEF Working
<1> QED
  BY <1>1, <1>2, <1>3, <1>4, <1>5 DEF CleanUp

(* The end of a process, a crash, and the answer to rmdir's question *)
LEMMA ExitHead ==
  ASSUME NEW d \in Device, IInv, HeadInv, Exit(d) \/ Crash(d) PROVE HeadInv'
<1>1. cmd' = [cmd EXCEPT ![d] = FreshCmd("idle", "none", <<>>, "none")]
  BY DEF Exit, Crash, IdleCmd
<1>2. UNCHANGED <<obj, remote, cloudHead, localHead>>
  BY DEF Exit, Crash, storeVars, headVars
<1>3. StoreStays /\ HeadFollows(d)
  BY <1>2, SameStore DEF HeadFollows
<1> QED
  BY <1>1, <1>2, <1>3, FreshStep

LEMMA AnswerHead ==
  ASSUME NEW d \in Device, IInv, HeadInv, Answer(d) PROVE HeadInv'
<1>1. UNCHANGED <<obj, remote, cloudHead, localHead>>
  BY DEF Answer, ConfirmYes, ConfirmNo, storeVars, headVars
<1>2. StoreStays /\ HeadFollows(d)
  BY <1>1, SameStore DEF HeadFollows
<1>3. CASE ConfirmYes(d)
  <2>1. cmd' = [cmd EXCEPT ![d] = FreshCmd("head", "rmdirall", cmd[d].path, "none")]
    BY <1>3 DEF ConfirmYes
  <2> QED
    BY <1>1, <1>2, <2>1, FreshStep
<1>4. CASE ConfirmNo(d)
  BY <1>1, <1>2, <1>4, FinishStep DEF ConfirmNo
<1> QED
  BY <1>3, <1>4 DEF Answer

LEMMA PoolHead ==
  ASSUME NEW d \in Device, IInv, HeadInv, Upload(d) \/ UploadFails(d) PROVE HeadInv'
<1>1. UNCHANGED <<obj, cmd, cloudHead, localHead>> /\ remote \subseteq remote'
  BY DEF Upload, UploadFails, storeVars, headVars
<1>2. StoreStays
  BY <1>1 DEF StoreStays
<1> QED
  BY <1>1, <1>2, NoCommand

(* A call that fails, and a put of an object whose reply is lost *)
LEMMA CallFailsHead ==
  ASSUME NEW d \in Device, IInv, HeadInv, CallFails(d) \/ PutReplyLost(d) PROVE HeadInv'
<1>1. UNCHANGED <<cloudHead, localHead>> /\ (Throw(d) \/ \E r : Finish(d, r))
  BY DEF CallFails, PutReplyLost, headVars
<1>2. CASE CallFails(d)
  BY <1>1, <1>2, SameStore, FinishStep DEF CallFails, storeVars
<1>3. CASE PutReplyLost(d)
  <2>1. \E o : obj' = Append(obj, o)
    BY <1>3 DEF PutReplyLost, EncryptTree, EncryptCommit, Encrypt
  <2>2. remote \subseteq remote'
    BY <1>3 DEF PutReplyLost, Put
  <2>3. StoreStays
    BY <2>1, <2>2, Appended
  <2> QED
    BY <1>1, <2>3, FinishStep
<1> QED
  BY <1>2, <1>3

(* HEAD moves, or the old commit or a blob goes, and the reply is lost *)
LEMMA EffectLostHead ==
  ASSUME NEW d \in Device, IInv, HeadInv, HeadReplyLost(d) \/ RemoveReplyLost(d) PROVE HeadInv'
<1>0. Throw(d) /\ UNCHANGED <<obj, localHead>>
  BY DEF HeadReplyLost, RemoveReplyLost, storeVars, headVars
<1>1. cmd' = [cmd EXCEPT ![d] = FreshCmd("exit", "none", <<>>, "error")]
  BY <1>0 DEF Throw, Finish
<1>2. OthersStay(d) /\ cmd'[d] = FreshCmd("exit", "none", <<>>, "error")
  BY <1>0, <1>1, OneCommand
<1>3. cmd'[d].pc = "exit" /\ cmd'[d].base = 0 /\ cmd'[d].trees = {} /\ cmd'[d].blobs = {}
  BY <1>2 DEF FreshCmd
<1>4. /\ cmd'[d].base \in {0, cmd[d].base}
      /\ cmd'[d].trees \subseteq cmd[d].trees /\ cmd'[d].blobs \subseteq cmd[d].blobs
  BY <1>3
<1>5. CASE HeadReplyLost(d)
  <2>1. /\ UNCHANGED <<obj, remote, localHead>>
        /\ At(d, "cloudhead") /\ cloudHead' = cmd[d].newc
    BY <1>5 DEF HeadReplyLost, storeVars
  <2> QED
    BY <1>2, <1>3, <1>4, <2>1, HeadMoves
<1>6. CASE RemoveReplyLost(d)
  <2>1. UNCHANGED <<obj, cloudHead, localHead>>
    BY <1>6 DEF RemoveReplyLost, headVars
  <2>2. CASE At(d, "delcommit") /\ remote' = remote \ {cmd[d].base}
    BY <1>2, <1>3, <1>4, <2>1, <2>2, OldCommitGoes
  <2>3. CASE \E b \in cmd[d].blobs : remote' = remote \ {b}
    <3>1. PICK b \in cmd[d].blobs : remote' = remote \ {b}
      BY <2>3
    <3>2. ~IsCommit(b)
      BY DEF HeadInv, SparesCommits
    <3>3. StoreStays
      BY <2>1, <3>1, <3>2, Deletes
    <3> QED
      BY <1>0, <2>1, <3>3, FinishStep
  <2> QED
    BY <1>6, <2>2, <2>3 DEF RemoveReplyLost
<1> QED
  BY <1>5, <1>6

LEMMA TreeRemoveFailsHead ==
  ASSUME NEW d \in Device, IInv, HeadInv, TreeRemoveFails(d) PROVE HeadInv'
<1>0. cmd[d] \in Command /\ cmd \in [Device -> Command]
  BY Facts
<1> DEFINE c == cmd[d]
<1>1. UNCHANGED <<obj, remote, cloudHead, localHead>>
  BY DEF TreeRemoveFails, storeVars, headVars
<1>2. StoreStays
  BY <1>1, SameStore
<1>3. CASE c.pc = "deltrees" /\ cmd' = [cmd EXCEPT ![d] = AfterOldTree(c)]
  BY <1>0, <1>1, <1>2, <1>3, OldTreeCmd, SameDeletions
<1>4. CASE c.pc = "delremoved" /\ \E t \in c.trees : cmd' = [cmd EXCEPT ![d].trees = @ \ {t}]
  <2>1. PICK t \in c.trees : cmd' = [cmd EXCEPT ![d].trees = @ \ {t}]
    BY <1>4
  <2> DEFINE c2 == [c EXCEPT !.trees = c.trees \ {t}]
  <2>2. cmd' = [cmd EXCEPT ![d] = c2]
    BY <1>0, <2>1
  <2>3. c2.base = c.base /\ c2.pc = c.pc /\ c2.trees = c.trees \ {t} /\ c2.blobs = c.blobs
    BY <1>0 DEF Command
  <2> HIDE DEF c2
  <2> QED
    BY <1>1, <1>2, <1>4, <2>2, <2>3, SameDeletions DEF Working
<1> QED
  BY <1>3, <1>4 DEF TreeRemoveFails, At

LEMMA LocalHeadTornHead ==
  ASSUME NEW d \in Device, IInv, HeadInv, LocalHeadTorn(d) \/ DiesWritingHead(d) PROVE HeadInv'
<1>0. cmd[d] \in Command /\ cmd \in [Device -> Command]
  BY Facts
<1>1. UNCHANGED <<obj, remote, cloudHead>> /\ localHead' = [localHead EXCEPT ![d] = TornHead]
  BY DEF LocalHeadTorn, DiesWritingHead, storeVars
<1>2. HeadFollows(d) /\ StoreStays
  BY <1>1, Facts, SameStore DEF HeadFollows, TypeOK
<1>3. CASE LocalHeadTorn(d)
  <2> DEFINE c2 == [cmd[d] EXCEPT !.pc = "cloudhead"]
  <2>1. cmd' = [cmd EXCEPT ![d] = c2] /\ cmd[d].pc = "localhead"
    BY <1>0, <1>3 DEF LocalHeadTorn, At
  <2>2. /\ c2.base = cmd[d].base /\ c2.pc = "cloudhead" /\ c2.newc = cmd[d].newc
        /\ c2.trees = cmd[d].trees /\ c2.blobs = cmd[d].blobs
    BY <1>0 DEF Command
  <2> HIDE DEF c2
  <2>3. OthersStay(d) /\ cmd'[d] = c2
    BY <1>1, <2>1, OneCommand
  <2>4. NothingNew(d)
    BY <2>1, <2>2, <2>3 DEF NothingNew, Publishing
  <2>5. Spares(d)
    BY <2>2, <2>3, Known DEF Spares, HeadInv, SparesCommits
  <2> QED
    BY <1>1, <1>2, <2>3, <2>4, <2>5, QuietStep
<1>4. CASE DiesWritingHead(d)
  <2>1. cmd' = [cmd EXCEPT ![d] = FreshCmd("idle", "none", <<>>, "none")]
    BY <1>4 DEF DiesWritingHead, IdleCmd
  <2> QED
    BY <1>1, <1>2, <2>1, FreshStep
<1> QED
  BY <1>3, <1>4

LEMMA InitHeadInv == Init => HeadInv
  BY ConstantsAssumption
     DEF Init, HeadInv, HeadCommitExists, Private, Outdated, SparesCommits, At, IdleCmd, FreshCmd,
         Publishing

LEMMA NextHeadInv == IInv /\ HeadInv /\ [Next]_vars => HeadInv'
<1> SUFFICES ASSUME IInv, HeadInv, [Next]_vars PROVE HeadInv'
  OBVIOUS
<1>1. ASSUME NEW d \in Device, Start(d) \/ Proceed(d) \/ Answer(d) \/ Upload(d) PROVE HeadInv'
  BY <1>1, StartHead, PrepareHead, WalkHead, PublishHead, CleanUpHead, ExitHead, AnswerHead,
     PoolHead DEF Proceed
<1>2. ASSUME NEW d \in Device, Fail(d) PROVE HeadInv'
  BY <1>2, PoolHead, CallFailsHead, EffectLostHead, TreeRemoveFailsHead, LocalHeadTornHead,
     StartHead, ExitHead DEF Fail
<1>3. CASE UNCHANGED vars
  <2>1. UNCHANGED <<obj, remote, cloudHead, localHead, cmd>>
    BY <1>3 DEF vars, storeVars, headVars
  <2> QED
    BY <2>1 DEF HeadInv, HeadCommitExists, Private, Outdated, SparesCommits, At, IsCommit
<1> QED
  BY <1>1, <1>2, <1>3 DEF Next

(* The commit that the cloud HEAD names is in the cloud, whatever devices work from
   stale HEADs at the same time and whatever calls fail: store_commit puts a commit
   before write_head names it, and each command deletes the commit it started from
   only after the cloud HEAD has moved to a commit of its own. *)
THEOREM HeadNamesStoredCommit == Spec => []HeadCommitExists
<1>1. Init => IInv /\ HeadInv
  BY InitIInv, InitHeadInv
<1>2. IInv /\ HeadInv /\ [Next]_vars => (IInv /\ HeadInv)'
  BY NextIInv, NextHeadInv
<1>3. HeadInv => HeadCommitExists
  BY DEF HeadInv
<1> QED
  BY <1>1, <1>2, <1>3, PTL DEF Spec

----------------------------------------------------------------------------
(* One command at a time, and a sync before another device is used: no       *)
(* published snapshot, and none a device works from, loses an object.  On    *)
(* top of IInv, the invariant says that only the owner runs a command,       *)
(* and what the command has in hand is in the store, or on its way.  Nothing *)
(* is deleted before both HEADs name the new commit.                         *)

Available == remote \cup unsent
Safe(h)   == reach[h] \subseteq Available

Deleting == {"delcommit", "deltrees", "delremoved"}

Serial == \A d \in Device : At(d, "idle") \/ d = owner

HeadsSafe == \A h \in {cloudHead, localHead[owner]} \ {NoHead, TornHead} : Safe(h)

Holds(d) ==
  /\ cmd[d].pc \in {"blob", "leaf", "walk"} => Safe(cmd[d].cur)
  /\ cmd[d].pc \in Building =>
       /\ \A i \in 1..Len(cmd[d].old) : Safe(cmd[d].old[i])
       /\ cmd[d].ret # 0 => Safe(cmd[d].ret)
  /\ cmd[d].pc \in {"localhead", "cloudhead"} => Safe(cmd[d].newc)
  /\ cmd[d].pc \in {"cloudhead"} \cup Deleting => localHead[d] \in {cmd[d].newc, TornHead}
  /\ cmd[d].pc \in Deleting => cloudHead = cmd[d].newc

SnapInv == Serial /\ HeadsSafe /\ \A d \in Device : Holds(d)

----------------------------------------------------------------------------
(* Steps that only add to the store *)

StoreGrew ==
  /\ Extends(obj, reach, obj', reach') \/ UNCHANGED <<obj, reach>>
  /\ Available \subseteq Available'

(* h is intact after the step *)
SafeNext(h) == reach'[h] \subseteq Available'

LEMMA SafeStays ==
  ASSUME IInv, StoreGrew, NEW h \in Hash, Safe(h)
  PROVE  SafeNext(h)
<1>1. Len(reach) = Len(obj)
  BY DEF IInv, StoreInv
<1>2. reach'[h] = reach[h]
  BY <1>1 DEF StoreGrew, Extends, Grows, Hash
<1> QED
  BY <1>2 DEF Safe, SafeNext, StoreGrew

(* The hashes that Holds and HeadsSafe are about *)
LEMMA InHand ==
  ASSUME IInv, NEW d \in Device
  PROVE  /\ cmd[d].pc \in {"blob", "leaf", "walk"} => cmd[d].cur \in Hash
         /\ \A i \in 1..Len(cmd[d].old) : cmd[d].old[i] \in Hash
         /\ cmd[d].ret # 0 => cmd[d].ret \in Hash
         /\ cmd[d].pc \in Committed => cmd[d].newc \in Hash
         /\ cloudHead \in Hash
         /\ localHead[d] \in Hash \cup {NoHead, TornHead}
<1>1. CmdShape(obj, cmd[d]) /\ TypeOK /\ Len(obj) \in Nat
  BY Facts
<1>2. /\ cmd[d].pc \in {"blob", "leaf", "walk"} => cmd[d].cur \in Hash
      /\ \A i \in 1..Len(cmd[d].old) : cmd[d].old[i] \in Hash
      /\ cmd[d].pc \in Committed => cmd[d].newc \in Hash
  BY <1>1 DEF CmdShape, TreeIn, CommitIn, Hash
<1>3. cmd[d].ret # 0 => cmd[d].ret \in Hash
  BY <1>1 DEF CmdShape, Hash
<1>4. cloudHead \in Hash /\ localHead[d] \in Hash \cup {NoHead, TornHead}
  BY <1>1 DEF TypeOK, Commits
<1> QED
  BY <1>2, <1>3, <1>4

LEMMA HeadsStay ==
  ASSUME IInv, HeadsSafe, StoreGrew, UNCHANGED <<cloudHead, localHead, owner>>
  PROVE  HeadsSafe'
<1>1. owner \in Device
  BY DEF IInv, TypeOK
<1>2. \A h \in {cloudHead, localHead[owner]} \ {NoHead, TornHead} : h \in Hash
  BY <1>1, InHand
<1> QED
  BY <1>2, SafeStays DEF HeadsSafe, Safe, SafeNext

LEMMA HoldsStays ==
  ASSUME IInv, NEW d \in Device, Holds(d), StoreGrew,
         cmd'[d] = cmd[d], UNCHANGED <<cloudHead, localHead>>
  PROVE  Holds(d)'
<1>1. {"localhead", "cloudhead"} \subseteq Committed
  BY DEF Committed
<1>2. cmd[d].pc \in {"blob", "leaf", "walk"} => SafeNext(cmd[d].cur)
  BY InHand, SafeStays DEF Holds
<1>3. cmd[d].pc \in Building =>
        (\A i \in 1..Len(cmd[d].old) : SafeNext(cmd[d].old[i]))
        /\ (cmd[d].ret # 0 => SafeNext(cmd[d].ret))
  BY InHand, SafeStays DEF Holds
<1>4. cmd[d].pc \in {"localhead", "cloudhead"} => SafeNext(cmd[d].newc)
  BY <1>1, InHand, SafeStays DEF Holds
<1> QED
  BY <1>2, <1>3, <1>4 DEF Holds, Safe, SafeNext

(* A step of the owner's command *)
LEMMA OwnerStep ==
  ASSUME NEW d \in Device, IInv, SnapInv, d = owner, UNCHANGED owner,
         NEW c2, cmd' = [cmd EXCEPT ![d] = c2], HeadsSafe', Holds(d)'
  PROVE  SnapInv'
<1>1. \A e \in Device \ {d} : cmd'[e] = cmd[e] /\ At(e, "idle")
  BY Facts DEF SnapInv, Serial, TypeOK
<1>2. \A e \in Device \ {d} : At(e, "idle")'
  BY <1>1 DEF At
<1>3. \A e \in Device \ {d} : Holds(e)'
  BY <1>2 DEF Holds, At, Building, Deleting
<1>4. Serial'
  BY <1>2 DEF Serial
<1> QED
  BY <1>3, <1>4 DEF SnapInv

LEMMA Moved ==
  ASSUME NEW d \in Device, IInv, NEW c2, cmd' = [cmd EXCEPT ![d] = c2]
  PROVE  cmd'[d] = c2
  BY Facts DEF TypeOK

(* A command that starts, starts over or ends has nothing in hand *)
LEMMA FreshSnap ==
  ASSUME NEW d \in Device, IInv, SnapInv, d = owner, UNCHANGED owner,
         NEW l \in {"idle", "exit", "head"}, NEW o, NEW q, NEW out,
         cmd' = [cmd EXCEPT ![d] = FreshCmd(l, o, q, out)], HeadsSafe'
  PROVE  SnapInv'
<1>0. cmd'[d] = FreshCmd(l, o, q, out)
  BY Moved
<1>1. cmd'[d].pc = l
  BY <1>0 DEF FreshCmd
<1>2. Holds(d)'
  BY <1>1 DEF Holds, Building, Deleting
<1> QED
  BY <1>2, OwnerStep

LEMMA ThrowSnap ==
  ASSUME NEW d \in Device, IInv, SnapInv, d = owner, UNCHANGED owner,
         Throw(d) \/ \E r : Finish(d, r), HeadsSafe'
  PROVE  SnapInv'
<1>1. PICK out : cmd' = [cmd EXCEPT ![d] = FreshCmd("exit", "none", <<>>, out)]
  BY DEF Throw, Finish
<1> QED
  BY <1>1, FreshSnap

(* Who runs a command is the owner *)
LEMMA RunsOwner ==
  ASSUME NEW d \in Device, SnapInv, cmd[d].pc # "idle"
  PROVE  d = owner
  BY DEF SnapInv, Serial, At
LEMMA SameObjects == ASSUME UNCHANGED <<obj, reach, remote, unsent>> PROVE StoreGrew
  BY DEF StoreGrew, Available

(* A step of a command that is building its new trees *)
LEMMA BuildStep ==
  ASSUME NEW d \in Device, IInv, SnapInv, cmd[d].pc # "idle", StoreGrew,
         UNCHANGED <<cloudHead, localHead, owner>>,
         NEW c2, cmd' = [cmd EXCEPT ![d] = c2],
         c2.pc \in Building \cup {"confirm"},
         c2.pc \in {"blob", "leaf", "walk"} => SafeNext(c2.cur),
         \A i \in 1..Len(c2.old) : SafeNext(c2.old[i]),
         c2.ret # 0 => SafeNext(c2.ret)
  PROVE  SnapInv'
<1>1. d = owner
  BY RunsOwner
<1>2. HeadsSafe'
  BY HeadsStay DEF SnapInv
<1>3. cmd'[d] = c2
  BY Moved
<1>4. c2.pc \notin {"localhead", "cloudhead"} \cup Deleting
  BY DEF Building, Deleting
<1>5. Holds(d)'
  BY <1>3, <1>4 DEF Holds, Safe, SafeNext
<1> QED
  BY <1>1, <1>2, <1>5, OwnerStep

(* What the command has in hand stays *)
LEMMA HandStays ==
  ASSUME NEW d \in Device, IInv, SnapInv, StoreGrew, cmd[d].pc \in Building
  PROVE  /\ cmd[d].pc \in {"blob", "leaf", "walk"} => SafeNext(cmd[d].cur)
         /\ \A i \in 1..Len(cmd[d].old) : SafeNext(cmd[d].old[i])
         /\ cmd[d].ret # 0 => SafeNext(cmd[d].ret)
<1>0. Holds(d)
  BY DEF SnapInv
<1>1. cmd[d].pc \in {"blob", "leaf", "walk"} => SafeNext(cmd[d].cur)
  BY <1>0, InHand, SafeStays DEF Holds
<1>2. \A i \in 1..Len(cmd[d].old) : SafeNext(cmd[d].old[i])
  BY <1>0, InHand, SafeStays DEF Holds
<1>3. cmd[d].ret # 0 => SafeNext(cmd[d].ret)
  BY <1>0, InHand, SafeStays DEF Holds
<1> QED
  BY <1>1, <1>2, <1>3

----------------------------------------------------------------------------
(* Every action keeps the invariant *)

LEMMA StartSnap ==
  ASSUME NEW d \in Device, IInv, SnapInv, Disciplined, Start(d) \/ SyncTorn(d) PROVE SnapInv'
<1>0. UNCHANGED <<obj, reach, remote, unsent, cloudHead>>
  BY DEF Start, Begin, Sync, InitExisting, SyncTorn, storeVars, headVars, poolVars
<1>1. CASE Begin(d)
  <2>1. PICK o \in Op, q \in Path : cmd' = [cmd EXCEPT ![d] = FreshCmd("head", o, q, "none")]
    BY <1>1 DEF Begin
  <2>2. d = owner /\ UNCHANGED <<localHead, owner>>
    BY <1>1 DEF Begin, headVars
  <2>3. HeadsSafe'
    BY <1>0, <2>2, SameObjects, HeadsStay DEF SnapInv
  <2> QED
    BY <2>1, <2>2, <2>3, FreshSnap
<1>2. CASE Sync(d) \/ InitExisting(d) \/ SyncTorn(d)
  <2>1. UNCHANGED cmd /\ \A e \in Device : At(e, "idle")
    BY <1>2 DEF Sync, InitExisting, SyncTorn, MayStart
  <2>2. Serial' /\ \A e \in Device : Holds(e)'
    BY <2>1 DEF Serial, At, Holds, Building, Deleting
  <2>3. /\ localHead \in [Device -> Commits \cup {NoHead, TornHead}] /\ owner \in Device
        /\ cloudHead \in Commits
    BY Facts DEF TypeOK
  <2>4. localHead'[owner'] \in {cloudHead, localHead[owner], NoHead, TornHead}
    BY <1>2, <2>3 DEF Sync, InitExisting, SyncTorn
  <2>5. HeadsSafe'
    BY <1>0, <2>4 DEF SnapInv, HeadsSafe, Safe, Available
  <2> QED
    BY <2>2, <2>5 DEF SnapInv
<1> QED
  BY <1>1, <1>2 DEF Start

LEMMA PrepareSnap ==
  ASSUME NEW d \in Device, IInv, SnapInv, Disciplined, Prepare(d) PROVE SnapInv'
<1>0. cmd[d] \in Command /\ cmd \in [Device -> Command] /\ CmdShape(obj, cmd[d])
  BY Facts
<1> DEFINE c == cmd[d]
<1>1. CASE ReadHead(d)
  <2> DEFINE next == CASE c.op = "add"   -> "blob"
                       [] c.op = "mkdir" -> "leaf"
                       [] OTHER          -> "walk"
             c2   == [c EXCEPT !.base = localHead[d], !.cur = obj[localHead[d]].root, !.pc = next]
  <2>1. next \in {"blob", "leaf", "walk"}
    OBVIOUS
  <2>2. cmd' = [cmd EXCEPT ![d] = c2] /\ c.pc = "head"
    BY <1>0, <1>1 DEF ReadHead, At
  <2> HIDE DEF next
  <2>3. c2.cur = obj[localHead[d]].root /\ c2.pc = next /\ c2.old = c.old /\ c2.ret = c.ret
    BY <1>0 DEF Command
  <2> HIDE DEF c2
  <2>4. c.old = <<>> /\ c.ret = 0
    BY <1>0, <2>2 DEF CmdShape
  <2>5. UNCHANGED <<obj, reach, remote, unsent>> /\ UNCHANGED <<cloudHead, localHead, owner>>
    BY <1>1 DEF ReadHead, storeVars, headVars, poolVars
  <2>6. CommitIn(obj, localHead[d])
    BY <1>1, Facts, HeadIsCommit DEF ReadHead
  <2>7. /\ reach[localHead[d]] = {localHead[d]} \cup reach[obj[localHead[d]].root]
    BY <2>6, Facts DEF CommitIn, StoreInv, ObjectInv
  <2>8. localHead[d] \notin {NoHead, TornHead}
    BY <2>6, ConstantsAssumption DEF CommitIn
  <2>9. d = owner /\ Safe(localHead[d])
    BY <2>2, <2>8, RunsOwner DEF SnapInv, HeadsSafe
  <2>10. SafeNext(obj[localHead[d]].root)
    BY <2>5, <2>7, <2>9 DEF Safe, SafeNext, Available
  <2>11. StoreGrew
    BY <2>5, SameObjects
  <2>12. 1..Len(c2.old) = {}
    BY <2>3, <2>4, NoHashes
  <2> QED
    BY <2>1, <2>2, <2>3, <2>4, <2>5, <2>10, <2>11, <2>12, BuildStep DEF Building
<1>2. CASE ReadHeadMissing(d) \/ ReadHeadInvalid(d)
  <2>1. (Throw(d) \/ \E r : Finish(d, r)) /\ c.pc # "idle"
    BY <1>2 DEF ReadHeadMissing, ReadHeadInvalid, At
  <2>2. UNCHANGED <<obj, reach, remote, unsent>> /\ UNCHANGED <<cloudHead, localHead, owner>>
    BY <1>2 DEF ReadHeadMissing, ReadHeadInvalid, storeVars, headVars, poolVars
  <2>3. HeadsSafe' /\ d = owner
    BY <2>1, <2>2, SameObjects, HeadsStay, RunsOwner DEF SnapInv
  <2> QED
    BY <2>1, <2>2, <2>3, ThrowSnap
<1>3. CASE StoreBlob(d) \/ StoreLeaf(d)
  <2> DEFINE c2 == [c EXCEPT !.ret = NextHash, !.pc = "walk"]
  <2>1. cmd' = [cmd EXCEPT ![d] = c2] /\ c.pc \in {"blob", "leaf"}
    BY <1>0, <1>3 DEF StoreBlob, StoreLeaf, At
  <2>2. c2.pc = "walk" /\ c2.ret = NextHash /\ c2.cur = c.cur /\ c2.old = c.old
    BY <1>0 DEF Command
  <2> HIDE DEF c2
  <2>3. /\ Extends(obj, reach, obj', reach') /\ reach'[NextHash] = {NextHash}
        /\ Available' = Available \cup {NextHash}
    <3>1. CASE StoreBlob(d)
      <4>1. Extends(obj, reach, obj', reach') /\ reach'[Len(obj')] = {Len(obj')}
        BY <3>1, Facts, NewBlob DEF StoreBlob, Encrypt, NextHash
      <4>2. Len(obj') = NextHash
        BY <4>1 DEF Extends, Grows, NextHash
      <4>3. Available' = Available \cup {NextHash}
        BY <3>1 DEF StoreBlob, Available
      <4> QED
        BY <4>1, <4>2, <4>3
    <3>2. CASE StoreLeaf(d)
      <4>1. /\ Extends(obj, reach, obj', reach') /\ reach'[Len(obj')] = {Len(obj')}
            /\ Len(obj') = NextHash
        BY <3>2, EmptyTreeStored DEF StoreLeaf
      <4>2. Available' = Available \cup {NextHash}
        BY <3>2 DEF StoreLeaf, Put, Available, poolVars
      <4> QED
        BY <4>1, <4>2
    <3> QED
      BY <1>3, <3>1, <3>2
  <2>4. UNCHANGED <<cloudHead, localHead, owner>>
    BY <1>3 DEF StoreBlob, StoreLeaf, headVars
  <2>5. StoreGrew
    BY <2>3 DEF StoreGrew
  <2>6. SafeNext(NextHash)
    BY <2>3 DEF SafeNext
  <2>7. SafeNext(c.cur) /\ \A i \in 1..Len(c.old) : SafeNext(c.old[i])
    BY <2>1, <2>5, HandStays DEF Building
  <2>8. c2.pc \in Building \cup {"confirm"} /\ c.pc # "idle"
    BY <2>1, <2>2 DEF Building
  <2>9. SafeNext(c2.cur) /\ (\A i \in 1..Len(c2.old) : SafeNext(c2.old[i])) /\ SafeNext(c2.ret)
    BY <2>2, <2>6, <2>7
  <2> QED
    BY <2>1, <2>4, <2>5, <2>8, <2>9, BuildStep
<1> QED
  BY <1>1, <1>2, <1>3 DEF Prepare

(* A command that fails or ends, with no effect on the store or the HEADs *)
LEMMA QuietEnd ==
  ASSUME NEW d \in Device, IInv, SnapInv, cmd[d].pc # "idle",
         Throw(d) \/ \E r : Finish(d, r),
         StoreGrew, UNCHANGED <<cloudHead, localHead, owner>>
  PROVE  SnapInv'
<1>1. HeadsSafe' /\ d = owner
  BY HeadsStay, RunsOwner DEF SnapInv
<1> QED
  BY <1>1, ThrowSnap

(* The entry of an intact tree is intact, and so is the path once the tree is on it *)
LEMMA EntrySafe ==
  ASSUME NEW d \in Device, IInv, SnapInv, Loaded(d), Entry(cmd[d]) # 0
  PROVE  /\ Entry(cmd[d]) \in Hash
         /\ Safe(Entry(cmd[d]))
<1> DEFINE c == cmd[d]
<1>0. StoreInv(obj, reach) /\ obj \in Seq(Object) /\ reach \in Seq(SUBSET Nat)
      /\ c \in Command /\ CmdShape(obj, c)
  BY Facts
<1>1. c.pc = "walk" /\ Safe(c.cur)
  BY DEF Loaded, At, SnapInv, Holds
<1>2. /\ Entry(c) \in 1..Len(obj)
      /\ \A x \in reach[Entry(c)] : Under(obj, reach, c.cur, c.path[Level(c)], x)
  BY <1>0, <1>1, EntryKnown DEF Entry
<1>3. TreeIn(obj, c.cur) /\ c.path[Level(c)] \in Name
  <2>1. /\ TreeIn(obj, c.cur) /\ c.path \in Path /\ Len(c.old) < Len(c.path)
        /\ Len(c.old) \in Nat
    BY <1>0, <1>1 DEF CmdShape, Command
  <2>2. Len(c.path) \in Nat /\ \A i \in 1..Len(c.path) : c.path[i] \in Name
    BY <2>1, PathFacts
  <2>3. Level(c) \in 1..Len(c.path)
    BY <2>1, <2>2 DEF Level
  <2> QED
    BY <2>1, <2>2, <2>3
<1>4. reach[Entry(c)] \subseteq reach[c.cur]
  BY <1>0, <1>2, <1>3 DEF StoreInv, TreeIn, ObjectInv
<1> QED
  BY <1>1, <1>2, <1>4 DEF Safe, Hash

LEMMA PushSafe ==
  ASSUME NEW d \in Device, IInv, SnapInv, cmd[d].pc = "walk", StoreGrew,
         NEW s, s = Append(cmd[d].old, cmd[d].cur)
  PROVE  /\ \A i \in 1..Len(s) : SafeNext(s[i])
         /\ SafeNext(cmd[d].cur)
         /\ cmd[d].ret # 0 => SafeNext(cmd[d].ret)
<1>1. cmd[d].old \in Seq(Nat) /\ Len(cmd[d].old) \in Nat
  BY Facts DEF Command
<1>2. /\ \A i \in 1..Len(cmd[d].old) : SafeNext(cmd[d].old[i])
      /\ SafeNext(cmd[d].cur) /\ (cmd[d].ret # 0 => SafeNext(cmd[d].ret))
  BY HandStays DEF Building
<1>3. Len(s) = Len(cmd[d].old) + 1 /\ s[Len(s)] = cmd[d].cur
      /\ \A i \in 1..Len(cmd[d].old) : s[i] = cmd[d].old[i]
  BY <1>1
<1>4. \A i \in 1..Len(s) : i = Len(s) \/ i \in 1..Len(cmd[d].old)
  BY <1>1, <1>3
<1> QED
  BY <1>2, <1>3, <1>4

LEMMA WalkSnap ==
  ASSUME NEW d \in Device, IInv, SnapInv, Walk(d) PROVE SnapInv'
<1>0. cmd[d] \in Command /\ cmd \in [Device -> Command] /\ CmdShape(obj, cmd[d])
  BY Facts
<1> DEFINE c == cmd[d]
           pushed == Append(c.old, c.cur)
<1>l. ASSUME Loaded(d) PROVE c.pc = "walk" /\ c.pc # "idle"
  BY <1>l DEF Loaded, At
<1>1. CASE LoadTreeMissing(d) \/ RejectEntry(d)
  <2>1. Throw(d) /\ c.pc # "idle"
    BY <1>1, <1>l DEF LoadTreeMissing, RejectEntry, At
  <2>2. UNCHANGED <<obj, reach, remote, unsent>> /\ UNCHANGED <<cloudHead, localHead, owner>>
    BY <1>1 DEF LoadTreeMissing, RejectEntry, storeVars, headVars, poolVars
  <2> QED
    BY <2>1, <2>2, SameObjects, QuietEnd
<1>2. CASE Descend(d)
  <2> DEFINE c2 == [c EXCEPT !.old = pushed, !.cur = Entry(c)]
  <2>1. cmd' = [cmd EXCEPT ![d] = c2] /\ Loaded(d) /\ Entry(c) # 0
    BY <1>0, <1>2 DEF Descend, IsTree
  <2>2. c2.pc = "walk" /\ c2.ret = c.ret /\ c2.cur = Entry(c) /\ c2.old = pushed
    BY <1>0, <1>l, <2>1 DEF Command
  <2> HIDE DEF c2
  <2>3. UNCHANGED <<obj, reach, remote, unsent>> /\ UNCHANGED <<cloudHead, localHead, owner>>
    BY <1>2 DEF Descend, storeVars, headVars, poolVars
  <2>4. StoreGrew
    BY <2>3, SameObjects
  <2>5. SafeNext(Entry(c))
    BY <2>1, <2>4, EntrySafe, SafeStays
  <2>6. /\ \A i \in 1..Len(pushed) : SafeNext(pushed[i])
        /\ c.ret # 0 => SafeNext(c.ret)
    BY <1>l, <2>1, <2>4, PushSafe
  <2> HIDE DEF pushed
  <2>7. /\ c2.pc \in Building \cup {"confirm"} /\ c.pc # "idle"
        /\ SafeNext(c2.cur) /\ (\A i \in 1..Len(c2.old) : SafeNext(c2.old[i]))
        /\ (c2.ret # 0 => SafeNext(c2.ret))
    BY <1>l, <2>1, <2>2, <2>5, <2>6 DEF Building
  <2> QED
    BY <2>1, <2>3, <2>4, <2>7, BuildStep
<1>3. CASE MissingParent(d)
  <2> DEFINE c2 == [c EXCEPT !.old = pushed, !.pc = "parent"]
  <2>1. cmd' = [cmd EXCEPT ![d] = c2] /\ Loaded(d)
    BY <1>0, <1>3 DEF MissingParent
  <2>2. c2.pc = "parent" /\ c2.ret = c.ret /\ c2.old = pushed
    BY <1>0, <1>l, <2>1 DEF Command
  <2> HIDE DEF c2
  <2>3. UNCHANGED <<obj, reach, remote, unsent>> /\ UNCHANGED <<cloudHead, localHead, owner>>
    BY <1>3 DEF MissingParent, storeVars, headVars, poolVars
  <2>4. StoreGrew
    BY <2>3, SameObjects
  <2>6. /\ \A i \in 1..Len(pushed) : SafeNext(pushed[i])
        /\ c.ret # 0 => SafeNext(c.ret)
    BY <1>l, <2>1, <2>4, PushSafe
  <2> HIDE DEF pushed
  <2>7. /\ c2.pc \in Building \cup {"confirm"} /\ c2.pc \notin {"blob", "leaf", "walk"}
        /\ c.pc # "idle" /\ (\A i \in 1..Len(c2.old) : SafeNext(c2.old[i]))
        /\ (c2.ret # 0 => SafeNext(c2.ret))
    BY <1>l, <2>1, <2>2, <2>6 DEF Building
  <2> QED
    BY <2>1, <2>3, <2>4, <2>7, BuildStep
<1>4. CASE StoreParent(d)
  <2> DEFINE c2 == [c EXCEPT !.cur = NextHash, !.pc = "walk"]
  <2>1. cmd' = [cmd EXCEPT ![d] = c2] /\ c.pc = "parent"
    BY <1>0, <1>4 DEF StoreParent, At
  <2>2. c2.pc = "walk" /\ c2.ret = c.ret /\ c2.cur = NextHash /\ c2.old = c.old
    BY <1>0 DEF Command
  <2> HIDE DEF c2
  <2>3. /\ Extends(obj, reach, obj', reach') /\ reach'[NextHash] = {NextHash}
    BY <1>4, EmptyTreeStored DEF StoreParent
  <2>4. Available' = Available \cup {NextHash} /\ UNCHANGED <<cloudHead, localHead, owner>>
    BY <1>4 DEF StoreParent, Put, Available, headVars, poolVars
  <2>5. StoreGrew
    BY <2>3, <2>4 DEF StoreGrew
  <2>6. SafeNext(NextHash)
    BY <2>3, <2>4 DEF SafeNext
  <2>7. (\A i \in 1..Len(c.old) : SafeNext(c.old[i])) /\ (c.ret # 0 => SafeNext(c.ret))
    BY <2>1, <2>5, HandStays DEF Building
  <2>8. /\ c2.pc \in Building \cup {"confirm"} /\ c.pc # "idle"
        /\ SafeNext(c2.cur) /\ (\A i \in 1..Len(c2.old) : SafeNext(c2.old[i]))
        /\ (c2.ret # 0 => SafeNext(c2.ret))
    BY <2>1, <2>2, <2>6, <2>7 DEF Building
  <2> QED
    BY <2>1, <2>4, <2>5, <2>8, BuildStep
<1>5. CASE LeafUpsert(d) \/ LeafRemove(d) \/ LeafRmdir(d)
  <2>1. PICK r, T, B : r \in {c.ret, 0} /\ cmd' = [cmd EXCEPT ![d] = Edited(@, r, T, B)]
    BY <1>5 DEF LeafUpsert, LeafRemove, LeafRmdir
  <2> DEFINE c2 == Edited(c, r, T, B)
  <2>2. cmd' = [cmd EXCEPT ![d] = c2] /\ Loaded(d)
    BY <1>0, <1>5, <2>1 DEF LeafUpsert, LeafRemove, LeafRmdir, RmdirTarget
  <2>3. c2.pc = "store" /\ c2.ret = r /\ c2.old = pushed
    BY <1>0 DEF Command, Edited
  <2> HIDE DEF c2
  <2>4. UNCHANGED <<obj, reach, remote, unsent>> /\ UNCHANGED <<cloudHead, localHead, owner>>
    BY <1>5 DEF LeafUpsert, LeafRemove, LeafRmdir, storeVars, headVars, poolVars
  <2>5. StoreGrew
    BY <2>4, SameObjects
  <2>6. /\ \A i \in 1..Len(pushed) : SafeNext(pushed[i])
        /\ c.ret # 0 => SafeNext(c.ret)
    BY <1>l, <2>2, <2>5, PushSafe
  <2> HIDE DEF pushed
  <2>7. /\ c2.pc \in Building \cup {"confirm"} /\ c2.pc \notin {"blob", "leaf", "walk"}
        /\ c.pc # "idle" /\ (\A i \in 1..Len(c2.old) : SafeNext(c2.old[i]))
        /\ (c2.ret # 0 => SafeNext(c2.ret))
    BY <1>l, <2>1, <2>2, <2>3, <2>6 DEF Building
  <2> QED
    BY <2>2, <2>4, <2>5, <2>7, BuildStep
<1>6. CASE AskConfirm(d)
  <2> DEFINE c2 == [c EXCEPT !.pc = "confirm"]
  <2>1. cmd' = [cmd EXCEPT ![d] = c2] /\ Loaded(d)
    BY <1>0, <1>6 DEF AskConfirm, RmdirTarget
  <2>2. c2.pc = "confirm" /\ c2.ret = c.ret /\ c2.old = c.old
    BY <1>0 DEF Command
  <2> HIDE DEF c2
  <2>3. UNCHANGED <<obj, reach, remote, unsent>> /\ UNCHANGED <<cloudHead, localHead, owner>>
    BY <1>6 DEF AskConfirm, storeVars, headVars, poolVars
  <2>4. StoreGrew
    BY <2>3, SameObjects
  <2>5. (\A i \in 1..Len(c.old) : SafeNext(c.old[i])) /\ (c.ret # 0 => SafeNext(c.ret))
    BY <1>l, <2>1, <2>4, HandStays DEF Building
  <2>6. /\ c2.pc \in Building \cup {"confirm"} /\ c2.pc \notin {"blob", "leaf", "walk"}
        /\ c.pc # "idle" /\ (\A i \in 1..Len(c2.old) : SafeNext(c2.old[i]))
        /\ (c2.ret # 0 => SafeNext(c2.ret))
    BY <1>l, <2>1, <2>2, <2>5
  <2> QED
    BY <2>1, <2>3, <2>4, <2>6, BuildStep
<1> QED
  BY <1>1, <1>2, <1>3, <1>4, <1>5, <1>6 DEF Walk

(* The new tree of a level reaches what hangs off the path there, which the old tree
   reaches as well, and what the level below returned. *)
LEMMA LevelTreeSafe ==
  ASSUME NEW d \in Device, IInv, SnapInv, At(d, "store"), EncryptTree(NewDir(cmd[d])), Put,
         UNCHANGED <<unsent>>
  PROVE  StoreGrew /\ SafeNext(NextHash)
<1> DEFINE c == cmd[d]
<1>0. /\ StoreInv(obj, reach) /\ obj \in Seq(Object) /\ reach \in Seq(SUBSET Nat)
      /\ c \in Command /\ CmdShape(obj, c) /\ Apart(obj, reach, c)
  BY Facts
<1>1. /\ Extends(obj, reach, obj', reach')
      /\ reach'[NextHash] = {NextHash} \cup BelowDir(reach, LevelDir(obj, c))
  BY LevelTreeStored
<1>2. Available' = Available \cup {NextHash}
  BY DEF Put, Available
<1>3. c.pc = "store" /\ c.lvl \in 1..Len(c.old) /\ TreeIn(obj, c.old[c.lvl])
  BY <1>0 DEF At, CmdShape
<1>4. Safe(c.old[c.lvl]) /\ (c.ret # 0 => Safe(c.ret))
  BY <1>3 DEF SnapInv, Holds, Building
<1>5. ASSUME NEW x, Beside(obj, reach, c, c.lvl, x) PROVE x \in reach[c.old[c.lvl]]
  BY <1>0, <1>3, <1>5 DEF Beside, StoreInv, ObjectInv, TreeIn
<1>6. ASSUME NEW x \in BelowDir(reach, LevelDir(obj, c)) PROVE x \in Available
  <2>1. Beside(obj, reach, c, c.lvl, x) \/ Returned(reach, c, x)
    BY <1>0, <1>3, <1>6, LevelDirFacts
  <2> QED
    BY <1>4, <1>5, <2>1 DEF Returned, Safe
<1> QED
  BY <1>1, <1>2, <1>6 DEF StoreGrew, SafeNext

LEMMA NewCommitSafe ==
  ASSUME NEW d \in Device, IInv, SnapInv, At(d, "commit"), EncryptCommit(cmd[d].ret), Put,
         UNCHANGED <<unsent>>
  PROVE  StoreGrew /\ SafeNext(NextHash)
<1>1. /\ Extends(obj, reach, obj', reach')
      /\ reach'[NextHash] = {NextHash} \cup reach[cmd[d].ret]
  BY CommitStored
<1>2. Available' = Available \cup {NextHash}
  BY DEF Put, Available
<1>3. cmd[d].ret # 0
  BY Facts DEF At, CmdShape, TreeIn
<1>4. Safe(cmd[d].ret)
  BY <1>3 DEF SnapInv, Holds, Building, At
<1> QED
  BY <1>1, <1>2, <1>4 DEF StoreGrew, SafeNext, Safe

LEMMA PublishSnap ==
  ASSUME NEW d \in Device, IInv, SnapInv, Publish(d) PROVE SnapInv'
<1>0. /\ cmd[d] \in Command /\ cmd \in [Device -> Command] /\ CmdShape(obj, cmd[d])
      /\ localHead \in [Device -> Commits \cup {NoHead, TornHead}] /\ Holds(d)
  BY Facts DEF TypeOK, SnapInv
<1> DEFINE c == cmd[d]
<1>1. CASE StoreTree(d)
  <2> DEFINE l  == IF c.lvl = 1 THEN "commit" ELSE "store"
             c2 == [c EXCEPT !.ret = NextHash, !.lvl = c.lvl - 1, !.pc = l]
  <2>1. cmd' = [cmd EXCEPT ![d] = c2] /\ c.pc = "store"
    BY <1>0, <1>1 DEF StoreTree, At
  <2>2. l \in {"commit", "store"}
    OBVIOUS
  <2> HIDE DEF l
  <2>3. c2.pc = l /\ c2.ret = NextHash /\ c2.old = c.old
    BY <1>0 DEF Command
  <2> HIDE DEF c2
  <2>4. StoreGrew /\ SafeNext(NextHash)
    BY <1>1, LevelTreeSafe DEF StoreTree, poolVars
  <2>5. UNCHANGED <<cloudHead, localHead, owner>>
    BY <1>1 DEF StoreTree, headVars
  <2>6. \A i \in 1..Len(c.old) : SafeNext(c.old[i])
    BY <2>1, <2>4, HandStays DEF Building
  <2>7. /\ c2.pc \in Building \cup {"confirm"} /\ c2.pc \notin {"blob", "leaf", "walk"}
        /\ c.pc # "idle" /\ (\A i \in 1..Len(c2.old) : SafeNext(c2.old[i]))
        /\ (c2.ret # 0 => SafeNext(c2.ret))
    BY <2>1, <2>2, <2>3, <2>4, <2>6 DEF Building
  <2> QED
    BY <2>1, <2>4, <2>5, <2>7, BuildStep
<1>2. CASE StoreCommit(d)
  <2> DEFINE c2 == [c EXCEPT !.newc = NextHash, !.pc = "localhead"]
  <2>1. cmd' = [cmd EXCEPT ![d] = c2] /\ c.pc = "commit"
    BY <1>0, <1>2 DEF StoreCommit, At
  <2>2. c2.pc = "localhead" /\ c2.newc = NextHash
    BY <1>0 DEF Command
  <2> HIDE DEF c2
  <2>3. StoreGrew /\ SafeNext(NextHash)
    BY <1>2, NewCommitSafe DEF StoreCommit, poolVars
  <2>4. UNCHANGED <<cloudHead, localHead, owner>>
    BY <1>2 DEF StoreCommit, headVars
  <2>5. HeadsSafe'
    BY <2>3, <2>4, HeadsStay DEF SnapInv
  <2>6. cmd'[d] = c2
    BY <2>1, Moved
  <2>7. Holds(d)'
    BY <2>2, <2>3, <2>6 DEF Holds, Safe, SafeNext, Building, Deleting
  <2>8. d = owner
    BY <2>1, RunsOwner
  <2> QED
    BY <2>1, <2>4, <2>5, <2>7, <2>8, OwnerStep
<1>3. CASE WriteLocalHead(d)
  <2> DEFINE c2 == [c EXCEPT !.pc = "cloudhead"]
  <2>1. cmd' = [cmd EXCEPT ![d] = c2] /\ c.pc = "localhead"
    BY <1>0, <1>3 DEF WriteLocalHead, At
  <2>2. c2.pc = "cloudhead" /\ c2.newc = c.newc
    BY <1>0 DEF Command
  <2> HIDE DEF c2
  <2>3. UNCHANGED <<obj, reach, remote, unsent>> /\ UNCHANGED <<cloudHead, owner>>
        /\ localHead' = [localHead EXCEPT ![d] = c.newc]
    BY <1>3 DEF WriteLocalHead, storeVars, poolVars
  <2>4. localHead'[d] = c.newc /\ d = owner /\ Safe(c.newc)
    BY <1>0, <2>1, <2>3, RunsOwner DEF Holds
  <2>5. HeadsSafe'
    BY <2>3, <2>4 DEF SnapInv, HeadsSafe, Safe, Available
  <2>6. cmd'[d] = c2
    BY <2>1, Moved
  <2>7. Holds(d)'
    BY <2>2, <2>3, <2>4, <2>6 DEF Holds, Safe, Available, Building, Deleting
  <2> QED
    BY <2>1, <2>3, <2>4, <2>5, <2>7, OwnerStep
<1>4. CASE PutCloudHead(d)
  <2> DEFINE c2 == [c EXCEPT !.pc = "delcommit"]
  <2>1. cmd' = [cmd EXCEPT ![d] = c2] /\ c.pc = "cloudhead"
    BY <1>0, <1>4 DEF PutCloudHead, At
  <2>2. c2.pc = "delcommit" /\ c2.newc = c.newc
    BY <1>0 DEF Command
  <2> HIDE DEF c2
  <2>3. UNCHANGED <<obj, reach, remote, unsent>> /\ UNCHANGED <<localHead, owner>>
        /\ cloudHead' = c.newc
    BY <1>4 DEF PutCloudHead, storeVars, poolVars
  <2>4. d = owner /\ Safe(c.newc) /\ localHead[d] \in {c.newc, TornHead}
    BY <1>0, <2>1, RunsOwner DEF Holds
  <2>5. HeadsSafe'
    BY <2>3, <2>4 DEF SnapInv, HeadsSafe, Safe, Available
  <2>6. cmd'[d] = c2
    BY <2>1, Moved
  <2>7. Holds(d)'
    BY <2>2, <2>3, <2>4, <2>6 DEF Holds, Building, Deleting
  <2> QED
    BY <2>1, <2>3, <2>4, <2>5, <2>7, OwnerStep
<1> QED
  BY <1>1, <1>2, <1>3, <1>4 DEF Publish

(* A step that deletes: the HEADs that can be read name the new commit, and what is
   deleted is doomed, so that the new snapshot does not use it. *)
LEMMA DeleteSnap ==
  ASSUME NEW d \in Device, IInv, SnapInv, cmd[d].pc \in Deleting,
         UNCHANGED <<obj, reach, unsent, cloudHead, localHead, owner>>,
         NEW x \in Doomed(cmd[d]), remote \ {x} \subseteq remote',
         NEW c2, cmd' = [cmd EXCEPT ![d] = c2],
         c2.pc \in Deleting => c2.newc = cmd[d].newc,
         c2.pc \in Deleting \cup {"exit"}
  PROVE  SnapInv'
<1> DEFINE c == cmd[d]
<1>1. /\ d = owner /\ localHead[d] \in {c.newc, TornHead} /\ cloudHead = c.newc
  BY RunsOwner DEF SnapInv, Holds, Deleting
<1>2. x \notin reach[c.newc]
  BY Facts DEF Apart, Committed, Deleting
<1>3. c.newc \notin {NoHead, TornHead}
  <2>1. c.newc \in Hash
    BY InHand DEF Committed, Deleting
  <2> QED
    BY <2>1, ConstantsAssumption DEF Hash
<1>4. Safe(c.newc)
  BY <1>1, <1>3 DEF SnapInv, HeadsSafe
<1>5. reach'[c.newc] \subseteq Available'
  BY <1>2, <1>4 DEF Safe, Available
<1>6. HeadsSafe'
  BY <1>1, <1>5 DEF HeadsSafe, Safe
<1>7. cmd'[d] = c2
  BY Moved
<1>8. Holds(d)'
  BY <1>1, <1>7 DEF Holds, Building, Deleting
<1> QED
  BY <1>1, <1>6, <1>8, OwnerStep

(* The loop over the old trees: from one to the next, then on *)
LEMMA NextTreeSnap ==
  ASSUME NEW d \in Device, IInv, SnapInv, At(d, "deltrees"),
         UNCHANGED <<obj, reach, unsent, cloudHead, localHead, owner>>,
         remote \ {cmd[d].old[cmd[d].lvl]} \subseteq remote',
         cmd' = [cmd EXCEPT ![d] = AfterOldTree(@)]
  PROVE  SnapInv'
<1> DEFINE c == cmd[d]
           c2 == AfterOldTree(c)
<1>0. c \in Command /\ CmdShape(obj, c) /\ cmd \in [Device -> Command]
  BY Facts
<1>1. c.pc = "deltrees" /\ c.pc \in Deleting /\ c.lvl \in 1..Len(c.old)
  BY <1>0 DEF At, Deleting, CmdShape
<1>2. c.old[c.lvl] \in Doomed(c)
  BY <1>1 DEF Doomed
<1>3. cmd' = [cmd EXCEPT ![d] = c2]
  OBVIOUS
<1>4. c2.pc \in {"deltrees", "delremoved"} /\ c2.newc = c.newc
  BY <1>0, <1>1 DEF AfterOldTree, Command
<1> HIDE DEF c2
<1>5. c2.pc \in Deleting \cup {"exit"}
  BY <1>4 DEF Deleting
<1> QED
  BY <1>1, <1>2, <1>3, <1>4, <1>5, DeleteSnap

(* The loops over what the command removed *)
LEMMA RemovedSnap ==
  ASSUME NEW d \in Device, IInv, SnapInv, At(d, "delremoved"),
         UNCHANGED <<obj, reach, unsent, cloudHead, localHead, owner>>,
         NEW x \in cmd[d].trees \cup cmd[d].blobs, remote \ {x} \subseteq remote',
         NEW c2, cmd' = [cmd EXCEPT ![d] = c2], c2.pc = "delremoved", c2.newc = cmd[d].newc
  PROVE  SnapInv'
<1> DEFINE c == cmd[d]
<1>1. x \in Doomed(c) /\ c.pc = "delremoved" /\ c.pc \in Deleting
  BY DEF Doomed, At, Deleting
<1>2. c2.pc \in Deleting \cup {"exit"}
  BY DEF Deleting
<1> QED
  BY <1>1, <1>2, DeleteSnap

LEMMA CleanUpSnap ==
  ASSUME NEW d \in Device, IInv, SnapInv, CleanUp(d) PROVE SnapInv'
<1>0. cmd[d] \in Command /\ cmd \in [Device -> Command]
  BY Facts
<1> DEFINE c == cmd[d]
<1>1. CASE RemoveOldCommit(d)
  <2> DEFINE c2 == [c EXCEPT !.lvl = 1, !.pc = "deltrees"]
  <2>1. /\ c.pc \in Deleting /\ c.base \in Doomed(c) /\ cmd' = [cmd EXCEPT ![d] = c2]
    BY <1>0, <1>1 DEF RemoveOldCommit, At, Deleting, Doomed
  <2>2. c2.pc = "deltrees" /\ c2.newc = c.newc
    BY <1>0 DEF Command
  <2> HIDE DEF c2
  <2>3. c2.pc \in Deleting \cup {"exit"}
    BY <2>2 DEF Deleting
  <2>4. /\ UNCHANGED <<obj, reach, unsent, cloudHead, localHead, owner>>
        /\ remote \ {c.base} \subseteq remote'
    BY <1>1 DEF RemoveOldCommit, headVars, poolVars
  <2> QED
    BY <2>1, <2>2, <2>3, <2>4, DeleteSnap
<1>2. CASE RemoveOldTree(d)
  <2>1. /\ UNCHANGED <<obj, reach, unsent, cloudHead, localHead, owner>>
        /\ remote \ {c.old[c.lvl]} \subseteq remote'
        /\ At(d, "deltrees") /\ cmd' = [cmd EXCEPT ![d] = AfterOldTree(@)]
    BY <1>2 DEF RemoveOldTree, headVars, poolVars
  <2> QED
    BY <2>1, NextTreeSnap
<1>3. CASE RemoveSubtree(d)
  <2>1. PICK x \in c.trees : remote' = remote \ {x} /\ cmd' = [cmd EXCEPT ![d].trees = @ \ {x}]
    BY <1>3 DEF RemoveSubtree
  <2> DEFINE c2 == [c EXCEPT !.trees = c.trees \ {x}]
  <2>2. cmd' = [cmd EXCEPT ![d] = c2] /\ c2.pc = c.pc /\ c2.newc = c.newc
    BY <1>0, <2>1 DEF Command
  <2> HIDE DEF c2
  <2>3. At(d, "delremoved") /\ UNCHANGED <<obj, reach, unsent, cloudHead, localHead, owner>>
    BY <1>3 DEF RemoveSubtree, headVars, poolVars
  <2>4. x \in c.trees \cup c.blobs /\ remote \ {x} \subseteq remote' /\ c.pc = "delremoved"
    BY <2>1, <2>3 DEF At
  <2> QED
    BY <2>2, <2>3, <2>4, RemovedSnap
<1>4. CASE RemoveBlob(d)
  <2>1. PICK x \in c.blobs : remote' = remote \ {x} /\ cmd' = [cmd EXCEPT ![d].blobs = @ \ {x}]
    BY <1>4 DEF RemoveBlob
  <2> DEFINE c2 == [c EXCEPT !.blobs = c.blobs \ {x}]
  <2>2. cmd' = [cmd EXCEPT ![d] = c2] /\ c2.pc = c.pc /\ c2.newc = c.newc
    BY <1>0, <2>1 DEF Command
  <2> HIDE DEF c2
  <2>3. At(d, "delremoved") /\ UNCHANGED <<obj, reach, unsent, cloudHead, localHead, owner>>
    BY <1>4 DEF RemoveBlob, headVars, poolVars
  <2>4. x \in c.trees \cup c.blobs /\ remote \ {x} \subseteq remote' /\ c.pc = "delremoved"
    BY <2>1, <2>3 DEF At
  <2> QED
    BY <2>2, <2>3, <2>4, RemovedSnap
<1>5. CASE OldCommitGone(d) \/ BlobGone(d) \/ Done(d)
  <2>1. (Throw(d) \/ \E r : Finish(d, r)) /\ c.pc # "idle"
    BY <1>5 DEF OldCommitGone, BlobGone, Done, At
  <2>2. UNCHANGED <<obj, reach, remote, unsent>> /\ UNCHANGED <<cloudHead, localHead, owner>>
    BY <1>5 DEF OldCommitGone, BlobGone, Done, storeVars, headVars, poolVars
  <2> QED
    BY <2>1, <2>2, SameObjects, QuietEnd
<1> QED
  BY <1>1, <1>2, <1>3, <1>4, <1>5 DEF CleanUp

(* The end of the process, the answer to the prompt, and a restart *)
Renewed(d, l, o, q, out) ==
  l \in {"idle", "exit", "head"} /\ cmd' = [cmd EXCEPT ![d] = FreshCmd(l, o, q, out)]

LEMMA EndSnap ==
  ASSUME NEW d \in Device, IInv, SnapInv, Exit(d) \/ Answer(d) \/ Crash(d) PROVE SnapInv'
<1>1. /\ cmd[d].pc # "idle" /\ UNCHANGED <<obj, reach, remote, unsent>>
      /\ UNCHANGED <<cloudHead, localHead, owner>>
  BY DEF Exit, Answer, ConfirmYes, ConfirmNo, Crash, At, storeVars, headVars, poolVars
<1>2. HeadsSafe' /\ d = owner
  BY <1>1, SameObjects, HeadsStay, RunsOwner DEF SnapInv
<1>3. PICK l, o, q, out : Renewed(d, l, o, q, out)
  <2>1. CASE Exit(d) \/ Crash(d)
    <3>1. Renewed(d, "idle", "none", <<>>, "none")
      BY <2>1 DEF Exit, Crash, IdleCmd, Renewed
    <3> QED
      BY <3>1
  <2>2. CASE ConfirmYes(d)
    <3>1. Renewed(d, "head", "rmdirall", cmd[d].path, "none")
      BY <2>2 DEF ConfirmYes, Renewed
    <3> QED
      BY <3>1
  <2>3. CASE ConfirmNo(d)
    <3>1. Renewed(d, "exit", "none", <<>>, "aborted")
      BY <2>3 DEF ConfirmNo, Finish, Renewed
    <3> QED
      BY <3>1
  <2> QED
    BY <2>1, <2>2, <2>3 DEF Answer
<1>4. UNCHANGED owner
  BY <1>1
<1> QED
  BY <1>2, <1>3, <1>4, FreshSnap DEF Renewed

(* Uploads: what leaves unsent is in the cloud, and a failed one stays unsent *)
LEMMA PoolSnap ==
  ASSUME NEW d \in Device, IInv, SnapInv, Upload(d) \/ UploadFails(d) PROVE SnapInv'
<1>1. UNCHANGED <<obj, reach, cmd>> /\ UNCHANGED <<cloudHead, localHead, owner>>
  BY DEF Upload, UploadFails, storeVars, headVars
<1>2. Available \subseteq Available'
  BY DEF Upload, UploadFails, Available, storeVars
<1>3. StoreGrew
  BY <1>1, <1>2 DEF StoreGrew
<1>4. HeadsSafe' /\ \A e \in Device : Holds(e)'
  BY <1>1, <1>3, HeadsStay, HoldsStays DEF SnapInv
<1>5. Serial'
  BY <1>1 DEF SnapInv, Serial, At
<1> QED
  BY <1>4, <1>5 DEF SnapInv

LEMMA FailSnap ==
  ASSUME NEW d \in Device, IInv, SnapInv, Disciplined, Fail(d) PROVE SnapInv'
<1>0. cmd[d] \in Command /\ cmd \in [Device -> Command] /\ Holds(d)
      /\ localHead \in [Device -> Commits \cup {NoHead, TornHead}]
  BY Facts DEF SnapInv, TypeOK
<1> DEFINE c == cmd[d]
<1>1. CASE UploadFails(d)
  BY <1>1, PoolSnap
<1>2. CASE CallFails(d)
  <2>1. Throw(d) /\ c.pc # "idle"
    BY <1>2 DEF CallFails, Calling, At
  <2>2. UNCHANGED <<obj, reach, remote, unsent>> /\ UNCHANGED <<cloudHead, localHead, owner>>
    BY <1>2 DEF CallFails, storeVars, headVars, poolVars
  <2> QED
    BY <2>1, <2>2, SameObjects, QuietEnd
<1>3. CASE PutReplyLost(d)
  <2>1. /\ Finish(d, "error") /\ c.pc # "idle" /\ UNCHANGED <<cloudHead, localHead, owner>>
        /\ Available' = Available \cup {NextHash} /\ Put /\ UNCHANGED unsent
    BY <1>3 DEF PutReplyLost, At, headVars, poolVars, Put, Available
  <2>2. StoreGrew
    <3>1. CASE EncryptTree(EmptyDir)
      BY <2>1, <3>1, EmptyTreeStored DEF StoreGrew
    <3>2. CASE At(d, "store") /\ EncryptTree(NewDir(c))
      BY <2>1, <3>2, LevelTreeSafe
    <3>3. CASE At(d, "commit") /\ EncryptCommit(c.ret)
      BY <2>1, <3>3, NewCommitSafe
    <3> QED
      BY <1>3, <3>1, <3>2, <3>3 DEF PutReplyLost
  <2> QED
    BY <2>1, <2>2, QuietEnd
<1>4. CASE HeadReplyLost(d)
  <2>1. /\ Throw(d) /\ c.pc = "cloudhead" /\ UNCHANGED <<obj, reach, remote, unsent>>
        /\ cloudHead' = c.newc /\ UNCHANGED <<localHead, owner>>
    BY <1>4 DEF HeadReplyLost, At, storeVars, poolVars
  <2>2. Safe(c.newc) /\ d = owner
    BY <1>0, <2>1, RunsOwner DEF Holds
  <2>3. HeadsSafe'
    BY <2>1, <2>2 DEF SnapInv, HeadsSafe, Safe, Available
  <2> QED
    BY <2>1, <2>2, <2>3, ThrowSnap
<1>5. CASE RemoveReplyLost(d)
  <2>1. PICK x \in Doomed(c) : remote' = remote \ {x}
    BY <1>5 DEF RemoveReplyLost, Doomed
  <2>2. /\ Throw(d) /\ c.pc \in Deleting
        /\ UNCHANGED <<obj, reach, unsent, cloudHead, localHead, owner>>
    BY <1>5 DEF RemoveReplyLost, At, Deleting, headVars, poolVars
  <2> DEFINE c2 == FreshCmd("exit", "none", <<>>, "error")
  <2>3. cmd' = [cmd EXCEPT ![d] = c2] /\ c2.pc = "exit"
    BY <2>2 DEF Throw, Finish, FreshCmd
  <2> HIDE DEF c2
  <2>4. c2.pc \notin Deleting /\ c2.pc \in Deleting \cup {"exit"}
    BY <2>3 DEF Deleting
  <2>5. remote \ {x} \subseteq remote'
    BY <2>1
  <2> QED
    BY <2>2, <2>3, <2>4, <2>5, DeleteSnap
<1>6. CASE TreeRemoveFails(d)
  <2>1. UNCHANGED <<obj, reach, unsent, cloudHead, localHead, owner>> /\ UNCHANGED remote
    BY <1>6 DEF TreeRemoveFails, storeVars, headVars, poolVars
  <2>2. CASE At(d, "deltrees") /\ cmd' = [cmd EXCEPT ![d] = AfterOldTree(@)]
    BY <2>1, <2>2, NextTreeSnap
  <2>3. ASSUME At(d, "delremoved"), NEW x \in c.trees, cmd' = [cmd EXCEPT ![d].trees = @ \ {x}]
        PROVE  SnapInv'
    <3> DEFINE c2 == [c EXCEPT !.trees = c.trees \ {x}]
    <3>1. cmd' = [cmd EXCEPT ![d] = c2] /\ c2.pc = "delremoved" /\ c2.newc = c.newc
      BY <1>0, <2>3 DEF At, Command
    <3> HIDE DEF c2
    <3>2. x \in c.trees \cup c.blobs /\ remote \ {x} \subseteq remote'
      BY <2>1, <2>3
    <3> QED
      BY <2>1, <2>3, <3>1, <3>2, RemovedSnap
  <2> QED
    BY <1>6, <2>2, <2>3 DEF TreeRemoveFails
<1>7. CASE LocalHeadTorn(d)
  <2> DEFINE c2 == [c EXCEPT !.pc = "cloudhead"]
  <2>1. cmd' = [cmd EXCEPT ![d] = c2] /\ c.pc = "localhead"
    BY <1>0, <1>7 DEF LocalHeadTorn, At
  <2>2. c2.pc = "cloudhead" /\ c2.newc = c.newc
    BY <1>0 DEF Command
  <2> HIDE DEF c2
  <2>3. UNCHANGED <<obj, reach, remote, unsent>> /\ UNCHANGED <<cloudHead, owner>>
        /\ localHead' = [localHead EXCEPT ![d] = TornHead]
    BY <1>7 DEF LocalHeadTorn, storeVars, poolVars
  <2>4. localHead'[d] = TornHead /\ d = owner /\ Safe(c.newc)
    BY <1>0, <2>1, <2>3, RunsOwner DEF Holds
  <2>5. HeadsSafe'
    BY <2>3, <2>4 DEF SnapInv, HeadsSafe, Safe, Available
  <2>6. cmd'[d] = c2
    BY <2>1, Moved
  <2>7. Holds(d)'
    BY <2>2, <2>3, <2>4, <2>6 DEF Holds, Safe, Available, Building, Deleting
  <2> QED
    BY <2>1, <2>3, <2>4, <2>5, <2>7, OwnerStep
<1>8. CASE DiesWritingHead(d)
  <2>1. /\ cmd' = [cmd EXCEPT ![d] = FreshCmd("idle", "none", <<>>, "none")]
        /\ c.pc = "localhead" /\ UNCHANGED <<obj, reach, remote, unsent>>
        /\ localHead' = [localHead EXCEPT ![d] = TornHead] /\ UNCHANGED <<cloudHead, owner>>
    BY <1>8 DEF DiesWritingHead, IdleCmd, At, storeVars
  <2>2. localHead'[d] = TornHead /\ d = owner
    BY <1>0, <2>1, RunsOwner
  <2>3. HeadsSafe'
    BY <2>1, <2>2 DEF SnapInv, HeadsSafe, Safe, Available
  <2> QED
    BY <2>1, <2>2, <2>3, FreshSnap
<1>9. CASE SyncTorn(d)
  BY <1>9, StartSnap
<1>10. CASE Crash(d)
  BY <1>10, EndSnap
<1> QED
  BY <1>1, <1>2, <1>3, <1>4, <1>5, <1>6, <1>7, <1>8, <1>9, <1>10 DEF Fail

LEMMA InitSnap == Init => SnapInv
<1> SUFFICES ASSUME Init PROVE SnapInv
  OBVIOUS
<1>1. \A d \in Device : cmd[d].pc = "idle"
  BY DEF Init, IdleCmd, FreshCmd
<1>2. Serial /\ \A d \in Device : Holds(d)
  BY <1>1 DEF Serial, At, Holds, Building, Deleting
<1>3. cloudHead = 2 /\ localHead[owner] = 2 /\ reach[2] = {1, 2} /\ remote = {1, 2}
  BY DEF Init
<1>4. HeadsSafe
  BY <1>3 DEF HeadsSafe, Safe, Available
<1> QED
  BY <1>2, <1>4 DEF SnapInv

LEMMA NextSnap == IInv /\ SnapInv /\ Disciplined /\ [Next]_vars => SnapInv'
<1> SUFFICES ASSUME IInv, SnapInv, Disciplined, [Next]_vars PROVE SnapInv'
  OBVIOUS
<1>1. ASSUME NEW d \in Device, Start(d) \/ Upload(d) \/ Fail(d) PROVE SnapInv'
  BY <1>1, StartSnap, PoolSnap, FailSnap
<1>2. ASSUME NEW d \in Device, Proceed(d) \/ Answer(d) PROVE SnapInv'
  BY <1>2, PrepareSnap, WalkSnap, PublishSnap, CleanUpSnap, EndSnap DEF Proceed
<1>3. CASE UNCHANGED vars
  <2>1. UNCHANGED <<obj, reach, remote, unsent, cmd>> /\ UNCHANGED <<cloudHead, localHead, owner>>
    BY <1>3 DEF vars, storeVars, headVars, poolVars
  <2>2. HeadsSafe' /\ \A e \in Device : Holds(e)'
    BY <2>1, SameObjects, HeadsStay, HoldsStays DEF SnapInv
  <2>3. Serial'
    BY <2>1 DEF SnapInv, Serial, At
  <2> QED
    BY <2>2, <2>3 DEF SnapInv
<1> QED
  BY <1>1, <1>2, <1>3 DEF Next

----------------------------------------------------------------------------
(* When one command runs at a time, on the device that ran init or sync last, then
   through every failure and crash the published snapshot and the one that device
   works from keep every object, but for blobs the thread pool has not uploaded
   (the order of publish, write_head and the deletions in VaultEngine). *)
THEOREM SnapshotNeverLosesAnObject == Spec => []SnapshotIntact
<1>1. CASE Disciplined
  <2>1. Spec => []SnapInv
    BY <1>1, Invariance, InitSnap, NextSnap, PTL DEF Spec
  <2>2. SnapInv => SnapshotIntact
    BY DEF SnapInv, HeadsSafe, Safe, Available, SnapshotIntact
  <2> QED
    BY <2>1, <2>2, PTL
<1>2. CASE ~Disciplined
  <2>1. SnapshotIntact
    BY <1>2 DEF SnapshotIntact
  <2> QED
    BY <2>1, PTL
<1> QED
  BY <1>1, <1>2

----------------------------------------------------------------------------
(* The other half of SnapInv: nothing in the cloud is forgotten.  While no   *)
(* command has failed or warned after storing something, each object in the  *)
(* cloud is one the running command still knows about (Claims): it will be   *)
(* part of the new snapshot, or is to be deleted; or else it is a blob an    *)
(* add replaced, which no command claims any more.                           *)

(* What the command has still to delete *)
Remaining(c) ==
  CASE c.pc \in Publishing \cup {"delcommit"} -> Doomed(c)
    [] c.pc = "deltrees" -> {c.old[i] : i \in c.lvl..Len(c.old)} \cup c.trees \cup c.blobs
    [] OTHER -> c.trees \cup c.blobs

Descending == {"blob", "leaf", "walk"}

Claims(o, r, c, x) ==
  \/ /\ c.pc \in Building
     /\ \/ x \in Doomed(c)
        \/ Returned(r, c, x)
        \/ \E i \in 1..Top(c) : Beside(o, r, c, i, x)
        \/ c.pc \in Descending /\ x \in r[c.cur]
  \/ /\ c.pc \in Committed
     /\ x \in r[c.newc] \/ x \in Remaining(c)

(* The objects in the cloud and the leaked ones, in a command's view *)
Balanced(o, r, present, lost, c) ==
  /\ \A x \in present : Claims(o, r, c, x) \/ x \in lost
  /\ \A x \in lost : ~Claims(o, r, c, x)

(* What the pool has still to upload will be part of the new snapshot *)
Queued(r, c, q) ==
  /\ c.pc \in Building => \A x \in q : Returned(r, c, x)
  /\ c.pc \in Committed => q \subseteq r[c.newc]

(* The same when no command has begun to store anything *)
Settled == remote \subseteq reach[cloudHead] \cup leaked /\ leaked \cap reach[cloudHead] = {}

Resting(c) == c.pc \in {"idle", "exit"} \/ Untouched(c)

AccountedFor(d) ==
  /\ cmd[d].pc \in Building \cup Committed => Balanced(obj, reach, remote, leaked, cmd[d])
  /\ Queued(reach, cmd[d], queue[d])
  /\ cmd[d].pc = "exit" => queue[d] \subseteq reach[cloudHead]
  /\ Resting(cmd[d]) => Settled
  /\ cmd[d].pc # "cloudhead" => localHead[d] \in {cloudHead, NoHead, TornHead}

(* Only commits reach commits; what a command that has stored nothing returns and
   has queued *)
NoCommitBelow(o, r) ==
  \A h \in 1..Len(o) : o[h].kind # "commit" => \A x \in r[h] : o[x].kind # "commit"

Fits(o, c) ==
  /\ c.ret # 0 => o[c.ret].kind # "commit"
  /\ c.pc \in {"blob", "leaf", "parent"} => Upsert(c)
  /\ c.pc = "confirm" => Untouched(c)
  /\ Untouched(c) => c.ret = 0

Waiting(c, q) == c.pc = "idle" \/ Untouched(c) => q = {}

ExactInv ==
  /\ NoCommitBelow(obj, reach)
  /\ \A d \in Device : Fits(obj, cmd[d]) /\ Waiting(cmd[d], queue[d])
  /\ clean => unsent \subseteq queue[owner] /\ leaked \subseteq Available /\ AccountedFor(owner)
----------------------------------------------------------------------------
(* How the claims of a command change with its steps *)

(* They stay the same while the store grows *)
LEMMA ClaimsGrow ==
  ASSUME NEW o \in Seq(Object), NEW r \in Seq(SUBSET Nat), StoreInv(o, r),
         NEW o2, NEW r2, Extends(o, r, o2, r2),
         NEW c \in Command, CmdShape(o, c)
  PROVE  /\ \A x : Claims(o2, r2, c, x) <=> Claims(o, r, c, x)
         /\ \A x : Returned(r2, c, x) <=> Returned(r, c, x)
         /\ \A i \in 1..Len(c.old) : \A x : Beside(o2, r2, c, i, x) <=> Beside(o, r, c, i, x)
<1>0. /\ o2 \in Seq(Object) /\ r2 \in Seq(SUBSET Nat)
      /\ Grows(o, o2) /\ Grows(r, r2)
  BY DEF Extends
<1>1. Len(o) \in Nat /\ Len(r) = Len(o)
  BY DEF StoreInv
<1>2. \A h \in 1..Len(o), n \in Name : \A x : Under(o2, r2, h, n, x) <=> Under(o, r, h, n, x)
  BY <1>0, UnderGrows
<1>3. \A i \in 1..Len(c.old) : \A x : Beside(o2, r2, c, i, x) <=> Beside(o, r, c, i, x)
  BY <1>2 DEF Beside, CmdShape, TreeIn
<1>4. \A x : Returned(r2, c, x) <=> Returned(r, c, x)
  BY <1>0, <1>1 DEF Returned, CmdShape, Grows
<1>5. Top(c) \in 0..Len(c.old) /\ Len(c.old) \in Nat
  BY DEF Top, CmdShape, Command
<1>6. \A i \in 1..Top(c) : i \in 1..Len(c.old)
  BY <1>5
<1>7. c.pc \in Descending => r2[c.cur] = r[c.cur]
  BY <1>0, <1>1 DEF Descending, CmdShape, TreeIn, Grows
<1>8. c.pc \in Committed => r2[c.newc] = r[c.newc]
  BY <1>0, <1>1 DEF CmdShape, CommitIn, Grows
<1>9. \A x : Claims(o2, r2, c, x) <=> Claims(o, r, c, x)
  BY <1>3, <1>4, <1>6, <1>7, <1>8 DEF Claims
<1> QED
  BY <1>3, <1>4, <1>9

(* read_head: all of the old commit is claimed *)
LEMMA HeadClaims ==
  ASSUME NEW o \in Seq(Object), NEW r \in Seq(SUBSET Nat), StoreInv(o, r),
         NEW c \in Command, CmdShape(o, c), c.pc = "head",
         NEW h, CommitIn(o, h), NEW l \in Descending,
         NEW c2, c2 = [c EXCEPT !.base = h, !.cur = o[h].root, !.pc = l]
  PROVE  \A x : Claims(o, r, c2, x) <=> x \in r[h]
<1>1. /\ c2.pc = l /\ c2.old = <<>> /\ c2.cur = o[h].root /\ c2.base = h /\ c2.ret = 0
      /\ c2.trees = {} /\ c2.blobs = {}
  BY DEF Command, CmdShape
<1>2. r[h] = {h} \cup r[o[h].root]
  BY DEF StoreInv, CommitIn, ObjectInv
<1>3. Top(c2) = 0 /\ Doomed(c2) = {h}
  BY <1>1 DEF Top, Doomed, Descending
<1>4. l \in Building /\ l \notin Committed
  BY DEF Descending, Building, Committed
<1>5. \A x : ~Returned(r, c2, x)
  BY <1>1 DEF Returned
<1>6. 1..Top(c2) = {}
  BY <1>3
<1> QED
  BY <1>1, <1>2, <1>3, <1>4, <1>5, <1>6 DEF Claims

(* The new entry's blob or empty tree is claimed when it is made *)
LEMMA LeafClaims ==
  ASSUME NEW o \in Seq(Object), NEW r \in Seq(SUBSET Nat), StoreInv(o, r),
         NEW o2, NEW r2, Extends(o, r, o2, r2),
         NEW c \in Command, CmdShape(o, c), c.pc \in {"blob", "leaf"},
         r2[Len(o2)] = {Len(o2)},
         NEW c2, c2 = WithLeaf(c, Len(o2))
  PROVE  /\ \A x : Claims(o2, r2, c2, x) <=> Claims(o, r, c, x) \/ x = Len(o2)
         /\ \A x : Returned(r2, c2, x) <=> x = Len(o2)
<1>1. \A x : Claims(o2, r2, c, x) <=> Claims(o, r, c, x)
  BY ClaimsGrow
<1>2. Len(o) \in Nat /\ Len(o2) = Len(o) + 1
  BY DEF Extends, Grows
<1>3. /\ c2.pc = "walk" /\ c2.ret = Len(o2) /\ c2.old = <<>> /\ c2.cur = c.cur
      /\ c2.trees = {} /\ c2.blobs = {} /\ c2.base = c.base
      /\ c.old = <<>> /\ c.trees = {} /\ c.blobs = {} /\ c.ret = 0
  BY DEF WithLeaf, CmdShape, Command
<1>4. Doomed(c2) = Doomed(c) /\ 1..Top(c2) = {} /\ 1..Top(c) = {}
  BY <1>3 DEF Doomed, Top
<1>5. (\A x : Returned(r2, c2, x) <=> x = Len(o2)) /\ (\A x : ~Returned(r2, c, x))
  BY <1>2, <1>3 DEF Returned
<1>6. \A x : Claims(o2, r2, c2, x) <=> Claims(o2, r2, c, x) \/ x = Len(o2)
  BY <1>3, <1>4, <1>5 DEF Claims, Building, Committed, Descending
<1> QED
  BY <1>1, <1>5, <1>6

(* The placeholder of a missing parent *)
LEMMA ParentClaims ==
  ASSUME NEW o \in Seq(Object), NEW r \in Seq(SUBSET Nat), StoreInv(o, r),
         NEW o2, NEW r2, Extends(o, r, o2, r2),
         NEW c \in Command, CmdShape(o, c), c.pc = "parent",
         r2[Len(o2)] = {Len(o2)},
         NEW c2, c2 = WithParent(c, Len(o2))
  PROVE  /\ \A x : Claims(o2, r2, c2, x) <=> Claims(o, r, c, x) \/ x = Len(o2)
         /\ \A x : Returned(r2, c2, x) <=> Returned(r, c, x)
<1>1. /\ \A x : Claims(o2, r2, c, x) <=> Claims(o, r, c, x)
      /\ \A x : Returned(r2, c, x) <=> Returned(r, c, x)
  BY ClaimsGrow
<1>2. /\ c2.pc = "walk" /\ c2.ret = c.ret /\ c2.old = c.old /\ c2.cur = Len(o2)
      /\ c2.trees = c.trees /\ c2.blobs = c.blobs /\ c2.base = c.base /\ c2.path = c.path
  BY DEF WithParent, Command
<1>3. Doomed(c2) = Doomed(c) /\ Top(c2) = Top(c)
  BY <1>2 DEF Doomed, Top
<1>4. \A x : Returned(r2, c2, x) <=> Returned(r2, c, x)
  BY <1>2 DEF Returned
<1>5. \A i : \A x : Beside(o2, r2, c2, i, x) <=> Beside(o2, r2, c, i, x)
  BY <1>2 DEF Beside
<1>6. \A x : Claims(o2, r2, c2, x) <=> Claims(o2, r2, c, x) \/ x = Len(o2)
  BY <1>2, <1>3, <1>4, <1>5 DEF Claims, Building, Committed, Descending
<1> QED
  BY <1>1, <1>4, <1>6

(* A new tree takes over what hangs off its level and what was returned to it *)
LEMMA TreeClaims ==
  ASSUME NEW o \in Seq(Object), NEW r \in Seq(SUBSET Nat), StoreInv(o, r),
         NEW o2, NEW r2, Extends(o, r, o2, r2),
         NEW c \in Command, CmdShape(o, c), Apart(o, r, c), c.pc = "store",
         r2[Len(o2)] = {Len(o2)} \cup BelowDir(r, LevelDir(o, c)),
         NEW c2, c2 = WithTree(c, Len(o2))
  PROVE  /\ \A x : Claims(o2, r2, c2, x) <=> Claims(o, r, c, x) \/ x = Len(o2)
         /\ \A x : Returned(r, c, x) => Returned(r2, c2, x)
<1> DEFINE h == Len(o2)
<1>1. /\ \A x : Claims(o2, r2, c, x) <=> Claims(o, r, c, x)
      /\ \A x : Returned(r2, c, x) <=> Returned(r, c, x)
      /\ \A i \in 1..Len(c.old) : \A x : Beside(o2, r2, c, i, x) <=> Beside(o, r, c, i, x)
  BY ClaimsGrow
<1>2. Len(o) \in Nat /\ h = Len(o) + 1
  BY DEF Extends, Grows
<1>3. c.lvl \in 1..Len(c.old) /\ Len(c.old) \in Nat /\ c.lvl \in Nat
  BY DEF CmdShape, Command
<1>4. /\ c2.ret = h /\ c2.lvl = c.lvl - 1 /\ c2.pc \in {"commit", "store"}
      /\ (c2.pc = "commit" <=> c.lvl = 1)
      /\ c2.old = c.old /\ c2.path = c.path /\ c2.base = c.base
      /\ c2.trees = c.trees /\ c2.blobs = c.blobs
  BY DEF WithTree, Command
<1>5. Top(c) = c.lvl /\ Top(c2) = c.lvl - 1 /\ Doomed(c2) = Doomed(c)
  <2>1. Top(c) = c.lvl
    BY DEF Top
  <2>2. Top(c2) = c.lvl - 1
    BY <1>3, <1>4 DEF Top
  <2> QED
    BY <1>4, <2>1, <2>2 DEF Doomed
<1> HIDE DEF h
<1>6. \A i : \A x : Beside(o2, r2, c2, i, x) <=> Beside(o2, r2, c, i, x)
  BY <1>4 DEF Beside
<1>7. \A x : Returned(r2, c2, x) <=> x = h \/ Beside(o2, r2, c, c.lvl, x) \/ Returned(r2, c, x)
  <2>1. \A x : Returned(r2, c2, x) <=> x = h \/ x \in BelowDir(r, LevelDir(o, c))
    BY <1>2, <1>4 DEF Returned, h
  <2> QED
    BY <2>1, <1>1, <1>3, LevelDirFacts
<1>8. \A i : i \in 1..Top(c) <=> i = c.lvl \/ i \in 1..Top(c2)
  BY <1>3, <1>5
<1>9. \A x : (\E i \in 1..Top(c) : Beside(o2, r2, c, i, x)) <=>
             Beside(o2, r2, c, c.lvl, x) \/ \E i \in 1..Top(c2) : Beside(o2, r2, c2, i, x)
  BY <1>6, <1>8
<1>10. c2.pc \in Building /\ c2.pc \notin Committed \cup Descending
  BY <1>4 DEF Building, Committed, Descending
<1>11. c.pc \in Building /\ c.pc \notin Committed \cup Descending
  BY DEF Building, Committed, Descending
<1>12. \A x : Claims(o2, r2, c2, x) <=> Claims(o2, r2, c, x) \/ x = h
  BY <1>5, <1>7, <1>9, <1>10, <1>11 DEF Claims
<1> QED
  BY <1>1, <1>7, <1>12 DEF h

(* The new commit: what is claimed is in its snapshot, or still to be deleted *)
LEMMA CommitClaims ==
  ASSUME NEW o \in Seq(Object), NEW r \in Seq(SUBSET Nat), StoreInv(o, r),
         NEW o2, NEW r2, Extends(o, r, o2, r2),
         NEW c \in Command, CmdShape(o, c), c.pc = "commit",
         r2[Len(o2)] = {Len(o2)} \cup r[c.ret],
         NEW c2, c2 = WithCommit(c, Len(o2))
  PROVE  /\ \A x : Claims(o2, r2, c2, x) <=> Claims(o, r, c, x) \/ x = Len(o2)
         /\ \A x : Returned(r, c, x) => x \in r2[c2.newc]
<1>1. /\ c2.newc = Len(o2) /\ c2.pc = "localhead"
      /\ c2.old = c.old /\ c2.base = c.base /\ c2.trees = c.trees /\ c2.blobs = c.blobs
  BY DEF WithCommit, Command
<1>2. Doomed(c2) = Doomed(c) /\ Remaining(c2) = Doomed(c2)
  BY <1>1 DEF Doomed, Remaining, Publishing
<1>3. 1..Top(c) = {} /\ c.ret # 0
  BY DEF Top, CmdShape, TreeIn
<1>4. \A x : Returned(r, c, x) <=> x \in r[c.ret]
  BY <1>3 DEF Returned
<1>5. \A x : Claims(o, r, c, x) <=> x \in Doomed(c) \/ x \in r[c.ret]
  BY <1>3, <1>4 DEF Claims, Building, Committed, Descending
<1>6. \A x : Claims(o2, r2, c2, x) <=> x \in r2[c2.newc] \/ x \in Doomed(c)
  BY <1>1, <1>2 DEF Claims, Building, Committed
<1> QED
  BY <1>1, <1>4, <1>5, <1>6

(* One level down: the tree just loaded is to be rewritten, what hangs off it stays,
   and the entry on the path is what the next step decides about *)
PushedClaims(o, r, c, c2, x) ==
  \/ x = c2.base \/ \E j \in 1..Len(c2.old) : x = c2.old[j]
  \/ Returned(r, c, x)
  \/ \E i \in 1..Len(c2.old) : Beside(o, r, c2, i, x)

LEMMA PushClaims ==
  ASSUME NEW o \in Seq(Object), NEW r \in Seq(SUBSET Nat), StoreInv(o, r),
         NEW c \in Command, CmdShape(o, c), c.pc = "walk",
         NEW c2, c2.old = Append(c.old, c.cur), c2.path = c.path, c2.base = c.base
  PROVE  /\ \A x : Claims(o, r, c, x) <=>
                     \/ PushedClaims(o, r, c, c2, x)
                     \/ Under(o, r, c.cur, c.path[Level(c)], x)
         /\ Len(c2.old) = Len(c.old) + 1
<1> DEFINE L == Len(c.old) + 1
<1>1. /\ c.old \in Seq(Nat) /\ c.cur \in Nat /\ Len(c.old) \in Nat /\ Level(c) = L
      /\ TreeIn(o, c.cur) /\ c.trees = {} /\ c.blobs = {}
  BY DEF Command, CmdShape, Level
<1>2. /\ Len(c2.old) = L /\ c2.old[L] = c.cur
      /\ \A i \in 1..Len(c.old) : c2.old[i] = c.old[i]
  BY <1>1
<1>3. \A i : i \in 1..L <=> i = L \/ i \in 1..Len(c.old)
  BY <1>1
<1>4. \A i \in 1..Len(c.old) : \A x : Beside(o, r, c2, i, x) <=> Beside(o, r, c, i, x)
  BY <1>2 DEF Beside
<1>5. Level(c) = L /\ Len(c2.old) = L
  BY <1>1, <1>2
<1> HIDE DEF L
<1>6. \A x : x \in r[c.cur] <=> x = c.cur \/ \E n \in Name : Under(o, r, c.cur, n, x)
  BY <1>1 DEF TreeIn, StoreInv, ObjectInv
<1>7. c.path[L] \in Name
  <2>1. c.path \in Path /\ Len(c.old) < Len(c.path)
    BY DEF CmdShape
  <2>2. Len(c.path) \in Nat /\ \A i \in 1..Len(c.path) : c.path[i] \in Name
    BY <2>1, PathFacts
  <2>3. L \in 1..Len(c.path)
    BY <1>1, <2>1, <2>2 DEF L
  <2> QED
    BY <2>2, <2>3
<1>8. \A x : x \in r[c.cur] <=>
             x = c.cur \/ Beside(o, r, c2, L, x) \/ Under(o, r, c.cur, c.path[L], x)
  BY <1>2, <1>6, <1>7 DEF Beside
<1>9. \A x : x \in Doomed(c) <=> x = c.base \/ \E i \in 1..Len(c.old) : x = c.old[i]
  BY <1>1 DEF Doomed
<1>10. Top(c) = Len(c.old) /\ c.pc \in Building /\ c.pc \in Descending /\ c.pc \notin Committed
  BY DEF Top, Building, Descending, Committed
<1>11. \A x : Claims(o, r, c, x) <=>
           \/ x = c.base \/ \E i \in 1..Len(c.old) : x = c.old[i]
           \/ Returned(r, c, x)
           \/ \E i \in 1..Len(c.old) : Beside(o, r, c, i, x)
           \/ x = c.cur \/ Beside(o, r, c2, L, x) \/ Under(o, r, c.cur, c.path[L], x)
  BY <1>8, <1>9, <1>10 DEF Claims
<1>12. \A x : (\E j \in 1..L : x = c2.old[j]) <=> x = c.cur \/ \E i \in 1..Len(c.old) : x = c.old[i]
  BY <1>2, <1>3
<1>13. \A x : (\E j \in 1..L : Beside(o, r, c2, j, x)) <=>
              Beside(o, r, c2, L, x) \/ \E i \in 1..Len(c.old) : Beside(o, r, c, i, x)
  BY <1>3, <1>4
<1>14. \A x : Claims(o, r, c, x) <=>
                PushedClaims(o, r, c, c2, x) \/ Under(o, r, c.cur, c.path[L], x)
  BY <1>5, <1>11, <1>12, <1>13 DEF PushedClaims
<1> QED
  BY <1>5, <1>14 DEF L

(* The directory on the path is what the command goes on to walk in *)
WithEntry(c, k) == [c EXCEPT !.old = Append(c.old, c.cur), !.cur = k]

LEMMA DescendClaims ==
  ASSUME NEW o \in Seq(Object), NEW r \in Seq(SUBSET Nat), StoreInv(o, r),
         NEW c \in Command, CmdShape(o, c), c.pc = "walk",
         NEW k, k = o[c.cur].dir[c.path[Level(c)]], k # 0,
         NEW c2, c2 = WithEntry(c, k)
  PROVE  /\ \A x : Claims(o, r, c2, x) <=> Claims(o, r, c, x)
         /\ \A x : Returned(r, c2, x) <=> Returned(r, c, x)
<1>1. /\ c2.old = Append(c.old, c.cur) /\ c2.path = c.path /\ c2.base = c.base
      /\ c2.ret = c.ret /\ c2.cur = k /\ c2.pc = "walk" /\ c2.trees = {} /\ c2.blobs = {}
  BY DEF Command, CmdShape, WithEntry
<1>2. \A x : Claims(o, r, c, x) <=> PushedClaims(o, r, c, c2, x) \/ Under(o, r, c.cur, c.path[Level(c)], x)
  BY <1>1, PushClaims
<1>3. \A x : Under(o, r, c.cur, c.path[Level(c)], x) <=> x \in r[c2.cur]
  BY <1>1 DEF Under
<1>4. \A x : Returned(r, c2, x) <=> Returned(r, c, x)
  BY <1>1 DEF Returned
<1>5. \A x : x \in Doomed(c2) <=> x = c2.base \/ \E j \in 1..Len(c2.old) : x = c2.old[j]
  BY <1>1 DEF Doomed
<1>6. Top(c2) = Len(c2.old) /\ c2.pc \in Building /\ c2.pc \in Descending /\ c2.pc \notin Committed
  BY <1>1 DEF Top, Building, Descending, Committed
<1>7. \A x : Claims(o, r, c2, x) <=> PushedClaims(o, r, c, c2, x) \/ x \in r[c2.cur]
  BY <1>4, <1>5, <1>6 DEF Claims, PushedClaims
<1> QED
  BY <1>2, <1>3, <1>4, <1>7

(* A missing directory: there is nothing below the entry *)
WithoutEntry(c) == [c EXCEPT !.old = Append(c.old, c.cur), !.pc = "parent"]

LEMMA MissingClaims ==
  ASSUME NEW o \in Seq(Object), NEW r \in Seq(SUBSET Nat), StoreInv(o, r),
         NEW c \in Command, CmdShape(o, c), c.pc = "walk",
         o[c.cur].dir[c.path[Level(c)]] = 0,
         NEW c2, c2 = WithoutEntry(c)
  PROVE  /\ \A x : Claims(o, r, c2, x) <=> Claims(o, r, c, x)
         /\ \A x : Returned(r, c2, x) <=> Returned(r, c, x)
<1>1. /\ c2.old = Append(c.old, c.cur) /\ c2.path = c.path /\ c2.base = c.base
      /\ c2.ret = c.ret /\ c2.pc = "parent" /\ c2.trees = {} /\ c2.blobs = {}
  BY DEF Command, CmdShape, WithoutEntry
<1>2. \A x : Claims(o, r, c, x) <=> PushedClaims(o, r, c, c2, x) \/ Under(o, r, c.cur, c.path[Level(c)], x)
  BY <1>1, PushClaims
<1>3. \A x : ~Under(o, r, c.cur, c.path[Level(c)], x)
  BY DEF Under
<1>4. \A x : Returned(r, c2, x) <=> Returned(r, c, x)
  BY <1>1 DEF Returned
<1>5. \A x : x \in Doomed(c2) <=> x = c2.base \/ \E j \in 1..Len(c2.old) : x = c2.old[j]
  BY <1>1 DEF Doomed
<1>6. Top(c2) = Len(c2.old) /\ c2.pc \in Building /\ c2.pc \notin Descending \cup Committed
  BY <1>1 DEF Top, Building, Descending, Committed
<1>7. \A x : Claims(o, r, c2, x) <=> PushedClaims(o, r, c, c2, x)
  BY <1>4, <1>5, <1>6 DEF Claims, PushedClaims
<1> QED
  BY <1>2, <1>3, <1>4, <1>7

(* The last level: the entry is replaced (by ret) or erased, and what was below it is
   either on the lists of what is to be deleted, or claimed no more *)
LEMMA EditedClaims ==
  ASSUME NEW o \in Seq(Object), NEW r \in Seq(SUBSET Nat), StoreInv(o, r),
         NEW c \in Command, CmdShape(o, c), c.pc = "walk", Level(c) = Len(c.path),
         NEW ret, NEW trees, NEW blobs, ret = c.ret \/ (c.ret = 0 /\ ret = 0),
         NEW c2, c2 = Edited(c, ret, trees, blobs)
  PROVE  /\ \A x : Claims(o, r, c2, x) <=>
                     PushedClaims(o, r, c, c2, x) \/ x \in trees \cup blobs
         /\ \A x : Claims(o, r, c, x) <=>
                     \/ PushedClaims(o, r, c, c2, x)
                     \/ Under(o, r, c.cur, c.path[Level(c)], x)
         /\ \A x : Returned(r, c2, x) <=> Returned(r, c, x)
<1>1. /\ c2.old = Append(c.old, c.cur) /\ c2.path = c.path /\ c2.base = c.base
      /\ c2.ret = c.ret /\ c2.pc = "store" /\ c2.trees = trees /\ c2.blobs = blobs
      /\ c2.lvl = Len(c.path)
  BY DEF Command, Edited
<1>2. /\ \A x : Claims(o, r, c, x) <=> PushedClaims(o, r, c, c2, x) \/ Under(o, r, c.cur, c.path[Level(c)], x)
      /\ Len(c2.old) = Len(c.old) + 1
  BY <1>1, PushClaims
<1>3. c2.lvl = Len(c2.old)
  BY <1>1, <1>2 DEF Level
<1>4. \A x : Returned(r, c2, x) <=> Returned(r, c, x)
  BY <1>1 DEF Returned
<1>5. \A x : x \in Doomed(c2) <=>
               x = c2.base \/ (\E j \in 1..Len(c2.old) : x = c2.old[j]) \/ x \in trees \cup blobs
  BY <1>1 DEF Doomed
<1>6. Top(c2) = Len(c2.old) /\ c2.pc \in Building /\ c2.pc \notin Descending \cup Committed
  BY <1>1, <1>3 DEF Top, Building, Descending, Committed
<1>7. \A x : Claims(o, r, c2, x) <=> PushedClaims(o, r, c, c2, x) \/ x \in trees \cup blobs
  BY <1>4, <1>5, <1>6 DEF Claims, PushedClaims
<1> QED
  BY <1>2, <1>4, <1>7

----------------------------------------------------------------------------
(* The store's commits, and the assembly of the invariant *)

(* A new object is a commit, or reaches no commit *)
LEMMA KindsGrow ==
  ASSUME NEW o \in Seq(Object), NEW r \in Seq(SUBSET Nat), StoreInv(o, r), NoCommitBelow(o, r),
         NEW o2, NEW r2, Extends(o, r, o2, r2),
         \/ o2[Len(o2)].kind = "commit"
         \/ \A x \in r2[Len(o2)] : x = Len(o2) \/ (x \in 1..Len(o) /\ o[x].kind # "commit")
  PROVE  NoCommitBelow(o2, r2)
<1>1. /\ Len(o) \in Nat /\ Len(r) = Len(o) /\ Len(o2) = Len(o) + 1
      /\ \A h \in 1..Len(o) : o2[h] = o[h] /\ r2[h] = r[h]
  BY DEF StoreInv, Extends, Grows
<1>2. ASSUME NEW h \in 1..Len(o), o[h].kind # "commit", NEW x \in r[h] PROVE o2[x].kind # "commit"
  <2>1. x \in 1..Len(o) /\ o[x].kind # "commit"
    BY <1>1, <1>2, ReachBelow DEF NoCommitBelow
  <2> QED
    BY <1>1, <2>1
<1>3. \A h \in 1..Len(o2) : h \in 1..Len(o) \/ h = Len(o2)
  BY <1>1
<1>4. ASSUME o2[Len(o2)].kind # "commit", NEW x \in r2[Len(o2)] PROVE o2[x].kind # "commit"
  BY <1>1, <1>4
<1> QED
  BY <1>1, <1>2, <1>3, <1>4 DEF NoCommitBelow

Grew == Extends(obj, reach, obj', reach') \/ UNCHANGED <<obj, reach>>

LEMMA FitsStays ==
  ASSUME IInv, Grew, NEW e \in Device, Fits(obj, cmd[e])
  PROVE  Fits(obj', cmd[e])
<1>1. cmd[e].ret \in 0..Len(obj) /\ Len(obj) \in Nat
  BY Facts DEF CmdShape
<1>2. cmd[e].ret # 0 => obj'[cmd[e].ret] = obj[cmd[e].ret]
  BY <1>1 DEF Grew, Extends, Grows
<1> QED
  BY <1>2 DEF Fits

(* What AccountedFor says of a command c after the step *)
AccountNext(d, c) ==
  /\ unsent' \subseteq queue'[d] /\ leaked' \subseteq Available'
  /\ c.pc \in Building \cup Committed => Balanced(obj', reach', remote', leaked', c)
  /\ Queued(reach', c, queue'[d])
  /\ c.pc = "exit" => queue'[d] \subseteq reach'[cloudHead']
  /\ Resting(c) => Settled'
  /\ c.pc # "cloudhead" => localHead'[d] \in {cloudHead', NoHead, TornHead}

(* A step of the owner's command, or of its pool *)
LEMMA AccountStep ==
  ASSUME NEW d \in Device, IInv, SnapInv, ExactInv, d = owner, UNCHANGED owner, Grew,
         NoCommitBelow(obj', reach'),
         NEW c2, cmd' = [cmd EXCEPT ![d] = c2], Fits(obj', c2), Waiting(c2, queue'[d]),
         \A e \in Device \ {d} : queue'[e] = queue[e],
         clean' => AccountNext(d, c2)
  PROVE  ExactInv'
<1>1. cmd'[d] = c2 /\ \A e \in Device \ {d} : cmd'[e] = cmd[e]
  BY Facts DEF TypeOK
<1>2. ASSUME NEW e \in Device \ {d} PROVE Fits(obj', cmd'[e]) /\ Waiting(cmd'[e], queue'[e])
  <2>1. Fits(obj, cmd[e]) /\ Waiting(cmd[e], queue[e])
    BY DEF ExactInv
  <2> QED
    BY <1>1, <2>1, FitsStays
<1>3. \A e \in Device : Fits(obj', cmd'[e]) /\ Waiting(cmd'[e], queue'[e])
  BY <1>1, <1>2
<1>4. ASSUME clean' PROVE unsent' \subseteq queue'[owner'] /\ leaked' \subseteq Available' /\ AccountedFor(owner)'
  <2>1. AccountNext(d, c2)
    BY <1>4
  <2>2. owner' = d
    OBVIOUS
  <2> QED
    BY <1>1, <2>1, <2>2 DEF AccountNext, AccountedFor
<1> QED
  BY <1>3, <1>4 DEF ExactInv

(* What the invariant says of a command under way *)
LEMMA Account ==
  ASSUME NEW d \in Device, IInv, SnapInv, ExactInv, cmd[d].pc # "idle"
  PROVE  /\ d = owner /\ NoCommitBelow(obj, reach)
         /\ Fits(obj, cmd[d]) /\ Waiting(cmd[d], queue[d])
         /\ leaked \subseteq Hash
         /\ clean => /\ unsent \subseteq queue[d] /\ leaked \subseteq Available /\ AccountedFor(d)
<1>1. d = owner
  BY RunsOwner
<1>2. leaked \subseteq Hash
  BY Facts DEF TypeOK
<1> QED
  BY <1>1, <1>2 DEF ExactInv

(* A step after which the vault is not clean *)
LEMMA UncleanStep ==
  ASSUME NEW d \in Device, IInv, SnapInv, ExactInv, cmd[d].pc # "idle", UNCHANGED owner, Grew,
         NoCommitBelow(obj', reach'), clean' = FALSE,
         NEW c2, cmd' = [cmd EXCEPT ![d] = c2], Fits(obj', c2), Waiting(c2, queue'[d]),
         \A e \in Device \ {d} : queue'[e] = queue[e]
  PROVE  ExactInv'
<1>1. d = owner
  BY Account
<1> QED
  BY <1>1, AccountStep

LEMMA FreshFits ==
  ASSUME NEW l \in {"idle", "exit", "head"}, NEW q, NEW p, NEW out, NEW o
  PROVE  /\ Fits(o, FreshCmd(l, q, p, out))
         /\ FreshCmd(l, q, p, out).pc = l
         /\ l # "head" => ~Untouched(FreshCmd(l, q, p, out))
  BY DEF Fits, FreshCmd, Untouched

(* A command that ends, or starts over, without an effect on the store and the HEADs *)
LEMMA EndStep ==
  ASSUME NEW d \in Device, IInv, SnapInv, ExactInv, cmd[d].pc # "idle",
         UNCHANGED <<obj, reach, remote, unsent, leaked>>,
         UNCHANGED <<cloudHead, localHead, owner>>,
         NEW l \in {"idle", "exit", "head"}, NEW q, NEW p, NEW out,
         cmd' = [cmd EXCEPT ![d] = FreshCmd(l, q, p, out)],
         \A e \in Device \ {d} : queue'[e] = queue[e],
         l # "exit" => queue'[d] = {},
         clean' => clean /\ Resting(cmd[d]) /\ queue'[d] = queue[d]
  PROVE  ExactInv'
<1> DEFINE c2 == FreshCmd(l, q, p, out)
<1>1. Fits(obj', c2) /\ c2.pc = l /\ (l # "head" => ~Untouched(c2))
  BY FreshFits
<1> HIDE DEF c2
<1>2. Grew /\ NoCommitBelow(obj', reach') /\ d = owner
  BY Account DEF Grew
<1>3. Waiting(c2, queue'[d])
  BY <1>1 DEF Waiting
<1>4. ASSUME clean' PROVE AccountNext(d, c2)
  <2>1. /\ unsent \subseteq queue[d] /\ leaked \subseteq Available /\ AccountedFor(d)
        /\ Waiting(cmd[d], queue[d]) /\ Resting(cmd[d]) /\ queue'[d] = queue[d]
    BY <1>4, Account
  <2>2. Settled /\ cmd[d].pc # "cloudhead"
    BY <2>1 DEF AccountedFor, Resting, Untouched
  <2>3. Settled'
    BY <2>2 DEF Settled
  <2>4. localHead[d] \in {cloudHead, NoHead, TornHead}
    BY <2>1, <2>2 DEF AccountedFor
  <2>5. c2.pc = "exit" => queue'[d] \subseteq reach'[cloudHead']
    <3>1. CASE cmd[d].pc = "exit"
      BY <2>1, <3>1 DEF AccountedFor
    <3>2. CASE cmd[d].pc # "exit"
      BY <2>1, <3>2 DEF Resting, Waiting
    <3> QED
      BY <3>1, <3>2
  <2>6. Queued(reach', c2, queue'[d]) /\ c2.pc \notin Building \cup Committed
    BY <1>1 DEF Queued, Building, Committed
  <2>7. leaked' \subseteq Available' /\ unsent' \subseteq queue'[d]
    BY <2>1 DEF Available
  <2> QED
    BY <2>3, <2>4, <2>5, <2>6, <2>7, <1>1 DEF AccountNext
<1> QED
  BY <1>1, <1>2, <1>3, <1>4, AccountStep DEF c2

(* A step of the recursion that stores nothing *)
LEMMA BuildExact ==
  ASSUME NEW d \in Device, IInv, SnapInv, ExactInv, cmd[d].pc \in Building \cup {"head"},
         UNCHANGED <<obj, reach, remote, unsent, queue, clean>>,
         UNCHANGED <<cloudHead, localHead, owner>>,
         NEW c2, cmd' = [cmd EXCEPT ![d] = c2], c2.pc \in Building, Fits(obj, c2),
         Untouched(c2) => Untouched(cmd[d]) /\ leaked' = leaked,
         clean => /\ leaked' \subseteq Available
                  /\ Balanced(obj, reach, remote, leaked', c2)
                  /\ \A x \in queue[d] : Returned(reach, c2, x)
  PROVE  ExactInv'
<1>1. cmd[d].pc \notin {"idle", "cloudhead"} /\ c2.pc \notin Committed \cup {"idle", "exit", "cloudhead"}
  BY DEF Building, Committed
<1>2. /\ d = owner /\ NoCommitBelow(obj, reach) /\ Waiting(cmd[d], queue[d])
      /\ clean => /\ unsent \subseteq queue[d] /\ leaked \subseteq Available /\ AccountedFor(d)
  BY <1>1, Account
<1>3. Grew /\ NoCommitBelow(obj', reach') /\ Fits(obj', c2) /\ Waiting(c2, queue'[d])
  BY <1>1, <1>2 DEF Grew, Waiting
<1>4. ASSUME clean' PROVE AccountNext(d, c2)
  <2>1. localHead[d] \in {cloudHead, NoHead, TornHead} /\ (Resting(cmd[d]) => Settled)
    BY <1>1, <1>2, <1>4 DEF AccountedFor
  <2>2. Resting(c2) => Settled'
    BY <2>1, <1>1 DEF Resting, Settled
  <2>3. Queued(reach', c2, queue'[d])
    BY <1>1, <1>4 DEF Queued
  <2>4. unsent' \subseteq queue'[d] /\ leaked' \subseteq Available'
    BY <1>2, <1>4 DEF Available
  <2>5. Balanced(obj', reach', remote', leaked', c2)
    BY <1>4
  <2> QED
    BY <1>1, <2>1, <2>2, <2>3, <2>4, <2>5 DEF AccountNext
<1> QED
  BY <1>2, <1>3, <1>4, AccountStep

(* A step of the recursion that stores an object *)
LEMMA StoreExact ==
  ASSUME NEW d \in Device, IInv, SnapInv, ExactInv, cmd[d].pc \in Building,
         Extends(obj, reach, obj', reach'), NoCommitBelow(obj', reach'),
         UNCHANGED <<clean, leaked>>, UNCHANGED <<cloudHead, localHead, owner>>,
         NEW c2, cmd' = [cmd EXCEPT ![d] = c2], c2.pc \in Building \cup {"localhead"},
         Fits(obj', c2), ~Untouched(c2),
         remote' \subseteq remote \cup {NextHash}, Available \subseteq Available',
         \A e \in Device \ {d} : queue'[e] = queue[e],
         clean /\ unsent \subseteq queue[d] => unsent' \subseteq queue'[d],
         \A x : Claims(obj', reach', c2, x) <=> Claims(obj, reach, cmd[d], x) \/ x = NextHash,
         clean /\ (\A x \in queue[d] : Returned(reach, cmd[d], x)) => Queued(reach', c2, queue'[d])
  PROVE  ExactInv'
<1>1. cmd[d].pc \notin {"idle", "cloudhead"} /\ c2.pc \notin {"idle", "exit", "cloudhead"}
  BY DEF Building
<1>2. /\ d = owner /\ leaked \subseteq Hash
      /\ clean => /\ unsent \subseteq queue[d] /\ leaked \subseteq Available /\ AccountedFor(d)
  BY <1>1, Account
<1>3. Grew /\ Waiting(c2, queue'[d])
  BY <1>1 DEF Grew, Waiting
<1>4. NextHash \notin leaked
  BY <1>2, Facts DEF NextHash, Hash
<1>5. ASSUME clean' PROVE AccountNext(d, c2)
  <2>1. Balanced(obj, reach, remote, leaked, cmd[d]) /\ localHead[d] \in {cloudHead, NoHead, TornHead}
    BY <1>1, <1>2, <1>5 DEF AccountedFor
  <2>2. Balanced(obj', reach', remote', leaked', c2)
    BY <2>1, <1>4 DEF Balanced
  <2>3. \A x \in queue[d] : Returned(reach, cmd[d], x)
    BY <1>2, <1>5 DEF AccountedFor, Queued
  <2>4. Queued(reach', c2, queue'[d]) /\ unsent' \subseteq queue'[d]
    BY <1>2, <1>5, <2>3
  <2>5. leaked' \subseteq Available'
    BY <1>2, <1>5
  <2>6. ~Resting(c2)
    BY <1>1 DEF Resting
  <2> QED
    BY <1>1, <2>1, <2>2, <2>4, <2>5, <2>6 DEF AccountNext
<1> QED
  BY <1>2, <1>3, <1>5, AccountStep

(* A step past the commit.  What it removes was to be deleted, so that nothing leaked and
   nothing the pool has still to upload is among it. *)
LEMMA CommittedExact ==
  ASSUME NEW d \in Device, IInv, SnapInv, ExactInv, cmd[d].pc \in Committed,
         UNCHANGED <<obj, reach, unsent, queue, leaked, owner>>, clean' => clean,
         NEW c2, cmd' = [cmd EXCEPT ![d] = c2], c2.pc \in Committed,
         c2.newc = cmd[d].newc, c2.ret = cmd[d].ret,
         NEW gone, gone \subseteq Remaining(cmd[d]), remote' = remote \ gone,
         clean' => /\ Remaining(c2) \subseteq Remaining(cmd[d])
                   /\ Remaining(cmd[d]) \subseteq Remaining(c2) \cup gone,
         clean' /\ c2.pc # "cloudhead" => localHead'[d] \in {cloudHead', NoHead, TornHead}
  PROVE  ExactInv'
<1>1. /\ cmd[d].pc # "idle" /\ c2.pc \notin Building \cup {"idle", "exit"}
      /\ cmd[d].pc \notin Building \cup {"idle", "exit"} /\ ~Untouched(c2)
  BY DEF Building, Committed, Untouched
<1>2. /\ d = owner /\ NoCommitBelow(obj, reach) /\ Fits(obj, cmd[d])
      /\ clean => /\ unsent \subseteq queue[d] /\ leaked \subseteq Available /\ AccountedFor(d)
  BY <1>1, Account
<1>3. Fits(obj', c2)
  BY <1>1, <1>2 DEF Fits, Committed
<1>4. Grew /\ NoCommitBelow(obj', reach') /\ Waiting(c2, queue'[d])
  BY <1>1, <1>2 DEF Grew, Waiting
<1>5. ASSUME clean' PROVE AccountNext(d, c2)
  <2>1. Balanced(obj, reach, remote, leaked, cmd[d]) /\ Queued(reach, cmd[d], queue[d])
    BY <1>2, <1>5 DEF AccountedFor
  <2>2. \A x : Claims(obj, reach, cmd[d], x) <=> x \in reach[cmd[d].newc] \/ x \in Remaining(cmd[d])
    BY <1>1 DEF Claims
  <2>3. \A x : Claims(obj', reach', c2, x) <=> x \in reach[cmd[d].newc] \/ x \in Remaining(c2)
    BY <1>1 DEF Claims
  <2>4. /\ \A x \in Remaining(c2) : x \in Remaining(cmd[d])
        /\ \A x \in Remaining(cmd[d]) : x \in Remaining(c2) \/ x \in gone
    BY <1>5
  <2>5. Balanced(obj', reach', remote', leaked', c2)
    BY <2>1, <2>2, <2>3, <2>4 DEF Balanced
  <2>6. leaked \cap gone = {}
    BY <2>1, <2>2 DEF Balanced
  <2>7. leaked' \subseteq Available'
    BY <1>2, <1>5, <2>6 DEF Available
  <2>8. Queued(reach', c2, queue'[d])
    BY <1>1, <2>1 DEF Queued
  <2>9. ~Resting(c2) /\ unsent' \subseteq queue'[d]
    BY <1>1, <1>2, <1>5 DEF Resting
  <2> QED
    BY <1>1, <1>5, <2>5, <2>7, <2>8, <2>9 DEF AccountNext
<1> QED
  BY <1>2, <1>3, <1>4, <1>5, AccountStep

----------------------------------------------------------------------------
(* Every action keeps the invariant *)

LEMMA StartExact ==
  ASSUME NEW d \in Device, IInv, SnapInv, ExactInv, Disciplined, Start(d) \/ SyncTorn(d)
  PROVE  ExactInv'
<1>0. /\ localHead \in [Device -> Commits \cup {NoHead, TornHead}] /\ owner \in Device
      /\ NoCommitBelow(obj, reach)
      /\ \A e \in Device : Fits(obj, cmd[e]) /\ Waiting(cmd[e], queue[e])
      /\ clean => unsent \subseteq queue[owner] /\ leaked \subseteq Available /\ AccountedFor(owner)
  BY Facts DEF TypeOK, ExactInv
<1>1. /\ UNCHANGED <<obj, reach, remote, unsent, leaked>> /\ UNCHANGED <<queue, clean, cloudHead>>
  BY DEF Start, Begin, Sync, InitExisting, SyncTorn, storeVars, headVars, poolVars, ghostVars
<1>2. \A e \in Device : cmd[e].pc = "idle" /\ queue[e] = {}
  BY <1>0 DEF Start, Begin, Sync, InitExisting, SyncTorn, MayStart, At, Waiting
<1>3. clean => /\ Settled /\ leaked \subseteq Available /\ unsent = {}
               /\ localHead[owner] \in {cloudHead, NoHead, TornHead}
  BY <1>0, <1>2 DEF AccountedFor, Resting
<1>4. clean' => Settled' /\ leaked' \subseteq Available' /\ unsent' = {}
  BY <1>1, <1>3 DEF Settled, Available
<1>5. CASE Begin(d)
  <2>1. PICK o \in Op, p \in Path : cmd' = [cmd EXCEPT ![d] = FreshCmd("head", o, p, "none")]
    BY <1>5 DEF Begin
  <2> DEFINE c2 == FreshCmd("head", o, p, "none")
  <2>2. Fits(obj', c2) /\ c2.pc = "head"
    BY FreshFits
  <2> HIDE DEF c2
  <2>3. d = owner /\ UNCHANGED <<localHead, owner>>
    BY <1>5 DEF Begin, headVars
  <2>4. Grew /\ NoCommitBelow(obj', reach') /\ Waiting(c2, queue'[d])
    BY <1>0, <1>1, <1>2 DEF Grew, Waiting
  <2>5. Queued(reach', c2, queue'[d]) /\ c2.pc \notin Building \cup Committed
    BY <2>2 DEF Queued, Building, Committed
  <2>6. clean' => AccountNext(d, c2)
    BY <1>1, <1>3, <1>4, <2>2, <2>3, <2>5 DEF AccountNext
  <2> QED
    BY <1>1, <2>1, <2>2, <2>3, <2>4, <2>6, AccountStep DEF c2
<1>6. CASE Sync(d) \/ InitExisting(d) \/ SyncTorn(d)
  <2>1. UNCHANGED cmd
    BY <1>6 DEF Sync, InitExisting, SyncTorn
  <2>2. owner' \in Device /\ (clean => localHead'[owner'] \in {cloudHead, NoHead, TornHead})
    BY <1>0, <1>3, <1>6 DEF Sync, InitExisting, SyncTorn
  <2>3. cmd'[owner'].pc = "idle"
    BY <1>2, <2>1, <2>2
  <2>4. ASSUME clean' PROVE AccountedFor(owner)'
    BY <1>1, <1>4, <2>2, <2>3, <2>4 DEF AccountedFor, Queued, Building, Committed
  <2>5. NoCommitBelow(obj', reach') /\ \A e \in Device : Fits(obj', cmd'[e]) /\ Waiting(cmd'[e], queue'[e])
    BY <1>0, <1>1, <2>1
  <2> QED
    BY <1>4, <2>4, <2>5 DEF ExactInv
<1> QED
  BY <1>5, <1>6 DEF Start

LEMMA ReadHeadExact ==
  ASSUME NEW d \in Device, IInv, SnapInv, ExactInv, ReadHead(d) PROVE ExactInv'
<1> DEFINE c == cmd[d]
           next == CASE c.op = "add"   -> "blob"
                     [] c.op = "mkdir" -> "leaf"
                     [] OTHER          -> "walk"
           c2 == [c EXCEPT !.base = localHead[d], !.cur = obj[localHead[d]].root, !.pc = next]
<1>0. c \in Command /\ cmd \in [Device -> Command] /\ CmdShape(obj, c) /\ c.pc = "head"
  BY Facts DEF ReadHead, At
<1>1. cmd' = [cmd EXCEPT ![d] = c2]
  BY <1>0 DEF ReadHead
<1>2. next \in Descending /\ next \in Building
      /\ (next = "blob" => c.op = "add") /\ (next = "leaf" => c.op = "mkdir")
  BY DEF Descending, Building
<1> HIDE DEF next
<1>3. c2.pc = next /\ c2.ret = 0 /\ c2.op = c.op
  BY <1>0 DEF Command, CmdShape
<1>4. CommitIn(obj, localHead[d]) /\ StoreInv(obj, reach) /\ obj \in Seq(Object) /\ reach \in Seq(SUBSET Nat)
  BY Facts, HeadIsCommit DEF ReadHead
<1>5. \A x : Claims(obj, reach, c2, x) <=> x \in reach[localHead[d]]
  <2>1. c2 = [c EXCEPT !.base = localHead[d], !.cur = obj[localHead[d]].root, !.pc = next]
    OBVIOUS
  <2> HIDE DEF c, c2
  <2> QED
    BY ONLY <1>0, <1>2, <1>4, <2>1, HeadClaims
<1> HIDE DEF c2
<1>6. UNCHANGED <<obj, reach, remote, unsent, queue, clean>> /\ UNCHANGED <<cloudHead, localHead, owner>>
      /\ leaked' = leaked
  BY DEF ReadHead, storeVars, headVars, poolVars, ghostVars
<1>7. Untouched(c) /\ Fits(obj, c2)
  BY <1>0, <1>2, <1>3 DEF Untouched, Fits, Upsert, Descending
<1>8. queue[d] = {} /\ (clean => leaked \subseteq Available /\ AccountedFor(d))
  BY <1>0, <1>7, Account DEF Waiting
<1>9. ASSUME clean PROVE Balanced(obj, reach, remote, leaked, c2)
  <2>1. Settled /\ localHead[d] \in {cloudHead, NoHead, TornHead}
    BY <1>0, <1>7, <1>8, <1>9 DEF AccountedFor, Resting
  <2>2. localHead[d] = cloudHead
    BY <1>4, <2>1, ConstantsAssumption DEF CommitIn
  <2> QED
    BY <1>5, <2>1, <2>2 DEF Settled, Balanced
<1> QED
  BY <1>0, <1>1, <1>2, <1>3, <1>6, <1>7, <1>8, <1>9, BuildExact

(* What the invariants say of a command that has loaded the next tree of its path *)
LEMMA WalkFacts ==
  ASSUME NEW d \in Device, IInv, SnapInv, ExactInv, Loaded(d)
  PROVE  /\ StoreInv(obj, reach) /\ obj \in Seq(Object) /\ reach \in Seq(SUBSET Nat)
         /\ cmd \in [Device -> Command] /\ cmd[d] \in Command /\ CmdShape(obj, cmd[d])
         /\ Apart(obj, reach, cmd[d])
         /\ cmd[d].pc = "walk" /\ cmd[d].pc \in Building
         /\ d = owner /\ NoCommitBelow(obj, reach) /\ Fits(obj, cmd[d])
         /\ clean => /\ leaked \subseteq Available
                     /\ Balanced(obj, reach, remote, leaked, cmd[d])
                     /\ \A x \in queue[d] : Returned(reach, cmd[d], x)
<1>1. cmd[d].pc = "walk" /\ cmd[d].pc \in Building
  BY DEF Loaded, At, Building
<1>2. d = owner /\ NoCommitBelow(obj, reach) /\ Fits(obj, cmd[d])
      /\ (clean => leaked \subseteq Available /\ AccountedFor(d))
  BY <1>1, Account
<1>3. clean => /\ Balanced(obj, reach, remote, leaked, cmd[d])
               /\ \A x \in queue[d] : Returned(reach, cmd[d], x)
  BY <1>1, <1>2 DEF AccountedFor, Queued
<1> QED
  BY <1>1, <1>2, <1>3, Facts

(* The entry it finds: a blob or a tree, with no commit below it *)
LEMMA EntryBelow ==
  ASSUME NEW d \in Device, IInv, SnapInv, ExactInv, Loaded(d), Entry(cmd[d]) # 0
  PROVE  /\ Entry(cmd[d]) \in Hash
         /\ obj[Entry(cmd[d])].kind \in {"blob", "tree"}
         /\ Entry(cmd[d]) \in reach[Entry(cmd[d])]
         /\ obj[Entry(cmd[d])].kind = "blob" => reach[Entry(cmd[d])] = {Entry(cmd[d])}
         /\ reach[Entry(cmd[d])] \subseteq Hash
         /\ \A x \in reach[Entry(cmd[d])] : obj[x].kind # "commit"
         /\ \A x : x \in reach[Entry(cmd[d])] <=>
                     Under(obj, reach, cmd[d].cur, cmd[d].path[Level(cmd[d])], x)
<1> DEFINE c == cmd[d]
           k == Entry(c)
<1>0. /\ StoreInv(obj, reach) /\ obj \in Seq(Object) /\ reach \in Seq(SUBSET Nat)
      /\ c \in Command /\ CmdShape(obj, c) /\ Apart(obj, reach, c) /\ c.pc = "walk"
      /\ NoCommitBelow(obj, reach)
  BY WalkFacts
<1>1. k = obj[c.cur].dir[c.path[Level(c)]]
  BY DEF Entry
<1>2. k \in 1..Len(obj) /\ \A x \in reach[k] : Under(obj, reach, c.cur, c.path[Level(c)], x)
  BY <1>0, <1>1, EntryKnown
<1>3. \A x : x \in reach[k] <=> Under(obj, reach, c.cur, c.path[Level(c)], x)
  BY <1>1, <1>2 DEF Under
<1>4. k \in reach[k] /\ reach[k] \subseteq 1..k /\ (obj[k].kind = "blob" => reach[k] = {k})
  BY <1>0, <1>2 DEF StoreInv, ObjectInv
<1>5. TreeIn(obj, c.cur) /\ ObjectInv(obj, reach, c.cur)
  BY <1>0 DEF CmdShape, StoreInv, TreeIn
<1>6. c.path[Level(c)] \in Name
  <2>1. c.path \in Path /\ Len(c.old) < Len(c.path) /\ c.old \in Seq(Nat)
    BY <1>0 DEF CmdShape, Command
  <2>2. Len(c.path) \in Nat /\ \A i \in 1..Len(c.path) : c.path[i] \in Name
    BY <2>1, PathFacts
  <2>3. Level(c) \in 1..Len(c.path)
    BY <2>1, <2>2 DEF Level
  <2> QED
    BY <2>2, <2>3
<1>7. \A x \in reach[k] : x \in reach[c.cur]
  BY <1>2, <1>5, <1>6 DEF TreeIn, ObjectInv
<1>8. \A x \in reach[c.cur] : obj[x].kind # "commit"
  BY <1>0, <1>5 DEF TreeIn, NoCommitBelow
<1>9. obj[k] \in Object
  BY <1>0, <1>2
<1>10. obj[k].kind \in {"blob", "tree"}
  BY <1>4, <1>7, <1>8, <1>9 DEF Object
<1>11. reach[k] \subseteq Hash
  BY <1>2, <1>4 DEF Hash
<1> QED
  BY <1>2, <1>3, <1>4, <1>7, <1>8, <1>10, <1>11 DEF Hash

LEMMA DescendExact ==
  ASSUME NEW d \in Device, IInv, SnapInv, ExactInv, Descend(d) PROVE ExactInv'
<1> DEFINE c == cmd[d]
           c2 == WithEntry(c, Entry(c))
<1>0. /\ StoreInv(obj, reach) /\ obj \in Seq(Object) /\ reach \in Seq(SUBSET Nat)
      /\ cmd \in [Device -> Command] /\ c \in Command /\ CmdShape(obj, c)
      /\ c.pc = "walk"
  BY WalkFacts DEF Descend
<1>c. /\ c.pc \in Building /\ Fits(obj, c)
      /\ clean => /\ leaked \subseteq Available /\ Balanced(obj, reach, remote, leaked, c)
                  /\ \A x \in queue[d] : Returned(reach, c, x)
  BY WalkFacts DEF Descend
<1>1. cmd' = [cmd EXCEPT ![d] = c2]
  BY <1>0 DEF Descend, WithEntry
<1>2. Entry(c) = obj[c.cur].dir[c.path[Level(c)]] /\ Entry(c) # 0
  BY DEF Descend, Entry, IsTree
<1>3. c2 = WithEntry(c, Entry(c))
  OBVIOUS
<1>4. c2.pc = "walk" /\ c2.ret = c.ret /\ c2.op = c.op
  BY <1>0 DEF Command, WithEntry
<1> HIDE DEF c, c2
<1>5. /\ \A x : Claims(obj, reach, c2, x) <=> Claims(obj, reach, c, x)
      /\ \A x : Returned(reach, c2, x) <=> Returned(reach, c, x)
  BY ONLY <1>0, <1>2, <1>3, DescendClaims
<1>6. UNCHANGED <<obj, reach, remote, unsent, queue, clean>> /\ UNCHANGED <<cloudHead, localHead, owner>>
      /\ leaked' = leaked
  BY DEF Descend, storeVars, headVars, poolVars, ghostVars
<1>7. Fits(obj, c2) /\ (Untouched(c2) => Untouched(c)) /\ c2.pc \in Building
  BY <1>0, <1>c, <1>4 DEF Fits, Untouched, Building
<1>8. clean => /\ leaked' \subseteq Available /\ Balanced(obj, reach, remote, leaked', c2)
               /\ \A x \in queue[d] : Returned(reach, c2, x)
  BY <1>c, <1>5, <1>6 DEF Balanced
<1> QED
  BY <1>c, <1>1, <1>6, <1>7, <1>8, BuildExact DEF c

LEMMA MissingParentExact ==
  ASSUME NEW d \in Device, IInv, SnapInv, ExactInv, MissingParent(d) PROVE ExactInv'
<1> DEFINE c == cmd[d]
           c2 == WithoutEntry(c)
<1>0. /\ StoreInv(obj, reach) /\ obj \in Seq(Object) /\ reach \in Seq(SUBSET Nat)
      /\ cmd \in [Device -> Command] /\ c \in Command /\ CmdShape(obj, c)
      /\ c.pc = "walk"
  BY WalkFacts DEF MissingParent
<1>c. /\ c.pc \in Building /\ Fits(obj, c)
      /\ clean => /\ leaked \subseteq Available /\ Balanced(obj, reach, remote, leaked, c)
                  /\ \A x \in queue[d] : Returned(reach, c, x)
  BY WalkFacts DEF MissingParent
<1>1. cmd' = [cmd EXCEPT ![d] = c2]
  BY <1>0 DEF MissingParent, WithoutEntry
<1>2. obj[c.cur].dir[c.path[Level(c)]] = 0 /\ Upsert(c)
  BY DEF MissingParent, Entry
<1>3. c2 = WithoutEntry(c)
  OBVIOUS
<1>4. c2.pc = "parent" /\ c2.ret = c.ret /\ c2.op = c.op
  BY <1>0 DEF Command, WithoutEntry
<1> HIDE DEF c, c2
<1>5. /\ \A x : Claims(obj, reach, c2, x) <=> Claims(obj, reach, c, x)
      /\ \A x : Returned(reach, c2, x) <=> Returned(reach, c, x)
  BY ONLY <1>0, <1>2, <1>3, MissingClaims
<1>6. UNCHANGED <<obj, reach, remote, unsent, queue, clean>> /\ UNCHANGED <<cloudHead, localHead, owner>>
      /\ leaked' = leaked
  BY DEF MissingParent, storeVars, headVars, poolVars, ghostVars
<1>7. Fits(obj, c2) /\ ~Untouched(c2) /\ c2.pc \in Building
  BY <1>0, <1>c, <1>2, <1>4 DEF Fits, Untouched, Building, Upsert
<1>8. clean => /\ leaked' \subseteq Available /\ Balanced(obj, reach, remote, leaked', c2)
               /\ \A x \in queue[d] : Returned(reach, c2, x)
  BY <1>c, <1>5, <1>6 DEF Balanced
<1> QED
  BY <1>c, <1>1, <1>6, <1>7, <1>8, BuildExact DEF c

(* The last level: what was below the entry is to be deleted, or has leaked *)
EntryGoes(c, ret, trees, blobs, more) ==
  /\ ret = c.ret \/ (c.ret = 0 /\ ret = 0)
  /\ more \subseteq Available /\ more \cap (trees \cup blobs) = {}
  /\ \A x : Under(obj, reach, c.cur, c.path[Level(c)], x) <=>
              x \in trees \cup blobs \/ x \in more

LEMMA EditExact ==
  ASSUME NEW d \in Device, IInv, SnapInv, ExactInv, Loaded(d), LastLevel(cmd[d]),
         UNCHANGED <<obj, reach, remote, unsent, queue, clean>>,
         UNCHANGED <<cloudHead, localHead, owner>>,
         NEW ret, NEW trees, NEW blobs, NEW more, EntryGoes(cmd[d], ret, trees, blobs, more),
         cmd' = [cmd EXCEPT ![d] = Edited(cmd[d], ret, trees, blobs)],
         leaked' = leaked \cup more
  PROVE  ExactInv'
<1> DEFINE c == cmd[d]
           c2 == Edited(c, ret, trees, blobs)
<1>0. /\ StoreInv(obj, reach) /\ obj \in Seq(Object) /\ reach \in Seq(SUBSET Nat)
      /\ c \in Command /\ CmdShape(obj, c) /\ Apart(obj, reach, c) /\ c.pc = "walk"
      /\ Level(c) = Len(c.path)
  BY WalkFacts DEF LastLevel
<1>1. /\ c.pc \in Building /\ Fits(obj, c)
      /\ clean => /\ leaked \subseteq Available /\ Balanced(obj, reach, remote, leaked, c)
                  /\ \A x \in queue[d] : Returned(reach, c, x)
  BY WalkFacts
<1>2. c2 = Edited(c, ret, trees, blobs)
  OBVIOUS
<1>g. /\ ret = c.ret \/ (c.ret = 0 /\ ret = 0)
      /\ more \subseteq Available /\ more \cap (trees \cup blobs) = {}
      /\ \A x : Under(obj, reach, c.cur, c.path[Level(c)], x) <=>
                  x \in trees \cup blobs \/ x \in more
  BY DEF EntryGoes
<1>3. /\ c2.pc = "store" /\ c2.ret = c.ret /\ c2.old = Append(c.old, c.cur)
      /\ c2.path = c.path /\ c2.base = c.base
  BY <1>0, <1>g DEF Edited, Command
<1> HIDE DEF c2
<1>4. /\ \A x : Claims(obj, reach, c2, x) <=>
                  PushedClaims(obj, reach, c, c2, x) \/ x \in trees \cup blobs
      /\ \A x : Claims(obj, reach, c, x) <=>
                  \/ PushedClaims(obj, reach, c, c2, x)
                  \/ Under(obj, reach, c.cur, c.path[Level(c)], x)
      /\ \A x : Returned(reach, c2, x) <=> Returned(reach, c, x)
  <2>1. ret = c.ret \/ (c.ret = 0 /\ ret = 0)
    BY <1>g
  <2> HIDE DEF c
  <2> QED
    BY ONLY <1>0, <1>2, <2>1, EditedClaims
<1>5. Pushed(obj, reach, c, c2)
  BY <1>0, <1>3, PushLevel
<1>6. \A x : Under(obj, reach, c.cur, c.path[Level(c)], x) => ~PushedClaims(obj, reach, c, c2, x)
  BY <1>4, <1>5 DEF Pushed, PushedClaims
<1>7. Fits(obj, c2) /\ ~Untouched(c2) /\ c2.pc \in Building
  BY <1>1, <1>3 DEF Fits, Untouched, Building
<1>8. ASSUME clean PROVE Balanced(obj, reach, remote, leaked', c2)
  <2>1. \A x \in leaked : ~Claims(obj, reach, c2, x)
    BY <1>1, <1>4, <1>8, <1>g DEF Balanced
  <2>2. \A x \in more : ~Claims(obj, reach, c2, x)
    BY <1>4, <1>6, <1>g
  <2>3. \A x \in remote : Claims(obj, reach, c2, x) \/ x \in leaked \cup more
    BY <1>1, <1>4, <1>8, <1>g DEF Balanced
  <2> QED
    BY <2>1, <2>2, <2>3 DEF Balanced
<1>9. clean => leaked' \subseteq Available /\ \A x \in queue[d] : Returned(reach, c2, x)
  BY <1>1, <1>4, <1>g
<1> QED
  BY <1>1, <1>7, <1>8, <1>9, BuildExact DEF c2

LEMMA LeafUpsertExact ==
  ASSUME NEW d \in Device, IInv, SnapInv, ExactInv, LeafUpsert(d) PROVE ExactInv'
<1> DEFINE c == cmd[d]
           k == Entry(c)
           more == {k} \ {0}
<1>0. /\ cmd \in [Device -> Command] /\ Loaded(d) /\ LastLevel(c) /\ c \in Command
      /\ leaked' = leaked \cup more
  BY Facts DEF LeafUpsert
<1>1. cmd' = [cmd EXCEPT ![d] = Edited(c, c.ret, {}, {})]
  BY <1>0 DEF LeafUpsert
<1>2. UNCHANGED <<obj, reach, remote, unsent, queue, clean>> /\ UNCHANGED <<cloudHead, localHead, owner>>
  BY DEF LeafUpsert, storeVars, headVars, poolVars
<1>3. /\ more \subseteq Available
      /\ \A x : Under(obj, reach, c.cur, c.path[Level(c)], x) <=> x \in {} \cup {} \/ x \in more
  <2>1. CASE k = 0
    <3>1. obj[c.cur].dir[c.path[Level(c)]] = 0
      BY <2>1 DEF Entry
    <3> QED
      BY <2>1, <3>1 DEF Under
  <2>2. CASE k # 0
    <3>1. obj[k].kind # "tree"
      BY <2>2 DEF LeafUpsert, IsTree
    <3>2. /\ reach[k] = {k}
          /\ \A x : x \in reach[k] <=> Under(obj, reach, c.cur, c.path[Level(c)], x)
      BY <1>0, <2>2, <3>1, EntryBelow
    <3>3. k \in Available
      BY <1>0, <2>2, <3>2, EntrySafe DEF Safe
    <3> QED
      BY <2>2, <3>2, <3>3
  <2> QED
    BY <2>1, <2>2
<1>4. EntryGoes(c, c.ret, {}, {}, more)
  BY <1>3 DEF EntryGoes
<1> HIDE DEF more
<1> QED
  BY <1>0, <1>1, <1>2, <1>4, EditExact

LEMMA LeafRemoveExact ==
  ASSUME NEW d \in Device, IInv, SnapInv, ExactInv, LeafRemove(d) PROVE ExactInv'
<1> DEFINE c == cmd[d]
           k == Entry(c)
<1>0. /\ cmd \in [Device -> Command] /\ Loaded(d) /\ LastLevel(c) /\ c \in Command
      /\ leaked' = leaked \cup {} /\ c.op = "remove" /\ k # 0 /\ obj[k].kind = "blob"
  BY Facts DEF LeafRemove, IsBlob, ghostVars
<1>1. cmd' = [cmd EXCEPT ![d] = Edited(c, 0, {}, {k})]
  BY <1>0 DEF LeafRemove
<1>2. UNCHANGED <<obj, reach, remote, unsent, queue, clean>> /\ UNCHANGED <<cloudHead, localHead, owner>>
  BY DEF LeafRemove, storeVars, headVars, poolVars, ghostVars
<1>3. c.ret = 0
  BY <1>0, WalkFacts DEF Fits, Untouched
<1>4. \A x : Under(obj, reach, c.cur, c.path[Level(c)], x) <=> x \in {} \cup {k} \/ x \in {}
  BY <1>0, EntryBelow
<1>5. EntryGoes(c, 0, {}, {k}, {})
  BY <1>3, <1>4 DEF EntryGoes
<1> QED
  BY <1>0, <1>1, <1>2, <1>5, EditExact

LEMMA LeafRmdirExact ==
  ASSUME NEW d \in Device, IInv, SnapInv, ExactInv, LeafRmdir(d) PROVE ExactInv'
<1> DEFINE c == cmd[d]
           k == Entry(c)
           trees == TreesIn(reach[k])
           blobs == BlobsIn(reach[k])
<1>0. /\ cmd \in [Device -> Command] /\ Loaded(d) /\ LastLevel(c) /\ c \in Command
      /\ leaked' = leaked \cup {} /\ c.op \in {"rmdir", "rmdirall"} /\ k # 0
  BY Facts DEF LeafRmdir, RmdirTarget, IsTree, ghostVars
<1>1. cmd' = [cmd EXCEPT ![d] = Edited(c, 0, trees, blobs)]
  BY <1>0 DEF LeafRmdir
<1>2. UNCHANGED <<obj, reach, remote, unsent, queue, clean>> /\ UNCHANGED <<cloudHead, localHead, owner>>
  BY DEF LeafRmdir, storeVars, headVars, poolVars, ghostVars
<1>3. c.ret = 0
  BY <1>0, WalkFacts DEF Fits, Untouched
<1>4. \A x \in reach[k] : obj[x].kind \in {"blob", "tree"}
  <2>1. \A x \in reach[k] : x \in 1..Len(obj) /\ obj[x].kind # "commit"
    BY <1>0, EntryBelow DEF Hash
  <2>2. \A x \in 1..Len(obj) : obj[x].kind \in {"blob", "tree", "commit"}
    <3>1. obj \in Seq(Object)
      BY <1>0, WalkFacts
    <3>2. \A x \in 1..Len(obj) : obj[x] \in Object
      BY ONLY <3>1
    <3> QED
      BY ONLY <3>2 DEF Object
  <2> QED
    BY <2>1, <2>2
<1>5. trees \cup blobs = reach[k]
  BY <1>4 DEF TreesIn, BlobsIn
<1>6. \A x : Under(obj, reach, c.cur, c.path[Level(c)], x) <=> x \in trees \cup blobs \/ x \in {}
  BY <1>0, <1>5, EntryBelow
<1> HIDE DEF trees, blobs
<1>7. EntryGoes(c, 0, trees, blobs, {})
  BY <1>3, <1>6 DEF EntryGoes
<1> QED
  BY <1>0, <1>1, <1>2, <1>7, EditExact

(* The prompt: nothing has been stored yet *)
LEMMA AskConfirmExact ==
  ASSUME NEW d \in Device, IInv, SnapInv, ExactInv, AskConfirm(d) PROVE ExactInv'
<1> DEFINE c == cmd[d]
           c2 == [c EXCEPT !.pc = "confirm"]
<1>0. /\ cmd \in [Device -> Command] /\ c \in Command /\ Loaded(d) /\ c.op = "rmdir" /\ c.pc = "walk"
  BY Facts DEF AskConfirm, RmdirTarget, NeedsConfirm, Loaded, At
<1>1. cmd' = [cmd EXCEPT ![d] = c2]
  BY <1>0 DEF AskConfirm
<1>2. c2.pc = "confirm" /\ c2.ret = c.ret /\ c2.op = "rmdir"
  BY <1>0 DEF Command
<1> HIDE DEF c2
<1>3. /\ UNCHANGED <<obj, reach, remote, unsent, leaked>> /\ UNCHANGED <<queue, clean>>
      /\ UNCHANGED <<cloudHead, localHead, owner>>
  BY DEF AskConfirm, storeVars, headVars, poolVars, ghostVars
<1>4. Untouched(c) /\ Untouched(c2)
  BY <1>0, <1>2 DEF Untouched
<1>5. /\ d = owner /\ NoCommitBelow(obj, reach) /\ Fits(obj, c) /\ queue[d] = {}
      /\ clean => unsent \subseteq queue[d] /\ leaked \subseteq Available /\ AccountedFor(d)
  BY <1>0, <1>4, Account DEF Waiting
<1>6. Grew /\ NoCommitBelow(obj', reach') /\ Fits(obj', c2) /\ Waiting(c2, queue'[d])
  BY <1>2, <1>3, <1>4, <1>5 DEF Grew, Waiting, Fits
<1>7. ASSUME clean' PROVE AccountNext(d, c2)
  <2>1. Settled /\ localHead[d] \in {cloudHead, NoHead, TornHead}
    BY <1>0, <1>3, <1>4, <1>5, <1>7 DEF AccountedFor, Resting
  <2>2. Settled' /\ leaked' \subseteq Available' /\ unsent' \subseteq queue'[d]
    BY <1>3, <1>5, <1>7, <2>1 DEF Settled, Available
  <2>3. Queued(reach', c2, queue'[d]) /\ c2.pc \notin Building \cup Committed \cup {"exit"}
    BY <1>2 DEF Queued, Building, Committed
  <2> QED
    BY <1>3, <2>1, <2>2, <2>3 DEF AccountNext
<1> QED
  BY <1>1, <1>3, <1>5, <1>6, <1>7, AccountStep

(* What the invariants say of a command that stores its next object *)
LEMMA StoringFacts ==
  ASSUME NEW d \in Device, IInv, SnapInv, ExactInv, cmd[d].pc \in Building
  PROVE  /\ StoreInv(obj, reach) /\ obj \in Seq(Object) /\ reach \in Seq(SUBSET Nat)
         /\ cmd \in [Device -> Command] /\ cmd[d] \in Command /\ CmdShape(obj, cmd[d])
         /\ Apart(obj, reach, cmd[d]) /\ queue \in [Device -> SUBSET Hash]
         /\ NoCommitBelow(obj, reach) /\ Fits(obj, cmd[d])
<1>1. cmd[d].pc # "idle"
  BY DEF Building
<1>2. NoCommitBelow(obj, reach) /\ Fits(obj, cmd[d])
  BY <1>1, Account
<1> QED
  BY <1>2, Facts DEF TypeOK

LEMMA StoreLeafExact ==
  ASSUME NEW d \in Device, IInv, SnapInv, ExactInv, StoreBlob(d) \/ StoreLeaf(d) PROVE ExactInv'
<1> DEFINE c == cmd[d]
           c2 == WithLeaf(c, Len(obj'))
<1>0. c.pc \in {"blob", "leaf"} /\ c.pc \in Building
  BY DEF StoreBlob, StoreLeaf, At, Building
<1>1. /\ StoreInv(obj, reach) /\ obj \in Seq(Object) /\ reach \in Seq(SUBSET Nat)
      /\ c \in Command /\ CmdShape(obj, c)
  BY <1>0, StoringFacts
<1>2. /\ cmd \in [Device -> Command] /\ queue \in [Device -> SUBSET Hash]
      /\ NoCommitBelow(obj, reach) /\ Upsert(c)
  BY <1>0, StoringFacts DEF Fits
<1>3. /\ Extends(obj, reach, obj', reach') /\ reach'[Len(obj')] = {Len(obj')}
      /\ Len(obj') = NextHash /\ obj'[Len(obj')].kind # "commit"
  <2>1. CASE StoreBlob(d)
    <3>1. Extends(obj, reach, obj', reach') /\ reach'[Len(obj')] = {Len(obj')}
      BY <1>1, <2>1, NewBlob DEF StoreBlob, Encrypt, NextHash
    <3>2. Len(obj') = NextHash
      BY <3>1 DEF Extends, Grows, NextHash
    <3>3. obj'[NextHash] = Blob
      BY <1>1, <2>1 DEF StoreBlob, Encrypt, NextHash
    <3> QED
      BY <3>1, <3>2, <3>3 DEF Blob
  <2>2. CASE StoreLeaf(d)
    BY <2>2, EmptyTreeStored DEF StoreLeaf, TreeIn
  <2> QED
    BY <2>1, <2>2
<1>4. NoCommitBelow(obj', reach')
  BY <1>1, <1>2, <1>3, KindsGrow
<1>5. cmd' = [cmd EXCEPT ![d] = c2]
  BY <1>1, <1>2, <1>3 DEF StoreBlob, StoreLeaf, WithLeaf
<1>6. c2 = WithLeaf(c, Len(obj')) /\ c2.pc = "walk" /\ c2.ret = Len(obj') /\ c2.op = c.op
  BY <1>1 DEF WithLeaf, Command
<1> HIDE DEF c2
<1>7. /\ \A x : Claims(obj', reach', c2, x) <=> Claims(obj, reach, c, x) \/ x = Len(obj')
      /\ \A x : Returned(reach', c2, x) <=> x = Len(obj')
  <2> HIDE DEF c
  <2> QED
    BY ONLY <1>0, <1>1, <1>3, <1>6, LeafClaims
<1>8. Fits(obj', c2) /\ ~Untouched(c2) /\ c2.pc \in Building
  BY <1>2, <1>3, <1>6 DEF Fits, Untouched, Upsert, Building
<1>9. /\ UNCHANGED <<clean, leaked>> /\ UNCHANGED <<cloudHead, localHead, owner>>
  BY DEF StoreBlob, StoreLeaf, headVars, ghostVars
<1>10. /\ remote' \subseteq remote \cup {NextHash} /\ Available \subseteq Available'
       /\ queue'[d] \subseteq queue[d] \cup {NextHash}
       /\ \A e \in Device \ {d} : queue'[e] = queue[e]
       /\ unsent \subseteq queue[d] => unsent' \subseteq queue'[d]
  BY <1>2 DEF StoreBlob, StoreLeaf, Put, Available, poolVars
<1>11. ASSUME \A x \in queue[d] : Returned(reach, c, x) PROVE Queued(reach', c2, queue'[d])
  <2>1. queue[d] = {}
    BY <1>0, <1>1, <1>11 DEF Returned, CmdShape
  <2> QED
    BY <1>3, <1>6, <1>7, <1>10, <2>1 DEF Queued, Committed
<1> QED
  BY <1>0, <1>3, <1>4, <1>5, <1>7, <1>8, <1>9, <1>10, <1>11, StoreExact

LEMMA StoreParentExact ==
  ASSUME NEW d \in Device, IInv, SnapInv, ExactInv, StoreParent(d) PROVE ExactInv'
<1> DEFINE c == cmd[d]
           c2 == WithParent(c, Len(obj'))
<1>0. c.pc = "parent" /\ c.pc \in Building
  BY DEF StoreParent, At, Building
<1>1. /\ StoreInv(obj, reach) /\ obj \in Seq(Object) /\ reach \in Seq(SUBSET Nat)
      /\ c \in Command /\ CmdShape(obj, c)
  BY <1>0, StoringFacts
<1>2. /\ cmd \in [Device -> Command] /\ NoCommitBelow(obj, reach) /\ Upsert(c) /\ Fits(obj, c)
  BY <1>0, StoringFacts DEF Fits
<1>3. /\ Extends(obj, reach, obj', reach') /\ reach'[Len(obj')] = {Len(obj')}
      /\ Len(obj') = NextHash
  BY EmptyTreeStored DEF StoreParent
<1>4. NoCommitBelow(obj', reach')
  BY <1>1, <1>2, <1>3, KindsGrow
<1>5. cmd' = [cmd EXCEPT ![d] = c2]
  BY <1>1, <1>2, <1>3 DEF StoreParent, WithParent
<1>6. c2 = WithParent(c, Len(obj')) /\ c2.pc = "walk" /\ c2.ret = c.ret /\ c2.op = c.op
  BY <1>1 DEF WithParent, Command
<1> HIDE DEF c2
<1>7. /\ \A x : Claims(obj', reach', c2, x) <=> Claims(obj, reach, c, x) \/ x = Len(obj')
      /\ \A x : Returned(reach', c2, x) <=> Returned(reach, c, x)
  <2> HIDE DEF c
  <2> QED
    BY ONLY <1>0, <1>1, <1>3, <1>6, ParentClaims
<1>f. Fits(obj', c)
  BY <1>2, <1>3, FitsStays DEF Grew
<1>8. Fits(obj', c2) /\ ~Untouched(c2) /\ c2.pc \in Building
  BY <1>f, <1>2, <1>6 DEF Fits, Untouched, Upsert, Building
<1>9. UNCHANGED <<clean, leaked>> /\ UNCHANGED <<cloudHead, localHead, owner>> /\ UNCHANGED <<queue, unsent>>
  BY DEF StoreParent, headVars, ghostVars, poolVars
<1>10. remote' \subseteq remote \cup {NextHash} /\ Available \subseteq Available'
  BY <1>9 DEF StoreParent, Put, Available
<1>11. (\A x \in queue[d] : Returned(reach, c, x)) => Queued(reach', c2, queue'[d])
  BY <1>6, <1>7, <1>9 DEF Queued, Committed
<1> QED
  BY <1>0, <1>3, <1>4, <1>5, <1>7, <1>8, <1>9, <1>10, <1>11, StoreExact

(* A rewritten directory reaches no commit: neither did the old one, nor what the level
   below returned *)
LEMMA LevelTreeKinds ==
  ASSUME NEW d \in Device, IInv, At(d, "store"), EncryptTree(NewDir(cmd[d])),
         NoCommitBelow(obj, reach), cmd[d].ret # 0 => obj[cmd[d].ret].kind # "commit"
  PROVE  NoCommitBelow(obj', reach')
<1> DEFINE c == cmd[d]
<1>0. c.pc = "store" /\ c.pc \in Building
  BY DEF At, Building
<1>1. /\ StoreInv(obj, reach) /\ obj \in Seq(Object) /\ reach \in Seq(SUBSET Nat)
      /\ c \in Command /\ CmdShape(obj, c) /\ Apart(obj, reach, c)
  BY Facts
<1>2. /\ Extends(obj, reach, obj', reach')
      /\ reach'[Len(obj')] = {Len(obj')} \cup BelowDir(reach, LevelDir(obj, c))
  BY LevelTreeStored
<1>3. \A x : x \in BelowDir(reach, LevelDir(obj, c)) <=>
             Beside(obj, reach, c, c.lvl, x) \/ Returned(reach, c, x)
  BY <1>0, <1>1, LevelDirFacts
<1>4. TreeIn(obj, c.old[c.lvl])
  BY <1>0, <1>1 DEF CmdShape
<1>5. ASSUME NEW x, Beside(obj, reach, c, c.lvl, x)
      PROVE  x \in 1..Len(obj) /\ obj[x].kind # "commit"
  <2>1. x \in reach[c.old[c.lvl]]
    BY <1>1, <1>4, <1>5 DEF Beside, TreeIn, StoreInv, ObjectInv
  <2>2. reach[c.old[c.lvl]] \subseteq 1..c.old[c.lvl]
    BY <1>1, <1>4, ReachBelow DEF TreeIn
  <2> QED
    BY <1>1, <1>4, <2>1, <2>2 DEF TreeIn, NoCommitBelow
<1>6. ASSUME NEW x, Returned(reach, c, x)
      PROVE  x \in 1..Len(obj) /\ obj[x].kind # "commit"
  <2>1. c.ret \in 1..Len(obj) /\ x \in reach[c.ret] /\ obj[c.ret].kind # "commit"
    BY <1>1, <1>6 DEF Returned, CmdShape
  <2>2. reach[c.ret] \subseteq 1..c.ret
    BY <1>1, <2>1, ReachBelow
  <2> QED
    BY <1>1, <2>1, <2>2 DEF NoCommitBelow
<1> QED
  BY <1>1, <1>2, <1>3, <1>5, <1>6, KindsGrow

LEMMA StoreTreeExact ==
  ASSUME NEW d \in Device, IInv, SnapInv, ExactInv, StoreTree(d) PROVE ExactInv'
<1> DEFINE c == cmd[d]
           c2 == WithTree(c, Len(obj'))
<1>0. c.pc = "store" /\ c.pc \in Building
  BY DEF StoreTree, At, Building
<1>1. /\ StoreInv(obj, reach) /\ obj \in Seq(Object) /\ reach \in Seq(SUBSET Nat)
      /\ c \in Command /\ CmdShape(obj, c) /\ Apart(obj, reach, c)
  BY <1>0, StoringFacts
<1>2. cmd \in [Device -> Command]
  BY Facts
<1>3. /\ Extends(obj, reach, obj', reach')
      /\ reach'[Len(obj')] = {Len(obj')} \cup BelowDir(reach, LevelDir(obj, c))
  BY LevelTreeStored DEF StoreTree
<1>k. Len(obj') = NextHash /\ TreeIn(obj', Len(obj'))
  BY LevelTreeStored DEF StoreTree
<1>4. NoCommitBelow(obj', reach')
  BY <1>0, StoringFacts, LevelTreeKinds DEF StoreTree, Fits
<1>5. cmd' = [cmd EXCEPT ![d] = c2]
  BY <1>1, <1>2, <1>k DEF StoreTree, WithTree
<1>6. c2 = WithTree(c, Len(obj')) /\ c2.pc \in {"commit", "store"} /\ c2.ret = Len(obj')
  BY <1>1 DEF WithTree, Command
<1> HIDE DEF c2
<1>7. /\ \A x : Claims(obj', reach', c2, x) <=> Claims(obj, reach, c, x) \/ x = Len(obj')
      /\ \A x : Returned(reach, c, x) => Returned(reach', c2, x)
  <2> HIDE DEF c
  <2> QED
    BY ONLY <1>0, <1>1, <1>3, <1>6, TreeClaims
<1>8. Fits(obj', c2) /\ ~Untouched(c2) /\ c2.pc \in Building
  BY <1>6, <1>k DEF Fits, Untouched, Building, TreeIn
<1>9. UNCHANGED <<clean, leaked>> /\ UNCHANGED <<cloudHead, localHead, owner>> /\ UNCHANGED <<queue, unsent>>
  BY DEF StoreTree, headVars, ghostVars, poolVars
<1>10. remote' \subseteq remote \cup {NextHash} /\ Available \subseteq Available'
  BY <1>9 DEF StoreTree, Put, Available
<1>11. (\A x \in queue[d] : Returned(reach, c, x)) => Queued(reach', c2, queue'[d])
  BY <1>6, <1>7, <1>9 DEF Queued, Committed
<1> QED
  BY <1>0, <1>3, <1>k, <1>4, <1>5, <1>7, <1>8, <1>9, <1>10, <1>11, StoreExact

LEMMA StoreCommitExact ==
  ASSUME NEW d \in Device, IInv, SnapInv, ExactInv, StoreCommit(d) PROVE ExactInv'
<1> DEFINE c == cmd[d]
           c2 == WithCommit(c, Len(obj'))
<1>0. c.pc = "commit" /\ c.pc \in Building
  BY DEF StoreCommit, At, Building
<1>1. /\ StoreInv(obj, reach) /\ obj \in Seq(Object) /\ reach \in Seq(SUBSET Nat)
      /\ c \in Command /\ CmdShape(obj, c)
  BY <1>0, StoringFacts
<1>2. cmd \in [Device -> Command] /\ NoCommitBelow(obj, reach) /\ Fits(obj, c)
  BY <1>0, StoringFacts
<1>3. /\ Extends(obj, reach, obj', reach')
      /\ reach'[Len(obj')] = {Len(obj')} \cup reach[c.ret]
  BY CommitStored DEF StoreCommit
<1>k. Len(obj') = NextHash /\ CommitIn(obj', Len(obj'))
  BY CommitStored DEF StoreCommit
<1>4. NoCommitBelow(obj', reach')
  BY <1>1, <1>2, <1>3, <1>k, KindsGrow DEF CommitIn
<1>5. cmd' = [cmd EXCEPT ![d] = c2]
  BY <1>1, <1>2, <1>k DEF StoreCommit, WithCommit
<1>6. c2 = WithCommit(c, Len(obj')) /\ c2.pc = "localhead" /\ c2.ret = c.ret
  BY <1>1 DEF WithCommit, Command
<1> HIDE DEF c2
<1>7. /\ \A x : Claims(obj', reach', c2, x) <=> Claims(obj, reach, c, x) \/ x = Len(obj')
      /\ \A x : Returned(reach, c, x) => x \in reach'[c2.newc]
  <2> HIDE DEF c
  <2> QED
    BY ONLY <1>0, <1>1, <1>3, <1>6, CommitClaims
<1>f. Fits(obj', c)
  BY <1>2, <1>3, FitsStays DEF Grew
<1>8. Fits(obj', c2) /\ ~Untouched(c2)
  BY <1>6, <1>f DEF Fits, Untouched
<1>9. UNCHANGED <<clean, leaked>> /\ UNCHANGED <<cloudHead, localHead, owner>> /\ UNCHANGED <<queue, unsent>>
  BY DEF StoreCommit, headVars, ghostVars, poolVars
<1>10. remote' \subseteq remote \cup {NextHash} /\ Available \subseteq Available'
  BY <1>9 DEF StoreCommit, Put, Available
<1>11. (\A x \in queue[d] : Returned(reach, c, x)) => Queued(reach', c2, queue'[d])
  BY <1>6, <1>7, <1>9 DEF Queued, Building
<1> QED
  BY <1>0, <1>3, <1>k, <1>4, <1>5, <1>6, <1>7, <1>8, <1>9, <1>10, <1>11, StoreExact

(* Both HEADs move to the new commit, if the local one is not torn *)
LEMMA HeadsExact ==
  ASSUME NEW d \in Device, IInv, SnapInv, ExactInv,
         WriteLocalHead(d) \/ LocalHeadTorn(d) \/ PutCloudHead(d)
  PROVE  ExactInv'
<1> DEFINE c == cmd[d]
<1>0. /\ c \in Command /\ cmd \in [Device -> Command] /\ Holds(d)
      /\ localHead \in [Device -> Commits \cup {NoHead, TornHead}]
  BY Facts DEF SnapInv, TypeOK
<1>1. c.pc \in Publishing /\ c.pc \in Committed
  BY DEF WriteLocalHead, LocalHeadTorn, PutCloudHead, At, Publishing, Committed
<1>2. PICK l \in {"cloudhead", "delcommit"} :
        /\ cmd' = [cmd EXCEPT ![d] = [c EXCEPT !.pc = l]]
        /\ l = "delcommit" => localHead'[d] \in {cloudHead', TornHead}
  <2>1. CASE WriteLocalHead(d) \/ LocalHeadTorn(d)
    <3>1. cmd' = [cmd EXCEPT ![d] = [c EXCEPT !.pc = "cloudhead"]]
      BY <1>0, <2>1 DEF WriteLocalHead, LocalHeadTorn
    <3> QED
      BY <3>1
  <2>2. CASE PutCloudHead(d)
    <3>1. cmd' = [cmd EXCEPT ![d] = [c EXCEPT !.pc = "delcommit"]]
      BY <1>0, <2>2 DEF PutCloudHead
    <3>2. localHead'[d] \in {cloudHead', TornHead}
      BY <1>0, <2>2 DEF PutCloudHead, Holds, At
    <3> QED
      BY <3>1, <3>2
  <2> QED
    BY <2>1, <2>2
<1> DEFINE c2 == [c EXCEPT !.pc = l]
<1>3. /\ c2.pc = l /\ c2.newc = c.newc /\ c2.ret = c.ret /\ c2.base = c.base
      /\ c2.old = c.old /\ c2.trees = c.trees /\ c2.blobs = c.blobs
  BY <1>0 DEF Command
<1>4. cmd' = [cmd EXCEPT ![d] = c2]
  BY <1>2
<1> HIDE DEF c2
<1>5. c2.pc \in Publishing \cup {"delcommit"} /\ c2.pc \in Committed
  BY <1>3 DEF Publishing, Committed
<1>6. Remaining(c) = Doomed(c) /\ Remaining(c2) = Doomed(c) /\ {} \subseteq Remaining(c)
  <2>1. Remaining(c) = Doomed(c)
    BY <1>1 DEF Remaining, Publishing
  <2>2. Remaining(c2) = Doomed(c2)
    BY <1>5 DEF Remaining, Publishing
  <2>3. Doomed(c2) = Doomed(c)
    BY <1>3 DEF Doomed
  <2> QED
    BY <2>1, <2>2, <2>3
<1>7. UNCHANGED <<obj, reach, unsent, queue, leaked, owner>> /\ (clean' => clean) /\ remote' = remote \ {}
  BY DEF WriteLocalHead, LocalHeadTorn, PutCloudHead, storeVars, poolVars, ghostVars
<1>8. c2.pc # "cloudhead" => localHead'[d] \in {cloudHead', NoHead, TornHead}
  BY <1>2, <1>3
<1> QED
  BY <1>1, <1>3, <1>4, <1>5, <1>6, <1>7, <1>8, CommittedExact

(* What is deleted leaves the list of what is to be deleted *)
LEMMA DeleteExact ==
  ASSUME NEW d \in Device, IInv, SnapInv, ExactInv, cmd[d].pc \in Deleting,
         UNCHANGED <<obj, reach, unsent, queue, leaked, owner>>, clean' => clean,
         UNCHANGED <<cloudHead, localHead>>,
         NEW c2, cmd' = [cmd EXCEPT ![d] = c2], c2.pc \in Deleting,
         c2.newc = cmd[d].newc, c2.ret = cmd[d].ret,
         NEW h, remote' = remote \ {h}, Remaining(cmd[d]) = Remaining(c2) \cup {h}
  PROVE  ExactInv'
<1>1. /\ cmd[d].pc \in Committed /\ c2.pc \in Committed
      /\ cmd[d].pc \notin {"idle", "cloudhead"}
  BY DEF Deleting, Committed
<1>2. clean => localHead[d] \in {cloudHead, NoHead, TornHead}
  BY <1>1, Account DEF AccountedFor
<1>3. clean' => localHead'[d] \in {cloudHead', NoHead, TornHead}
  BY <1>2
<1>4. {h} \subseteq Remaining(cmd[d]) /\ remote' = remote \ {h}
  OBVIOUS
<1>5. Remaining(c2) \subseteq Remaining(cmd[d]) /\ Remaining(cmd[d]) \subseteq Remaining(c2) \cup {h}
  OBVIOUS
<1> QED
  BY <1>1, <1>3, <1>4, <1>5, CommittedExact

LEMMA RemoveOldExact ==
  ASSUME NEW d \in Device, IInv, SnapInv, ExactInv, RemoveOldCommit(d) \/ RemoveOldTree(d)
  PROVE  ExactInv'
<1> DEFINE c == cmd[d]
<1>0. c \in Command /\ cmd \in [Device -> Command] /\ CmdShape(obj, c)
  BY Facts
<1>1. UNCHANGED <<obj, reach, unsent, queue, leaked, owner>> /\ (clean' => clean)
      /\ UNCHANGED <<cloudHead, localHead>>
  BY DEF RemoveOldCommit, RemoveOldTree, headVars, poolVars, ghostVars
<1>2. CASE RemoveOldCommit(d)
  <2> DEFINE c2 == [c EXCEPT !.lvl = 1, !.pc = "deltrees"]
  <2>1. c.pc = "delcommit" /\ cmd' = [cmd EXCEPT ![d] = c2] /\ remote' = remote \ {c.base}
    BY <1>0, <1>2 DEF RemoveOldCommit, At
  <2>2. /\ c2.pc = "deltrees" /\ c2.newc = c.newc /\ c2.ret = c.ret /\ c2.lvl = 1
        /\ c2.old = c.old /\ c2.trees = c.trees /\ c2.blobs = c.blobs
    BY <1>0 DEF Command
  <2> HIDE DEF c2
  <2>3. Remaining(c) = Remaining(c2) \cup {c.base}
    BY <2>1, <2>2 DEF Remaining, Doomed, Publishing
  <2> QED
    BY <1>1, <2>1, <2>2, <2>3, DeleteExact DEF Deleting
<1>3. CASE RemoveOldTree(d)
  <2> DEFINE c2 == AfterOldTree(c)
             h == c.old[c.lvl]
  <2>1. c.pc = "deltrees" /\ cmd' = [cmd EXCEPT ![d] = c2] /\ remote' = remote \ {h}
    BY <1>0, <1>3 DEF RemoveOldTree, At
  <2>2. c.lvl \in 1..Len(c.old) /\ Len(c.old) \in Nat
    BY <1>0, <2>1 DEF CmdShape, Command
  <2>3. /\ c2.newc = c.newc /\ c2.ret = c.ret
        /\ c2.old = c.old /\ c2.trees = c.trees /\ c2.blobs = c.blobs
        /\ c.lvl < Len(c.old) => c2.pc = "deltrees" /\ c2.lvl = c.lvl + 1
        /\ ~(c.lvl < Len(c.old)) => c2.pc = "delremoved"
    BY <1>0, <2>1 DEF Command, AfterOldTree
  <2> HIDE DEF c2
  <2>4. Remaining(c) = {c.old[i] : i \in c.lvl..Len(c.old)} \cup c.trees \cup c.blobs
    BY <2>1 DEF Remaining, Publishing
  <2>5. Remaining(c) = Remaining(c2) \cup {h}
    <3>1. CASE c.lvl < Len(c.old)
      <4>1. Remaining(c2) = {c.old[i] : i \in (c.lvl + 1)..Len(c.old)} \cup c.trees \cup c.blobs
        BY <2>3, <3>1 DEF Remaining, Publishing
      <4>2. \A i : i \in c.lvl..Len(c.old) <=> i = c.lvl \/ i \in (c.lvl + 1)..Len(c.old)
        BY <2>2
      <4>3. {c.old[i] : i \in c.lvl..Len(c.old)} = {c.old[i] : i \in (c.lvl + 1)..Len(c.old)} \cup {h}
        BY <4>2
      <4> QED
        BY <2>4, <4>1, <4>3
    <3>2. CASE ~(c.lvl < Len(c.old))
      <4>1. Remaining(c2) = c.trees \cup c.blobs
        BY <2>3, <3>2 DEF Remaining, Publishing
      <4>2. \A i : i \in c.lvl..Len(c.old) <=> i = c.lvl
        BY <2>2, <3>2
      <4>3. {c.old[i] : i \in c.lvl..Len(c.old)} = {h}
        BY <4>2
      <4> QED
        BY <2>4, <4>1, <4>3
    <3> QED
      BY <3>1, <3>2
  <2>6. c.pc \in Deleting /\ c2.pc \in Deleting
    BY <2>1, <2>3 DEF Deleting
  <2> HIDE DEF h
  <2> QED
    BY <1>1, <2>1, <2>3, <2>5, <2>6, DeleteExact
<1> QED
  BY <1>2, <1>3

LEMMA RemoveRemovedExact ==
  ASSUME NEW d \in Device, IInv, SnapInv, ExactInv, RemoveSubtree(d) \/ RemoveBlob(d)
  PROVE  ExactInv'
<1> DEFINE c == cmd[d]
<1>0. c \in Command /\ cmd \in [Device -> Command]
  BY Facts
<1>1. UNCHANGED <<obj, reach, unsent, queue, leaked, owner>> /\ (clean' => clean)
      /\ UNCHANGED <<cloudHead, localHead>>
  <2>1. CASE RemoveSubtree(d)
    <3>1. UNCHANGED <<obj, reach, headVars, poolVars, leaked>> /\ (clean' => clean)
      BY <2>1 DEF RemoveSubtree
    <3> QED
      BY ONLY <3>1 DEF headVars, poolVars
  <2>2. CASE RemoveBlob(d)
    BY <2>2 DEF RemoveBlob, headVars, poolVars, ghostVars
  <2> QED
    BY <2>1, <2>2
<1>2. c.pc = "delremoved"
  BY DEF RemoveSubtree, RemoveBlob, At
<1>3. PICK h \in c.trees \cup c.blobs : \E T, B :
        /\ remote' = remote \ {h}
        /\ cmd' = [cmd EXCEPT ![d] = [c EXCEPT !.trees = T, !.blobs = B]]
        /\ c.trees \cup c.blobs = (T \cup B) \cup {h}
  <2>1. CASE RemoveSubtree(d)
    <3>1. PICK h \in c.trees : remote' = remote \ {h} /\ cmd' = [cmd EXCEPT ![d].trees = @ \ {h}]
      BY <2>1 DEF RemoveSubtree
    <3>2. cmd' = [cmd EXCEPT ![d] = [c EXCEPT !.trees = c.trees \ {h}, !.blobs = c.blobs]]
      BY <1>0, <3>1 DEF Command
    <3>3. c.trees \cup c.blobs = ((c.trees \ {h}) \cup c.blobs) \cup {h}
      BY <3>1
    <3> QED
      BY <3>1, <3>2, <3>3
  <2>2. CASE RemoveBlob(d)
    <3>1. PICK h \in c.blobs : remote' = remote \ {h} /\ cmd' = [cmd EXCEPT ![d].blobs = @ \ {h}]
      BY <2>2 DEF RemoveBlob
    <3>2. cmd' = [cmd EXCEPT ![d] = [c EXCEPT !.trees = c.trees, !.blobs = c.blobs \ {h}]]
      BY <1>0, <3>1 DEF Command
    <3>3. c.trees \cup c.blobs = (c.trees \cup (c.blobs \ {h})) \cup {h}
      BY <3>1
    <3> QED
      BY <3>1, <3>2, <3>3
  <2> QED
    BY <2>1, <2>2
<1>4. PICK T, B :
        /\ remote' = remote \ {h}
        /\ cmd' = [cmd EXCEPT ![d] = [c EXCEPT !.trees = T, !.blobs = B]]
        /\ c.trees \cup c.blobs = (T \cup B) \cup {h}
  BY <1>3
<1> DEFINE c2 == [c EXCEPT !.trees = T, !.blobs = B]
<1>5. c2.pc = "delremoved" /\ c2.newc = c.newc /\ c2.ret = c.ret /\ c2.trees = T /\ c2.blobs = B
  BY <1>0, <1>2 DEF Command
<1>6. cmd' = [cmd EXCEPT ![d] = c2]
  BY <1>4
<1> HIDE DEF c2
<1>7. Remaining(c) = Remaining(c2) \cup {h}
  BY <1>2, <1>4, <1>5 DEF Remaining, Publishing
<1> QED
  BY <1>1, <1>2, <1>4, <1>5, <1>6, <1>7, DeleteExact DEF Deleting

(* All is deleted: what is left in the cloud is the new snapshot, and what has leaked *)
LEMMA DoneExact ==
  ASSUME NEW d \in Device, IInv, SnapInv, ExactInv, Done(d) PROVE ExactInv'
<1> DEFINE c == cmd[d]
           c2 == FreshCmd("exit", "none", <<>>, "ok")
<1>1. /\ c.pc = "delremoved" /\ c.trees = {} /\ c.blobs = {} /\ cmd' = [cmd EXCEPT ![d] = c2]
  BY DEF Done, At, Finish
<1>2. /\ Fits(obj', c2) /\ c2.pc = "exit" /\ ~Untouched(c2)
  BY FreshFits
<1> HIDE DEF c2
<1>3. /\ UNCHANGED <<obj, reach, remote, unsent, leaked>> /\ UNCHANGED <<queue, clean>>
      /\ UNCHANGED <<cloudHead, localHead, owner>>
  BY DEF Done, storeVars, headVars, poolVars, ghostVars
<1>4. /\ d = owner /\ NoCommitBelow(obj, reach)
      /\ clean => unsent \subseteq queue[d] /\ leaked \subseteq Available /\ AccountedFor(d)
  BY <1>1, Account
<1>5. Grew /\ NoCommitBelow(obj', reach') /\ Waiting(c2, queue'[d])
  BY <1>2, <1>3, <1>4 DEF Grew, Waiting
<1>6. cloudHead = c.newc
  BY <1>1 DEF SnapInv, Holds, Deleting
<1>7. ASSUME clean' PROVE AccountNext(d, c2)
  <2>1. /\ Balanced(obj, reach, remote, leaked, c) /\ queue[d] \subseteq reach[c.newc]
        /\ localHead[d] \in {cloudHead, NoHead, TornHead}
    BY <1>1, <1>3, <1>4, <1>7 DEF AccountedFor, Queued, Committed
  <2>2. \A x : Claims(obj, reach, c, x) <=> x \in reach[c.newc]
    BY <1>1 DEF Claims, Building, Committed, Remaining, Publishing
  <2>3. Settled /\ leaked \subseteq Available /\ unsent \subseteq queue[d]
    BY <1>3, <1>4, <1>6, <1>7, <2>1, <2>2 DEF Settled, Balanced
  <2>4. Settled' /\ leaked' \subseteq Available' /\ unsent' \subseteq queue'[d]
    BY <1>3, <2>3 DEF Settled, Available
  <2>5. Queued(reach', c2, queue'[d]) /\ c2.pc \notin Building \cup Committed
    BY <1>2 DEF Queued, Building, Committed
  <2> QED
    BY <1>3, <1>6, <2>1, <2>4, <2>5 DEF AccountNext
<1> QED
  BY <1>1, <1>2, <1>3, <1>4, <1>5, <1>7, AccountStep

LEMMA ThrowExact ==
  ASSUME NEW d \in Device, IInv, SnapInv, ExactInv, cmd[d].pc # "idle", Throw(d),
         UNCHANGED <<storeVars, headVars, poolVars, leaked>>
  PROVE  ExactInv'
<1>1. /\ UNCHANGED <<obj, reach, remote, unsent, leaked>> /\ UNCHANGED queue
      /\ UNCHANGED <<cloudHead, localHead, owner>>
  BY DEF storeVars, headVars, poolVars
<1>2. cmd' = [cmd EXCEPT ![d] = FreshCmd("exit", "none", <<>>, "error")]
  BY DEF Throw, Finish
<1>3. clean' => clean /\ Resting(cmd[d]) /\ queue'[d] = queue[d]
  BY <1>1 DEF Throw, Resting
<1>4. \A e \in Device \ {d} : queue'[e] = queue[e]
  BY <1>1
<1> QED
  BY <1>1, <1>2, <1>3, <1>4, EndStep

LEMMA RefusedExact ==
  ASSUME NEW d \in Device, IInv, SnapInv, ExactInv,
         \/ ReadHeadInvalid(d) \/ LoadTreeMissing(d) \/ RejectEntry(d) \/ OldCommitGone(d)
         \/ BlobGone(d) \/ CallFails(d)
  PROVE  ExactInv'
<1>1. cmd[d].pc # "idle"
  BY DEF ReadHeadInvalid, LoadTreeMissing, RejectEntry, OldCommitGone, BlobGone, CallFails,
         Loaded, Calling, At
<1>2. Throw(d) /\ UNCHANGED <<storeVars, headVars, poolVars, leaked>>
  BY DEF ReadHeadInvalid, LoadTreeMissing, RejectEntry, OldCommitGone, BlobGone, CallFails
<1> QED
  BY <1>1, <1>2, ThrowExact

(* The other ways in which a command, or its process, ends *)
LEMMA EndExact ==
  ASSUME NEW d \in Device, IInv, SnapInv, ExactInv,
         ReadHeadMissing(d) \/ Answer(d) \/ Exit(d) \/ Crash(d)
  PROVE  ExactInv'
<1>0. queue \in [Device -> SUBSET Hash]
  BY Facts DEF TypeOK
<1>1. /\ cmd[d].pc # "idle" /\ UNCHANGED <<obj, reach, remote, unsent, leaked>>
      /\ UNCHANGED <<cloudHead, localHead, owner>>
  BY DEF ReadHeadMissing, Answer, ConfirmYes, ConfirmNo, Exit, Crash, At,
         storeVars, headVars, poolVars, ghostVars
<1>2. \A e \in Device \ {d} : queue'[e] = queue[e]
  BY <1>0 DEF ReadHeadMissing, Answer, ConfirmYes, ConfirmNo, Exit, Crash, poolVars
<1>3. Fits(obj, cmd[d]) /\ Waiting(cmd[d], queue[d])
  BY <1>1, Account
<1>4. CASE ReadHeadMissing(d) \/ ConfirmNo(d)
  <2>1. PICK out : cmd' = [cmd EXCEPT ![d] = FreshCmd("exit", "none", <<>>, out)]
    BY <1>4 DEF ReadHeadMissing, ConfirmNo, Finish
  <2>2. clean' => clean /\ Resting(cmd[d]) /\ queue'[d] = queue[d]
    BY <1>3, <1>4 DEF ReadHeadMissing, ConfirmNo, At, Resting, Untouched, Fits, poolVars, ghostVars
  <2> QED
    BY <1>1, <1>2, <2>1, <2>2, EndStep
<1>5. CASE ConfirmYes(d)
  <2>1. cmd' = [cmd EXCEPT ![d] = FreshCmd("head", "rmdirall", cmd[d].path, "none")]
    BY <1>5 DEF ConfirmYes
  <2>2. Untouched(cmd[d]) /\ UNCHANGED <<queue, clean>>
    BY <1>3, <1>5 DEF ConfirmYes, At, Fits, poolVars, ghostVars
  <2>3. queue'[d] = {} /\ (clean' => clean /\ Resting(cmd[d]) /\ queue'[d] = queue[d])
    BY <1>3, <2>2 DEF Waiting, Resting
  <2> QED
    BY <1>1, <1>2, <2>1, <2>3, EndStep
<1>6. CASE Exit(d) \/ Crash(d)
  <2>1. cmd' = [cmd EXCEPT ![d] = FreshCmd("idle", "none", <<>>, "none")]
    BY <1>6 DEF Exit, Crash, IdleCmd
  <2>2. queue'[d] = {} /\ (clean' => clean /\ Resting(cmd[d]) /\ queue'[d] = queue[d])
    <3>1. CASE Exit(d)
      BY <3>1 DEF Exit, At, Resting, poolVars, ghostVars
    <3>2. CASE Crash(d)
      <4>1. queue'[d] = {} /\ cmd[d].pc # "idle"
        BY <1>0, <3>2 DEF Crash, At
      <4>2. clean' = (clean /\ queue[d] = {} /\ (At(d, "exit") \/ Untouched(cmd[d])))
        BY <3>2 DEF Crash
      <4>3. clean' => clean /\ queue[d] = {} /\ (At(d, "exit") \/ Untouched(cmd[d]))
        BY ONLY <4>2
      <4> QED
        BY <4>1, <4>3 DEF At, Resting
    <3> QED
      BY <1>6, <3>1, <3>2
  <2> QED
    BY <1>1, <1>2, <2>1, <2>2, EndStep
<1> QED
  BY <1>4, <1>5, <1>6 DEF Answer

(* The pool: a blob that reaches the cloud is part of the new snapshot *)
LEMMA PoolExact ==
  ASSUME NEW d \in Device, IInv, SnapInv, ExactInv, Upload(d) \/ UploadFails(d) PROVE ExactInv'
<1> DEFINE c == cmd[d]
<1>0. queue \in [Device -> SUBSET Hash] /\ cmd \in [Device -> Command]
  BY Facts DEF TypeOK
<1>1. UNCHANGED <<obj, reach, cmd, leaked>> /\ UNCHANGED <<cloudHead, localHead, owner>>
  BY DEF Upload, UploadFails, storeVars, headVars, ghostVars
<1>2. PICK b \in queue[d] : queue' = [queue EXCEPT ![d] = queue[d] \ {b}]
  BY DEF Upload, UploadFails
<1>3. queue'[d] = queue[d] \ {b} /\ \A e \in Device \ {d} : queue'[e] = queue[e]
  BY <1>0, <1>2
<1>4. c.pc # "idle" /\ ~Untouched(c)
  BY <1>2 DEF ExactInv, Waiting
<1>5. /\ d = owner /\ NoCommitBelow(obj, reach) /\ Fits(obj, c) /\ Waiting(c, queue[d])
      /\ clean => unsent \subseteq queue[d] /\ leaked \subseteq Available /\ AccountedFor(d)
  BY <1>4, Account
<1>6. /\ Grew /\ NoCommitBelow(obj', reach') /\ Fits(obj', c) /\ Waiting(c, queue'[d])
      /\ cmd' = [cmd EXCEPT ![d] = c]
  BY <1>0, <1>1, <1>3, <1>5 DEF Grew, Waiting
<1>7. CASE UploadFails(d)
  <2>1. clean' = FALSE
    BY <1>7 DEF UploadFails
  <2> QED
    BY <1>1, <1>3, <1>4, <1>6, <2>1, UncleanStep
<1>8. CASE Upload(d)
  <2>1. PICK h \in queue[d] : /\ remote' = remote \cup {h} /\ unsent' = unsent \ {h}
                              /\ queue' = [queue EXCEPT ![d] = queue[d] \ {h}]
    BY <1>8 DEF Upload
  <2>2. queue'[d] = queue[d] \ {h} /\ UNCHANGED clean /\ Available' = Available \cup {h}
    BY <1>0, <1>8, <2>1 DEF Upload, Available, ghostVars
  <2>3. ASSUME clean' PROVE AccountNext(d, c)
    <3>1. unsent \subseteq queue[d] /\ leaked \subseteq Available /\ AccountedFor(d)
      BY <1>5, <2>2, <2>3
    <3>2. unsent' \subseteq queue'[d] /\ leaked' \subseteq Available'
      BY <1>1, <2>1, <2>2, <3>1
    <3>3. Queued(reach', c, queue'[d])
      BY <1>1, <2>2, <3>1 DEF AccountedFor, Queued
    <3>4. c.pc \in Building \cup Committed => Balanced(obj', reach', remote', leaked', c)
      <4> SUFFICES ASSUME c.pc \in Building \cup Committed
                   PROVE  Balanced(obj', reach', remote', leaked', c)
        OBVIOUS
      <4>1. Balanced(obj, reach, remote, leaked, c)
        BY <3>1 DEF AccountedFor
      <4>2. Claims(obj, reach, c, h)
        BY <2>1, <3>1 DEF AccountedFor, Queued, Claims
      <4> QED
        BY <1>1, <2>1, <4>1, <4>2 DEF Balanced
    <3>5. c.pc = "exit" => queue'[d] \subseteq reach'[cloudHead']
      BY <1>1, <2>2, <3>1 DEF AccountedFor
    <3>6. Resting(c) => Settled'
      <4> SUFFICES ASSUME Resting(c) PROVE Settled'
        OBVIOUS
      <4>1. Settled /\ h \in reach[cloudHead]
        BY <1>4, <2>1, <3>1 DEF AccountedFor, Resting
      <4> QED
        BY <1>1, <2>1, <4>1 DEF Settled
    <3>7. c.pc # "cloudhead" => localHead'[d] \in {cloudHead', NoHead, TornHead}
      BY <1>1, <3>1 DEF AccountedFor
    <3> QED
      BY <3>2, <3>3, <3>4, <3>5, <3>6, <3>7 DEF AccountNext
  <2> QED
    BY <1>1, <1>3, <1>5, <1>6, <2>3, AccountStep
<1> QED
  BY <1>7, <1>8

(* Calls that took effect though their reply was lost, and the other failures that leave
   something behind: the vault is not clean any more *)
LEMMA LostExact ==
  ASSUME NEW d \in Device, IInv, SnapInv, ExactInv,
         \/ PutReplyLost(d) \/ HeadReplyLost(d) \/ RemoveReplyLost(d)
  PROVE  ExactInv'
<1> DEFINE c == cmd[d]
           c2 == FreshCmd("exit", "none", <<>>, "error")
<1>1. /\ cmd' = [cmd EXCEPT ![d] = c2] /\ UNCHANGED queue /\ UNCHANGED owner
      /\ c.pc # "idle" /\ clean' = FALSE
  BY DEF PutReplyLost, HeadReplyLost, RemoveReplyLost, Throw, Finish, At,
         Untouched, headVars, poolVars
<1>2. Fits(obj', c2) /\ c2.pc = "exit" /\ ~Untouched(c2)
  BY FreshFits
<1> HIDE DEF c2
<1>3. Waiting(c2, queue'[d]) /\ \A e \in Device \ {d} : queue'[e] = queue[e]
  BY <1>1, <1>2 DEF Waiting
<1>4. StoreInv(obj, reach) /\ obj \in Seq(Object) /\ reach \in Seq(SUBSET Nat)
      /\ NoCommitBelow(obj, reach)
  BY <1>1, Facts, Account
<1>5. Grew /\ NoCommitBelow(obj', reach')
  <2>1. CASE EncryptTree(EmptyDir)
    <3>1. Extends(obj, reach, obj', reach') /\ reach'[Len(obj')] = {Len(obj')}
      BY <2>1, EmptyTreeStored
    <3> QED
      BY <1>4, <3>1, KindsGrow DEF Grew
  <2>2. CASE At(d, "store") /\ EncryptTree(NewDir(c))
    <3>1. Extends(obj, reach, obj', reach')
      BY <2>2, LevelTreeStored
    <3> QED
      BY <1>1, <2>2, <3>1, Account, LevelTreeKinds DEF Grew, Fits
  <2>3. CASE At(d, "commit") /\ EncryptCommit(c.ret)
    <3>1. Extends(obj, reach, obj', reach') /\ CommitIn(obj', Len(obj'))
      BY <2>3, CommitStored
    <3> QED
      BY <1>4, <3>1, KindsGrow DEF Grew, CommitIn
  <2>4. CASE UNCHANGED <<obj, reach>>
    BY <1>4, <2>4 DEF Grew
  <2> QED
    BY <2>1, <2>2, <2>3, <2>4
       DEF PutReplyLost, HeadReplyLost, RemoveReplyLost, storeVars
<1> QED
  BY <1>1, <1>2, <1>3, <1>5, UncleanStep

LEMMA DiesExact ==
  ASSUME NEW d \in Device, IInv, SnapInv, ExactInv, DiesWritingHead(d) PROVE ExactInv'
<1> DEFINE c2 == FreshCmd("idle", "none", <<>>, "none")
<1>0. queue \in [Device -> SUBSET Hash]
  BY Facts DEF TypeOK
<1>1. /\ cmd' = [cmd EXCEPT ![d] = c2] /\ UNCHANGED <<obj, reach, owner>>
      /\ queue' = [queue EXCEPT ![d] = {}] /\ cmd[d].pc # "idle" /\ clean' = FALSE
  BY DEF DiesWritingHead, IdleCmd, At, storeVars
<1>2. Fits(obj', c2)
  BY FreshFits
<1> HIDE DEF c2
<1>3. Waiting(c2, queue'[d]) /\ \A e \in Device \ {d} : queue'[e] = queue[e]
  BY <1>0, <1>1 DEF Waiting
<1>4. Grew /\ NoCommitBelow(obj', reach')
  BY <1>1, Account DEF Grew
<1> QED
  BY <1>1, <1>2, <1>3, <1>4, UncleanStep

LEMMA TreeRemoveFailsExact ==
  ASSUME NEW d \in Device, IInv, SnapInv, ExactInv, TreeRemoveFails(d) PROVE ExactInv'
<1> DEFINE c == cmd[d]
<1>0. c \in Command /\ cmd \in [Device -> Command]
  BY Facts
<1>1. /\ UNCHANGED <<obj, reach, queue, owner>> /\ clean' = FALSE /\ c.pc \in Deleting
  BY DEF TreeRemoveFails, storeVars, headVars, poolVars, At, Deleting
<1>2. PICK c2 : /\ cmd' = [cmd EXCEPT ![d] = c2] /\ c2.pc \in {"deltrees", "delremoved"}
                /\ c2.ret = c.ret
  <2>1. CASE At(d, "deltrees") /\ cmd' = [cmd EXCEPT ![d] = AfterOldTree(@)]
    <3>1. cmd' = [cmd EXCEPT ![d] = AfterOldTree(c)]
      BY <1>0, <2>1
    <3>2. AfterOldTree(c).pc \in {"deltrees", "delremoved"} /\ AfterOldTree(c).ret = c.ret
      BY <1>0, <2>1 DEF AfterOldTree, Command, At
    <3> QED
      BY <3>1, <3>2
  <2>2. ASSUME At(d, "delremoved"), NEW h \in c.trees, cmd' = [cmd EXCEPT ![d].trees = @ \ {h}]
        PROVE  \E c2 : /\ cmd' = [cmd EXCEPT ![d] = c2] /\ c2.pc \in {"deltrees", "delremoved"}
                       /\ c2.ret = c.ret
    <3> DEFINE e == [c EXCEPT !.trees = c.trees \ {h}]
    <3>1. cmd' = [cmd EXCEPT ![d] = e] /\ e.pc = "delremoved" /\ e.ret = c.ret
      BY <1>0, <2>2 DEF At, Command
    <3> HIDE DEF e
    <3> QED
      BY <3>1
  <2> QED
    BY <2>1, <2>2 DEF TreeRemoveFails
<1>3. c.pc # "idle" /\ c2.pc # "idle" /\ ~Untouched(c2)
  BY <1>1, <1>2 DEF Deleting, Untouched
<1>4. NoCommitBelow(obj, reach) /\ Fits(obj, c)
  BY <1>3, Account
<1>5. Grew /\ NoCommitBelow(obj', reach') /\ Fits(obj', c2) /\ Waiting(c2, queue'[d])
  BY <1>1, <1>2, <1>3, <1>4 DEF Grew, Fits, Waiting
<1>6. \A e \in Device \ {d} : queue'[e] = queue[e]
  BY <1>1
<1> QED
  BY <1>1, <1>2, <1>3, <1>5, <1>6, UncleanStep

LEMMA InitExact == Init => ExactInv
<1> SUFFICES ASSUME Init PROVE ExactInv
  OBVIOUS
<1>1. \A d \in Device : cmd[d].pc = "idle" /\ cmd[d].ret = 0 /\ queue[d] = {} /\ ~Untouched(cmd[d])
  BY DEF Init, IdleCmd, FreshCmd, Untouched
<1>2. \A d \in Device : Fits(obj, cmd[d]) /\ Waiting(cmd[d], queue[d])
  BY <1>1 DEF Fits, Waiting
<1>3. /\ cloudHead = 2 /\ localHead[owner] = 2 /\ reach[2] = {1, 2} /\ remote = {1, 2}
      /\ leaked = {} /\ unsent = {} /\ owner \in Device
  BY DEF Init
<1>4. AccountedFor(owner)
  BY <1>1, <1>3 DEF AccountedFor, Queued, Settled, Building, Committed
<1>5. /\ Len(obj) = 2 /\ obj[1].kind = "tree" /\ obj[2].kind = "commit" /\ reach[1] = {1}
  BY DEF Init, Tree, Commit
<1>6. NoCommitBelow(obj, reach)
  BY <1>5 DEF NoCommitBelow
<1> QED
  BY <1>2, <1>3, <1>4, <1>6 DEF ExactInv

LEMMA NextExact == IInv /\ SnapInv /\ ExactInv /\ Disciplined /\ [Next]_vars => ExactInv'
<1> SUFFICES ASSUME IInv, SnapInv, ExactInv, Disciplined, [Next]_vars PROVE ExactInv'
  OBVIOUS
<1>1. ASSUME NEW d \in Device, Start(d) \/ Prepare(d) PROVE ExactInv'
  BY <1>1, StartExact, ReadHeadExact, EndExact, RefusedExact, StoreLeafExact DEF Prepare
<1>2. ASSUME NEW d \in Device, Walk(d) PROVE ExactInv'
  BY <1>2, RefusedExact, DescendExact, MissingParentExact, StoreParentExact, LeafUpsertExact,
     LeafRemoveExact, LeafRmdirExact, AskConfirmExact DEF Walk
<1>3. ASSUME NEW d \in Device, Publish(d) \/ CleanUp(d) PROVE ExactInv'
  BY <1>3, StoreTreeExact, StoreCommitExact, HeadsExact, RemoveOldExact, RemoveRemovedExact,
     DoneExact, RefusedExact DEF Publish, CleanUp
<1>4. ASSUME NEW d \in Device, Exit(d) \/ Answer(d) \/ Upload(d) PROVE ExactInv'
  BY <1>4, EndExact, PoolExact
<1>5. ASSUME NEW d \in Device, Fail(d) PROVE ExactInv'
  BY <1>5, PoolExact, RefusedExact, LostExact, DiesExact, TreeRemoveFailsExact, HeadsExact,
     StartExact, EndExact DEF Fail
<1>6. CASE UNCHANGED vars
  <2>1. /\ UNCHANGED <<obj, reach, remote, unsent, leaked>> /\ UNCHANGED <<cmd, queue, clean>>
        /\ UNCHANGED <<cloudHead, localHead, owner>>
    BY <1>6 DEF vars, storeVars, headVars, poolVars, ghostVars
  <2>2. Settled' = Settled /\ Available' = Available
    BY <2>1 DEF Settled, Available
  <2>3. AccountedFor(owner)' <=> AccountedFor(owner)
    BY <2>1, <2>2 DEF AccountedFor
  <2> QED
    BY <2>1, <2>2, <2>3 DEF ExactInv
<1> QED
  BY <1>1, <1>2, <1>3, <1>4, <1>5, <1>6 DEF Next, Proceed

----------------------------------------------------------------------------
(* When one command runs at a time, and none has failed or warned after it stored
   something, then between two commands the cloud holds exactly the published snapshot
   and the blobs that an add replaced: the deletions after publish (the loops over
   old_tree_hashes, removed_tree_hashes and removed_blob_hashes in VaultEngine) leave
   nothing behind, and neither do commands that end before they store anything. *)
THEOREM NothingLeftBehind == Spec => []ExactStore
<1>1. CASE Disciplined
  <2>1. Spec => [](IInv /\ SnapInv /\ ExactInv)
    <3>1. Init => SnapInv /\ ExactInv
      BY InitSnap, InitExact
    <3>2. IInv /\ SnapInv /\ ExactInv /\ [Next]_vars => SnapInv' /\ ExactInv'
      BY <1>1, NextSnap, NextExact
    <3> QED
      BY <3>1, <3>2, Invariance, PTL DEF Spec
  <2>2. ASSUME IInv, SnapInv, ExactInv PROVE ExactStore
    <3> SUFFICES ASSUME Quiet, clean PROVE remote = reach[cloudHead] \cup leaked
      BY DEF ExactStore
    <3>1. owner \in Device /\ cloudHead \in Commits /\ obj \in Seq(Object)
      BY <2>2 DEF IInv, TypeOK
    <3>2. cmd[owner].pc = "idle"
      BY <3>1 DEF Quiet, At
    <3>3. /\ Settled /\ leaked \subseteq Available /\ unsent = {}
      BY <2>2, <3>1, <3>2 DEF ExactInv, AccountedFor, Resting, Waiting
    <3>4. cloudHead \notin {NoHead, TornHead}
      BY <3>1, ConstantsAssumption DEF Commits, Hash
    <3>5. reach[cloudHead] \subseteq remote
      BY <2>2, <3>3, <3>4 DEF SnapInv, HeadsSafe, Safe, Available
    <3> QED
      BY <3>3, <3>5 DEF Settled, Available
  <2> QED
    BY <2>1, <2>2, PTL
<1>2. CASE ~Disciplined
  <2>1. ExactStore
    BY <1>2 DEF ExactStore
  <2> QED
    BY <2>1, PTL
<1> QED
  BY <1>1, <1>2

----------------------------------------------------------------------------
(* Induction, from a least counterexample *)

(* Every set of numbers that is not empty has a least one. *)
LEMMA LeastElement ==
  ASSUME NEW S \in SUBSET Nat, S # {}
  PROVE  \E n \in S : \A m \in S : n <= m
<1> DEFINE R == OpToRel(<, Nat)
<1>1. IsWellFoundedOn(R, Nat)
  BY NatLessThanWellFounded
<1>2. R = {ss \in Nat \X Nat : ss[1] < ss[2]}
  BY DEF OpToRel
<1>3. \A y, x \in Nat : y < x => <<y, x>> \in R
  BY <1>2
<1> HIDE DEF R
<1>4. \E x \in S : \A y \in S : ~ (<<y, x>> \in R)
  BY <1>1, WFMin
<1>5. PICK x \in S : \A y \in S : ~ (<<y, x>> \in R)
  BY <1>4
<1>6. ASSUME NEW m \in S PROVE x <= m
  <2>1. ~ (m < x)
    BY <1>3, <1>5
  <2> QED BY <2>1
<1> QED BY <1>6

(* Induction from i to j, over a set: the provers cannot instantiate a predicate. *)
LEMMA Climb ==
  ASSUME NEW i \in Nat, NEW j \in Nat, NEW S,
         i \in S, \A k \in (i + 1)..j : k - 1 \in S => k \in S
  PROVE  \A k \in i..j : k \in S
<1> DEFINE T == {k \in i..j : k \notin S}
<1> SUFFICES ASSUME T # {} PROVE FALSE
  OBVIOUS
<1>1. T \in SUBSET Nat
  OBVIOUS
<1> HIDE DEF T
<1>2. PICK n \in T : \A m \in T : n <= m
  BY <1>1, LeastElement
<1>3. n \in i..j /\ n \notin S /\ n # i
  BY <1>2 DEF T
<1>4. n \in (i + 1)..j /\ n - 1 \in i..j /\ ~(n <= n - 1)
  BY <1>3
<1>5. n - 1 \notin S
  BY <1>3, <1>4
<1> QED BY <1>2, <1>4, <1>5 DEF T

(* The same when every smaller number may be used. *)
LEMMA ClimbStrong ==
  ASSUME NEW j \in Nat, NEW S,
         \A k \in 1..j : (\A m \in 1..(k - 1) : m \in S) => k \in S
  PROVE  \A k \in 1..j : k \in S
<1> DEFINE T == {k \in 1..j : k \notin S}
<1> SUFFICES ASSUME T # {} PROVE FALSE
  OBVIOUS
<1>1. T \in SUBSET Nat
  OBVIOUS
<1> HIDE DEF T
<1>2. PICK n \in T : \A m \in T : n <= m
  BY <1>1, LeastElement
<1>3. n \in 1..j /\ n \notin S
  BY <1>2 DEF T
<1>4. PICK m \in 1..(n - 1) : m \notin S
  BY <1>3
<1>5. m \in 1..j /\ ~(n <= m)
  BY <1>3, <1>4
<1> QED BY <1>2, <1>4, <1>5 DEF T

----------------------------------------------------------------------------
(* Trails *)

(* A directory's entries are older objects *)
Entries(o) == \A h \in 1..Len(o) : \A n \in Name : o[h].dir[n] \in 0..(h - 1)

Components(p) == Len(p) \in Nat /\ \A i \in 1..Len(p) : p[i] \in Name

LEMMA FollowKnown ==
  ASSUME NEW o \in Seq(Object), Entries(o), NEW h \in 0..Len(o), NEW n \in Name
  PROVE  /\ Follow(o, h, n) \in 0..Len(o)
         /\ Follow(o, h, n) # 0 => h \in 1..Len(o) /\ o[h].kind = "tree" /\ Follow(o, h, n) < h
<1>1. CASE h # 0 /\ o[h].kind = "tree"
  <2>1. h \in 1..Len(o)
    BY <1>1
  <2>2. o[h].dir[n] \in 0..(h - 1)
    BY <2>1 DEF Entries
  <2> QED BY <1>1, <2>1, <2>2 DEF Follow
<1>2. CASE ~(h # 0 /\ o[h].kind = "tree")
  BY <1>2 DEF Follow
<1> QED BY <1>1, <1>2

(* From position i to j, t takes the entries that p names *)
Follows(o, t, p, i, j) == \A k \in (i + 1)..j : t[k] = Follow(o, t[k - 1], p[k])

IsTrail(o, root, p, n, t) ==
  /\ t \in [0..n -> 0..Len(o)]
  /\ t[0] = root
  /\ Follows(o, t, p, 0, n)

(* Following a path from a tree is well defined, and leads to known objects. *)
LEMMA TrailFacts ==
  ASSUME NEW o \in Seq(Object), Entries(o), NEW root \in 0..Len(o), NEW p, Components(p)
  PROVE  IsTrail(o, root, p, Len(p), Trail(o, root, p))
<1> DEFINE n == Len(p)
           S == {m \in 0..n : \E t : IsTrail(o, root, p, m, t)}
           Def(f) == f = [k \in 0..n |-> IF k = 0 THEN root ELSE Follow(o, f[k - 1], p[k])]
           at == Trail(o, root, p)
<1>0. n \in Nat
  BY DEF Components
<1>1. 0 \in S
  <2>1. IsTrail(o, root, p, 0, [k \in 0..0 |-> root])
    BY DEF IsTrail, Follows
  <2> QED BY <1>0, <2>1
<1>2. ASSUME NEW k \in (0 + 1)..n, k - 1 \in S PROVE k \in S
  <2>1. PICK t : IsTrail(o, root, p, k - 1, t)
    BY <1>2
  <2>2. t \in [0..(k - 1) -> 0..Len(o)] /\ k \in Nat /\ k # 0 /\ p[k] \in Name
    BY <1>0, <2>1 DEF IsTrail, Follows, Components
  <2>3. Follow(o, t[k - 1], p[k]) \in 0..Len(o)
    BY <2>2, FollowKnown
  <2> DEFINE u == [m \in 0..k |-> IF m = k THEN Follow(o, t[k - 1], p[k]) ELSE t[m]]
  <2>4. u \in [0..k -> 0..Len(o)]
    BY <2>2, <2>3
  <2>5. u[0] = root /\ u[k] = Follow(o, u[k - 1], p[k])
    BY <2>1, <2>2 DEF IsTrail, Follows
  <2>6. \A m \in 1..(k - 1) : u[m] = Follow(o, u[m - 1], p[m])
    BY <2>1, <2>2 DEF IsTrail, Follows
  <2>7. \A m \in 1..k : m = k \/ m \in 1..(k - 1)
    BY <2>2
  <2> HIDE DEF u
  <2>8. IsTrail(o, root, p, k, u)
    BY <2>4, <2>5, <2>6, <2>7 DEF IsTrail, Follows
  <2> QED BY <1>0, <2>8
<1>3. n \in S
  <2> HIDE DEF S, n
  <2>1. \A k \in 0..n : k \in S
    BY <1>0, <1>1, <1>2, Climb
  <2> QED BY <1>0, <2>1
<1>4. PICK t : IsTrail(o, root, p, n, t)
  BY <1>3
<1>5. Def(t)
  <2>1. t = [k \in 0..n |-> t[k]]
    BY <1>4 DEF IsTrail
  <2>2. \A k \in 0..n : t[k] = IF k = 0 THEN root ELSE Follow(o, t[k - 1], p[k])
    BY <1>0, <1>4 DEF IsTrail, Follows
  <2> QED BY <2>1, <2>2
<1>6. Def(at)
  <2>1. at = CHOOSE f : Def(f)
    BY DEF Trail
  <2> HIDE DEF Def, at
  <2> QED BY <1>5, <2>1
<1>7. DOMAIN at = 0..n /\ at[0] = root /\ \A k \in 1..n : at[k] = Follow(o, at[k - 1], p[k])
  <2> HIDE DEF at
  <2>1. at = [k \in 0..n |-> IF k = 0 THEN root ELSE Follow(o, at[k - 1], p[k])]
    BY <1>6
  <2>2. DOMAIN at = 0..n
    BY <2>1
  <2>3. \A k \in 0..n : at[k] = IF k = 0 THEN root ELSE Follow(o, at[k - 1], p[k])
    BY <2>1
  <2> HIDE DEF n
  <2> QED BY <1>0, <2>2, <2>3
<1> DEFINE G == {k \in 0..n : at[k] \in 0..Len(o)}
<1>8. \A k \in 0..n : at[k] \in 0..Len(o)
  <2>1. 0 \in G
    BY <1>0, <1>7
  <2>2. ASSUME NEW k \in (0 + 1)..n, k - 1 \in G PROVE k \in G
    <3>1. at[k - 1] \in 0..Len(o) /\ p[k] \in Name /\ at[k] = Follow(o, at[k - 1], p[k])
      BY <1>0, <1>7, <2>2 DEF Components
    <3>2. at[k] \in 0..Len(o)
      BY <3>1, FollowKnown
    <3> QED BY <1>0, <3>2
  <2> HIDE DEF G, n
  <2>3. \A k \in 0..n : k \in G
    BY <1>0, <2>1, <2>2, Climb
  <2> QED BY <2>3 DEF G
<1>9. at = [k \in 0..n |-> at[k]]
  <2> HIDE DEF at
  <2> QED BY <1>6
<1> HIDE DEF at, n
<1>10. at \in [0..n -> 0..Len(o)]
  BY <1>8, <1>9
<1> QED BY <1>7, <1>10 DEF IsTrail, Follows, n, at

(* Two trails that meet, and take the same entries from there on, stay together. *)
Alike(o, o2, t, p, q, i, j) ==
  \A k \in (i + 1)..j : Follow(o2, t[k - 1], q[k]) = Follow(o, t[k - 1], p[k])

LEMMA TrailsMeet ==
  ASSUME NEW o, NEW o2, NEW p, NEW q, NEW i \in Nat, NEW j \in Nat, NEW t, NEW u,
         t[i] = u[i],
         Follows(o, t, p, i, j), Follows(o2, u, q, i, j), Alike(o, o2, t, p, q, i, j)
  PROVE  \A k \in i..j : u[k] = t[k]
<1> DEFINE S == {k \in i..j : u[k] = t[k]}
<1>0. CASE j < i
  BY <1>0
<1>1. CASE i <= j
  <2>1. i \in S
    BY <1>1
  <2>2. ASSUME NEW k \in (i + 1)..j, k - 1 \in S PROVE k \in S
    <3>1. k \in i..j
      OBVIOUS
    <3> QED BY <2>2, <3>1 DEF Follows, Alike
  <2> HIDE DEF S
  <2>3. \A k \in i..j : k \in S
    BY <2>1, <2>2, Climb
  <2> QED BY <2>3 DEF S
<1> QED BY <1>0, <1>1

(* The object h has no entries to follow *)
Barren(o, h) == h = 0 \/ o[h].kind # "tree" \/ o[h].dir = EmptyDir

LEMMA BarrenFollow ==
  ASSUME NEW o, NEW h, Barren(o, h), NEW n \in Name
  PROVE  Follow(o, h, n) = 0
  BY DEF Barren, Follow, EmptyDir

(* A trail that comes to an object without entries leads nowhere. *)
LEMMA TrailEnds ==
  ASSUME NEW o, NEW p, NEW i \in Nat, NEW j \in Nat, NEW t,
         \A k \in (i + 1)..j : p[k] \in Name,
         Follows(o, t, p, i, j), Barren(o, t[i])
  PROVE  \A k \in (i + 1)..j : t[k] = 0
<1> DEFINE S == {k \in (i + 1)..j : t[k] = 0}
<1>0. CASE j < i + 1
  BY <1>0
<1>1. CASE i + 1 <= j
  <2>1. i + 1 \in S
    <3>1. i + 1 \in (i + 1)..j /\ (i + 1) - 1 = i
      BY <1>1
    <3>2. t[i + 1] = Follow(o, t[i], p[i + 1]) /\ p[i + 1] \in Name
      BY <3>1 DEF Follows
    <3> QED BY <3>1, <3>2, BarrenFollow
  <2>2. ASSUME NEW k \in ((i + 1) + 1)..j, k - 1 \in S PROVE k \in S
    <3>1. k \in (i + 1)..j
      OBVIOUS
    <3>2. t[k - 1] = 0 /\ t[k] = Follow(o, t[k - 1], p[k])
      BY <2>2, <3>1 DEF Follows
    <3> QED BY <3>1, <3>2 DEF Follow
  <2>4. i + 1 \in Nat
    OBVIOUS
  <2> HIDE DEF S
  <2>3. \A k \in (i + 1)..j : k \in S
    BY <2>1, <2>2, <2>4, Climb
  <2> QED BY <2>3 DEF S
<1> QED BY <1>0, <1>1

LEMMA StoreEntries ==
  ASSUME NEW o \in Seq(Object), NEW r, StoreInv(o, r)
  PROVE  Entries(o)
<1> SUFFICES ASSUME NEW h \in 1..Len(o), NEW n \in Name PROVE o[h].dir[n] \in 0..(h - 1)
  BY DEF Entries
<1>1. o[h] \in Object /\ ObjectInv(o, r, h)
  BY DEF StoreInv
<1>2. o[h].dir[n] \in Nat /\ o[h].dir[n] < h
  BY <1>1 DEF ObjectInv, Object
<1> QED BY <1>2

LEMMA PathComponents ==
  ASSUME NEW p \in Path
  PROVE  Components(p) /\ Len(p) \in Nat \ {0}
  BY PathFacts DEF Components

(* Names keep their meaning while the store grows. *)
LEMMA TrailGrows ==
  ASSUME NEW o \in Seq(Object), NEW o2 \in Seq(Object), Entries(o), Entries(o2), Grows(o, o2),
         NEW root \in 0..Len(o), NEW p, Components(p)
  PROVE  \A k \in 0..Len(p) : Trail(o2, root, p)[k] = Trail(o, root, p)[k]
<1> DEFINE t == Trail(o, root, p)
           u == Trail(o2, root, p)
<1>1. Len(o) \in Nat /\ Len(o2) = Len(o) + 1 /\ Len(p) \in Nat /\ root \in 0..Len(o2)
  BY DEF Grows, Components
<1>2. IsTrail(o, root, p, Len(p), t) /\ IsTrail(o2, root, p, Len(p), u)
  BY <1>1, TrailFacts
<1> HIDE DEF t, u
<1>3. u[0] = t[0]
  BY <1>2 DEF IsTrail
<1>4. ASSUME NEW k \in (0 + 1)..Len(p)
      PROVE  /\ t[k] = Follow(o, t[k - 1], p[k])
             /\ u[k] = Follow(o2, u[k - 1], p[k])
             /\ Follow(o2, t[k - 1], p[k]) = Follow(o, t[k - 1], p[k])
  <2>0. k \in 1..Len(p) /\ k - 1 \in 0..Len(p)
    BY <1>1
  <2>1. t[k - 1] \in 0..Len(o)
    BY <1>2, <2>0 DEF IsTrail
  <2>2. t[k - 1] # 0 => o2[t[k - 1]] = o[t[k - 1]]
    BY <1>1, <2>1 DEF Grows
  <2>3. Follow(o2, t[k - 1], p[k]) = Follow(o, t[k - 1], p[k])
    BY <2>2 DEF Follow
  <2> QED BY <1>2, <2>0, <2>3 DEF IsTrail, Follows
<1>5. Follows(o, t, p, 0, Len(p)) /\ Follows(o2, u, p, 0, Len(p)) /\ Alike(o, o2, t, p, p, 0, Len(p))
  BY <1>4 DEF Follows, Alike
<1>6. \A k \in 0..Len(p) : u[k] = t[k]
  BY <1>1, <1>3, <1>5, TrailsMeet
<1> QED BY <1>6 DEF t, u

LEMMA ResolveKnown ==
  ASSUME NEW o \in Seq(Object), Entries(o), NEW root \in 0..Len(o), NEW p \in Path
  PROVE  ResolvePath(o, root, p) \in 0..Len(o)
<1>1. IsTrail(o, root, p, Len(p), Trail(o, root, p)) /\ Len(p) \in Nat
  BY PathComponents, TrailFacts
<1> HIDE DEF Trail
<1> QED BY <1>1 DEF IsTrail, ResolvePath

LEMMA VersionGrows ==
  ASSUME NEW o \in Seq(Object), NEW o2 \in Seq(Object), Entries(o), Entries(o2), Grows(o, o2),
         NEW root \in 0..Len(o)
  PROVE  Version(o2, root) = Version(o, root)
<1>1. ASSUME NEW q \in Path
      PROVE  /\ ResolvePath(o2, root, q) = ResolvePath(o, root, q)
             /\ ResolvePath(o, root, q) \in 0..Len(o)
  <2>1. Components(q) /\ Len(q) \in 0..Len(q)
    BY PathComponents
  <2>2. Trail(o2, root, q)[Len(q)] = Trail(o, root, q)[Len(q)]
    BY <2>1, TrailGrows
  <2> QED BY <2>2, ResolveKnown DEF ResolvePath
<1>2. ASSUME NEW h \in 1..Len(o) PROVE Shown(o2, h) = Shown(o, h)
  BY DEF Grows, Shown
<1>3. {q \in Path : ResolvePath(o2, root, q) # 0} = {q \in Path : ResolvePath(o, root, q) # 0}
  BY <1>1
<1>4. \A q \in {x \in Path : ResolvePath(o, root, x) # 0} :
        Shown(o2, ResolvePath(o2, root, q)) = Shown(o, ResolvePath(o, root, q))
  BY <1>1, <1>2
<1> HIDE DEF ResolvePath, Shown
<1> QED BY <1>3, <1>4 DEF Version

(* ... and so do the versions the heads stand for. *)
LEMMA VersionOfGrows ==
  ASSUME NEW o \in Seq(Object), NEW o2 \in Seq(Object), Entries(o), Entries(o2), Grows(o, o2),
         NEW h, h \notin {NoHead, TornHead} => h \in 1..Len(o) /\ o[h].root \in 0..Len(o)
  PROVE  VersionOf(o2, h) = VersionOf(o, h)
<1>1. CASE h \in {NoHead, TornHead}
  BY <1>1 DEF VersionOf
<1>2. CASE h \notin {NoHead, TornHead}
  <2>1. o2[h].root = o[h].root
    BY <1>2 DEF Grows
  <2>2. Version(o2, o[h].root) = Version(o, o[h].root)
    BY <1>2, VersionGrows
  <2> QED BY <1>2, <2>1, <2>2 DEF VersionOf
<1> QED BY <1>1, <1>2

----------------------------------------------------------------------------
(* What rewriting the trees on a path does to the paths of a version *)

(* h is the tree of level i that a command has loaded on its way down the trail t:
   the one it found there or, where nothing was, an empty placeholder *)
Loads(o, t, i, h) ==
  /\ TreeIn(o, h)
  /\ \/ h = t[i - 1]
     \/ t[i - 1] = 0 /\ o[h].dir = EmptyDir

(* new: the trees a command has stored on its way up from level n to level l *)
Rewritten(o, old, p, new, l, n) ==
  /\ new \in [l..(n + 1) -> 0..Len(o)]
  /\ \A i \in l..n : /\ TreeIn(o, new[i])
                     /\ o[new[i]].dir = [o[old[i]].dir EXCEPT ![p[i]] = new[i + 1]]

Rewrite(o, root, p, old, new) ==
  /\ \A i \in 1..Len(p) : Loads(o, Trail(o, root, p), i, old[i])
  /\ Rewritten(o, old, p, new, 1, Len(p))

(* How far q goes along p, and whether it leaves p *)
Along(p, q, k)  == k <= Len(p) /\ \A i \in 1..k : q[i] = p[i]
Leaves(p, q, k) == \E i \in 1..Len(p) : i <= k /\ q[i] # p[i]

LEMMA LoadedTree ==
  ASSUME NEW o \in Seq(Object), NEW h, TreeIn(o, h)
  PROVE  h \in 1..Len(o) /\ h # 0 /\ o[h].kind = "tree" /\ o[h].dir \in [Name -> Nat]
<1>1. h \in 1..Len(o) /\ o[h].kind = "tree"
  BY DEF TreeIn
<1>2. o[h] \in Object
  BY <1>1
<1> QED BY <1>1, <1>2 DEF Object

(* Along the path the new trees are met, beside it everything is as before. *)
LEMMA RewrittenTrail ==
  ASSUME NEW o \in Seq(Object), Entries(o), NEW p \in Path, NEW q, Components(q),
         NEW root \in 0..Len(o), NEW old, NEW new, Rewrite(o, root, p, old, new)
  PROVE  \A k \in 0..Len(q) :
           /\ Along(p, q, k) => /\ Trail(o, new[1], q)[k] = new[k + 1]
                                /\ Trail(o, root, q)[k] = Trail(o, root, p)[k]
           /\ Leaves(p, q, k) => Trail(o, new[1], q)[k] = Trail(o, root, q)[k]
<1> DEFINE e == Trail(o, root, p)
           f == Trail(o, root, q)
           g == Trail(o, new[1], q)
           S == {k \in 0..Len(q) : /\ Along(p, q, k) => g[k] = new[k + 1] /\ f[k] = e[k]
                                   /\ Leaves(p, q, k) => g[k] = f[k]}
<1>1. /\ Len(p) \in Nat /\ Len(p) > 0 /\ Len(q) \in Nat
      /\ \A i \in 1..Len(p) : p[i] \in Name
      /\ \A i \in 1..Len(q) : q[i] \in Name
      /\ Components(p) /\ Components(q)
  BY PathComponents DEF Components
<1>2. new[1] \in 0..Len(o)
  BY <1>1 DEF Rewrite, Rewritten
<1>3. /\ IsTrail(o, root, p, Len(p), e) /\ IsTrail(o, root, q, Len(q), f)
      /\ IsTrail(o, new[1], q, Len(q), g)
  BY <1>1, <1>2, TrailFacts
<1>4. \A i \in 1..Len(p) : Loads(o, e, i, old[i])
  BY DEF Rewrite
<1> HIDE DEF e, f, g
<1>5. 0 \in S
  <2>1. f[0] = e[0] /\ g[0] = new[0 + 1]
    BY <1>3 DEF IsTrail
  <2>2. ~Leaves(p, q, 0)
    BY <1>1 DEF Leaves
  <2> QED BY <1>1, <2>1, <2>2
<1>6. ASSUME NEW k \in (0 + 1)..Len(q), k - 1 \in S PROVE k \in S
  <2>1. k \in 1..Len(q) /\ k \in 0..Len(q) /\ k - 1 \in Nat /\ k \in Nat /\ q[k] \in Name
    BY <1>1
  <2>2. f[k] = Follow(o, f[k - 1], q[k]) /\ g[k] = Follow(o, g[k - 1], q[k])
    BY <1>3, <2>1 DEF IsTrail, Follows
  (* the new and the old tree at level k, if q has gone along p so far *)
  <2>3. ASSUME Along(p, q, k - 1), k <= Len(p)
        PROVE  /\ g[k - 1] = new[k] /\ f[k - 1] = e[k - 1] /\ k \in 1..Len(p) /\ p[k] \in Name
               /\ TreeIn(o, new[k]) /\ TreeIn(o, old[k])
               /\ o[new[k]].dir = [o[old[k]].dir EXCEPT ![p[k]] = new[k + 1]]
               /\ Loads(o, e, k, old[k])
    <3>1. g[k - 1] = new[(k - 1) + 1] /\ f[k - 1] = e[k - 1]
      BY <1>6, <2>3
    <3>2. (k - 1) + 1 = k /\ k \in 1..Len(p)
      BY <1>1, <2>1, <2>3
    <3>3. Loads(o, e, k, old[k])
      BY <1>4, <3>2
    <3>4. TreeIn(o, new[k]) /\ o[new[k]].dir = [o[old[k]].dir EXCEPT ![p[k]] = new[k + 1]]
      BY <3>2 DEF Rewrite, Rewritten
    <3> QED BY <1>1, <3>1, <3>2, <3>3, <3>4 DEF Loads
  <2>4. ASSUME Along(p, q, k) PROVE g[k] = new[k + 1] /\ f[k] = e[k]
    <3>1. Along(p, q, k - 1) /\ k <= Len(p) /\ q[k] = p[k]
      BY <1>1, <2>1, <2>4 DEF Along
    <3>2. /\ g[k - 1] = new[k] /\ f[k - 1] = e[k - 1] /\ k \in 1..Len(p) /\ p[k] \in Name
          /\ TreeIn(o, new[k]) /\ TreeIn(o, old[k])
          /\ o[new[k]].dir = [o[old[k]].dir EXCEPT ![p[k]] = new[k + 1]]
      BY <2>3, <3>1
    <3>3. e[k] = Follow(o, e[k - 1], p[k])
      BY <1>3, <3>2 DEF IsTrail, Follows
    <3>4. o[old[k]].dir \in [Name -> Nat] /\ new[k] # 0 /\ o[new[k]].kind = "tree"
      BY <3>2, LoadedTree
    <3>5. g[k] = o[new[k]].dir[p[k]]
      BY <2>2, <3>1, <3>2, <3>4 DEF Follow
    <3> QED BY <2>2, <3>1, <3>2, <3>3, <3>4, <3>5
  <2>5. ASSUME Leaves(p, q, k) PROVE g[k] = f[k]
    <3>1. CASE Leaves(p, q, k - 1)
      BY <1>6, <2>2, <3>1
    <3>2. CASE ~Leaves(p, q, k - 1)
      <4>1. PICK i \in 1..Len(p) : i <= k /\ q[i] # p[i]
        BY <2>5 DEF Leaves
      <4>2. i = k
        BY <2>1, <3>2, <4>1 DEF Leaves
      <4>3. k <= Len(p) /\ q[k] # p[k]
        BY <1>1, <4>1, <4>2
      <4>4. Along(p, q, k - 1)
        BY <1>1, <2>1, <3>2, <4>3 DEF Leaves, Along
      <4>5. /\ g[k - 1] = new[k] /\ f[k - 1] = e[k - 1] /\ p[k] \in Name
            /\ TreeIn(o, new[k]) /\ TreeIn(o, old[k])
            /\ o[new[k]].dir = [o[old[k]].dir EXCEPT ![p[k]] = new[k + 1]]
            /\ Loads(o, e, k, old[k])
        BY <2>3, <4>3, <4>4
      <4>6. o[old[k]].dir \in [Name -> Nat] /\ new[k] # 0 /\ o[new[k]].kind = "tree"
            /\ old[k] # 0 /\ o[old[k]].kind = "tree"
        BY <4>5, LoadedTree
      <4>7. g[k] = o[new[k]].dir[q[k]]
        BY <2>2, <4>5, <4>6 DEF Follow
      <4>8. g[k] = o[old[k]].dir[q[k]]
        BY <2>1, <4>3, <4>5, <4>6, <4>7
      <4>9. CASE old[k] = e[k - 1]
        <5>1. f[k] = o[old[k]].dir[q[k]]
          BY <2>2, <4>5, <4>6, <4>9 DEF Follow
        <5> QED BY <4>8, <5>1
      <4>10. CASE e[k - 1] = 0 /\ o[old[k]].dir = EmptyDir
        <5>1. f[k] = 0
          BY <2>2, <4>5, <4>10 DEF Follow
        <5>2. o[old[k]].dir[q[k]] = 0
          BY <2>1, <4>10 DEF EmptyDir
        <5> QED BY <4>8, <5>1, <5>2
      <4> QED BY <4>5, <4>9, <4>10 DEF Loads
    <3> QED BY <3>1, <3>2
  <2> QED BY <2>1, <2>4, <2>5
<1>7. \A k \in 0..Len(q) : k \in S
  <2> HIDE DEF S
  <2> QED BY <1>1, <1>5, <1>6, Climb
<1> QED BY <1>7 DEF e, f, g

LEMMA SamePaths == FS!Path = Path
  BY DEF FS!Path, Path

LEMMA PathIsFunction ==
  ASSUME NEW p \in Path
  PROVE  p \in [1..Len(p) -> Name] /\ Len(p) \in 1..MaxDepth /\ p \in Seq(Name)
<1>1. PICK k \in 1..MaxDepth : p \in [1..k -> Name]
  BY DEF Path
<1>2. Len(p) = k
  BY <1>1, ConstantsAssumption
<1> QED BY <1>1, <1>2

LEMMA Beginning ==
  ASSUME NEW s \in Seq(Name), NEW m \in 1..Len(s)
  PROVE  /\ SubSeq(s, 1, m) \in Seq(Name) /\ Len(SubSeq(s, 1, m)) = m
         /\ \A i \in 1..m : SubSeq(s, 1, m)[i] = s[i]
<1>1. SubSeq(s, 1, m) \in Seq(Name) /\ Len(SubSeq(s, 1, m)) = m
  OBVIOUS
<1>2. \A i \in 1..m : SubSeq(s, 1, m)[i] = s[i]
  OBVIOUS
<1> QED BY <1>1, <1>2

LEMMA SameNames ==
  ASSUME NEW s \in Seq(Name), NEW t \in Seq(Name), Len(s) = Len(t),
         \A i \in 1..Len(s) : s[i] = t[i]
  PROVE  s = t
  OBVIOUS

LEMMA StrictPrefix ==
  ASSUME NEW p \in Path, NEW q \in Path
  PROVE  FS!IsStrictPrefix(q, p) <=> Len(q) < Len(p) /\ \A i \in 1..Len(q) : q[i] = p[i]
<1>1. p \in Seq(Name) /\ q \in Seq(Name) /\ Len(p) \in Nat /\ Len(q) \in Nat /\ Len(q) > 0
  BY PathIsFunction, PathComponents
<1>2. SubSeq(q, 1, Len(q)) = q
  <2>1. Len(q) \in 1..Len(q)
    BY <1>1
  <2> QED BY <1>1, <2>1, Beginning, SameNames
<1>3. ASSUME Len(q) <= Len(p)
      PROVE  /\ SubSeq(p, 1, Len(q)) \in Seq(Name) /\ Len(SubSeq(p, 1, Len(q))) = Len(q)
             /\ \A i \in 1..Len(q) : SubSeq(p, 1, Len(q))[i] = p[i]
  <2>1. Len(q) \in 1..Len(p)
    BY <1>1, <1>3
  <2> QED BY <1>1, <2>1, Beginning
<1>4. ASSUME FS!IsStrictPrefix(q, p)
      PROVE  Len(q) < Len(p) /\ \A i \in 1..Len(q) : q[i] = p[i]
  <2>1. Len(q) <= Len(p) /\ q = SubSeq(p, 1, Len(q)) /\ q # p
    BY <1>2, <1>4 DEF FS!IsStrictPrefix, FS!IsPrefix
  <2>2. \A i \in 1..Len(q) : q[i] = p[i]
    BY <1>3, <2>1
  <2>3. Len(q) # Len(p)
    BY <1>1, <2>1, <2>2, SameNames
  <2>4. Len(q) < Len(p)
    BY <1>1, <2>1, <2>3
  <2> QED BY <2>2, <2>4
<1>5. ASSUME Len(q) < Len(p), \A i \in 1..Len(q) : q[i] = p[i]
      PROVE  FS!IsStrictPrefix(q, p)
  <2>1. Len(q) <= Len(p) /\ q # p
    BY <1>1, <1>5
  <2>2. q = SubSeq(p, 1, Len(q))
    <3>1. \A i \in 1..Len(q) : q[i] = SubSeq(p, 1, Len(q))[i]
      BY <1>3, <1>5, <2>1
    <3> QED BY <1>1, <1>3, <2>1, <3>1, SameNames
  <2> QED BY <1>2, <2>1, <2>2 DEF FS!IsStrictPrefix, FS!IsPrefix
<1> QED BY <1>4, <1>5

(* A path is p, lies above or below p, or leaves p somewhere. *)
LEMMA Placed ==
  ASSUME NEW p \in Path, NEW q \in Path
  PROVE  /\ q = p \/ q \in FS!Above(p) \/ q \in FS!Below(p) \/ Leaves(p, q, Len(q))
         /\ q \in FS!Above(p) => Len(q) < Len(p) /\ Along(p, q, Len(q))
         /\ q \in FS!Below(p) => Len(p) < Len(q) /\ Along(p, q, Len(p))
         /\ Along(p, p, Len(p))
         /\ Leaves(p, q, Len(q)) => q # p /\ q \notin FS!Above(p) /\ q \notin FS!Below(p)
<1>1. p \in Seq(Name) /\ q \in Seq(Name) /\ Len(p) \in Nat /\ Len(q) \in Nat
  BY PathIsFunction, PathComponents
<1>2. q \in FS!Above(p) <=> Len(q) < Len(p) /\ \A i \in 1..Len(q) : q[i] = p[i]
  BY SamePaths, StrictPrefix DEF FS!Above
<1>3. q \in FS!Below(p) <=> Len(p) < Len(q) /\ \A i \in 1..Len(p) : p[i] = q[i]
  BY SamePaths, StrictPrefix DEF FS!Below
<1>4. ASSUME ~Leaves(p, q, Len(q))
      PROVE  q = p \/ q \in FS!Above(p) \/ q \in FS!Below(p)
  <2>1. \A i \in 1..Len(p) : i <= Len(q) => q[i] = p[i]
    BY <1>4 DEF Leaves
  <2>2. CASE Len(q) = Len(p)
    <3>1. \A i \in 1..Len(p) : q[i] = p[i]
      BY <1>1, <2>1, <2>2
    <3> QED BY <1>1, <2>2, <3>1, SameNames
  <2>3. CASE Len(q) < Len(p)
    BY <1>1, <1>2, <2>1, <2>3
  <2>4. CASE Len(p) < Len(q)
    BY <1>1, <1>3, <2>1, <2>4
  <2>5. Len(q) = Len(p) \/ Len(q) < Len(p) \/ Len(p) < Len(q)
    BY <1>1
  <2> QED BY <2>2, <2>3, <2>4, <2>5
<1>5. /\ q \in FS!Above(p) => Along(p, q, Len(q))
      /\ q \in FS!Below(p) => Along(p, q, Len(p))
      /\ Along(p, p, Len(p))
  BY <1>1, <1>2, <1>3 DEF Along
<1>6. ASSUME Leaves(p, q, Len(q)) PROVE q # p /\ q \notin FS!Above(p) /\ q \notin FS!Below(p)
  <2>1. PICK i \in 1..Len(p) : i <= Len(q) /\ q[i] # p[i]
    BY <1>6 DEF Leaves
  <2>2. i \in 1..Len(q)
    BY <1>1, <2>1
  <2> QED BY <1>2, <1>3, <2>1, <2>2
<1> QED BY <1>2, <1>3, <1>4, <1>5, <1>6

(* Where the paths of a version lead before and after its path p is rewritten. *)
LEMMA RewrittenPaths ==
  ASSUME NEW o \in Seq(Object), Entries(o), NEW p \in Path, NEW root \in 0..Len(o),
         NEW old, NEW new, Rewrite(o, root, p, old, new)
  PROVE  /\ ResolvePath(o, new[1], p) = new[Len(p) + 1]
         /\ \A q \in FS!Above(p) :
              /\ TreeIn(o, ResolvePath(o, new[1], q))
              /\ ResolvePath(o, root, q) = 0 => ResolvePath(o, root, p) = 0
              /\ ResolvePath(o, root, q) # 0 => TreeIn(o, ResolvePath(o, root, q))
         /\ \A q \in FS!Below(p) :
              /\ Barren(o, new[Len(p) + 1]) => ResolvePath(o, new[1], q) = 0
              /\ Barren(o, ResolvePath(o, root, p)) => ResolvePath(o, root, q) = 0
         /\ \A q \in Path : Leaves(p, q, Len(q)) => ResolvePath(o, new[1], q) = ResolvePath(o, root, q)
<1> DEFINE n == Len(p)
           e == Trail(o, root, p)
           f(q) == Trail(o, root, q)
           g(q) == Trail(o, new[1], q)
<1>1. n \in Nat /\ n > 0 /\ Components(p)
  BY PathComponents DEF Components
<1>2. new[1] \in 0..Len(o)
  BY <1>1 DEF Rewrite, Rewritten
<1>3. IsTrail(o, root, p, n, e)
  BY <1>1, TrailFacts
<1>4. \A q \in Path : /\ Len(q) \in Nat /\ \A i \in 1..Len(q) : q[i] \in Name
                      /\ IsTrail(o, root, q, Len(q), f(q))
                      /\ IsTrail(o, new[1], q, Len(q), g(q))
  BY <1>2, PathComponents, TrailFacts DEF Components
<1>5. \A q \in Path : \A k \in 0..Len(q) :
        /\ Along(p, q, k) => g(q)[k] = new[k + 1] /\ f(q)[k] = e[k]
        /\ Leaves(p, q, k) => g(q)[k] = f(q)[k]
  BY PathComponents, RewrittenTrail
<1>6. \A q \in Path : ResolvePath(o, new[1], q) = g(q)[Len(q)] /\ ResolvePath(o, root, q) = f(q)[Len(q)]
  BY DEF ResolvePath
<1>7. ResolvePath(o, root, p) = e[n]
  BY DEF ResolvePath
<1>8. \A q \in FS!Above(p) \cup FS!Below(p) : q \in Path
  BY SamePaths DEF FS!Above, FS!Below
<1>9. \A i \in 1..n : /\ TreeIn(o, new[i]) /\ TreeIn(o, old[i])
                      /\ old[i] = e[i - 1] \/ e[i - 1] = 0
  BY DEF Rewrite, Rewritten, Loads
<1> HIDE DEF e, f, g
<1>10. ResolvePath(o, new[1], p) = new[n + 1]
  BY <1>1, <1>5, <1>6, Placed
<1>11. ASSUME NEW q \in FS!Above(p)
       PROVE  /\ TreeIn(o, ResolvePath(o, new[1], q))
              /\ ResolvePath(o, root, q) = 0 => ResolvePath(o, root, p) = 0
              /\ ResolvePath(o, root, q) # 0 => TreeIn(o, ResolvePath(o, root, q))
  <2> DEFINE m == Len(q)
  <2>1. q \in Path /\ m < n /\ Along(p, q, m) /\ m \in Nat
    BY <1>4, <1>8, Placed
  <2>2. g(q)[m] = new[m + 1] /\ f(q)[m] = e[m]
    BY <1>5, <2>1
  <2>3. m + 1 \in 1..n /\ (m + 1) - 1 = m
    BY <1>1, <2>1
  <2>4. /\ TreeIn(o, new[m + 1])
        /\ e[m] # 0 => TreeIn(o, e[m])
    BY <1>9, <2>3
  <2>5. ASSUME e[m] = 0 PROVE e[n] = 0
    <3>1. Barren(o, e[m])
      BY <2>5 DEF Barren
    <3>2. Follows(o, e, p, m, n) /\ \A k \in (m + 1)..n : p[k] \in Name
      BY <1>1, <1>3, <2>1 DEF IsTrail, Follows, Components
    <3>3. \A k \in (m + 1)..n : e[k] = 0
      BY <1>1, <2>1, <3>1, <3>2, TrailEnds
    <3> QED BY <1>1, <2>1, <3>3
  <2> QED BY <1>6, <1>7, <2>1, <2>2, <2>4, <2>5
<1>12. ASSUME NEW q \in FS!Below(p)
       PROVE  /\ Barren(o, new[n + 1]) => ResolvePath(o, new[1], q) = 0
              /\ Barren(o, ResolvePath(o, root, p)) => ResolvePath(o, root, q) = 0
  <2> DEFINE m == Len(q)
  <2>1. q \in Path /\ n < m /\ Along(p, q, n) /\ m \in Nat
    BY <1>4, <1>8, Placed
  <2>2. g(q)[n] = new[n + 1] /\ f(q)[n] = e[n]
    BY <1>1, <1>5, <2>1
  <2>3. /\ Follows(o, f(q), q, n, m) /\ Follows(o, g(q), q, n, m)
        /\ \A k \in (n + 1)..m : q[k] \in Name
    BY <1>1, <1>4, <2>1 DEF IsTrail, Follows
  <2>4. Barren(o, new[n + 1]) => \A k \in (n + 1)..m : g(q)[k] = 0
    BY <1>1, <2>1, <2>2, <2>3, TrailEnds
  <2>5. Barren(o, e[n]) => \A k \in (n + 1)..m : f(q)[k] = 0
    BY <1>1, <2>1, <2>2, <2>3, TrailEnds
  <2>6. m \in (n + 1)..m
    BY <1>1, <2>1
  <2> QED BY <1>6, <1>7, <2>1, <2>4, <2>5, <2>6
<1>13. \A q \in Path : Leaves(p, q, Len(q)) => ResolvePath(o, new[1], q) = ResolvePath(o, root, q)
  BY <1>4, <1>5, <1>6
<1> QED BY <1>10, <1>11, <1>12, <1>13

----------------------------------------------------------------------------
(* Rewriting the trees on a path is one edit of VaultFS *)

LEMMA VersionPaths ==
  ASSUME NEW o, NEW root
  PROVE  /\ Version(o, root) = [q \in DOMAIN Version(o, root) |-> Version(o, root)[q]]
         /\ DOMAIN Version(o, root) = {q \in Path : ResolvePath(o, root, q) # 0}
         /\ \A q \in Path : ResolvePath(o, root, q) # 0 =>
              Version(o, root)[q] = Shown(o, ResolvePath(o, root, q))
<1> HIDE DEF ResolvePath, Shown
<1> QED BY DEF Version

(* What the command may do to the entry e at the end of its path, and the new entry h *)
LeafFits(o, op, e, h) ==
  \/ op = "add" /\ h # 0 /\ o[h].kind = "blob" /\ ~TreeIn(o, e)
  \/ op = "mkdir" /\ TreeIn(o, h) /\ o[h].dir = EmptyDir /\ e = 0
  \/ op = "remove" /\ h = 0 /\ e # 0 /\ o[e].kind = "blob"
  \/ op \in {"rmdir", "rmdirall"} /\ h = 0 /\ TreeIn(o, e)

EditOf(v, w) ==
  \E p \in FS!Path : \/ FS!AddFile(v, w, p) \/ FS!MakeDir(v, w, p)
                     \/ FS!RemoveFile(v, w, p) \/ FS!RemoveDir(v, w, p)

LEMMA RewriteIsEdit ==
  ASSUME NEW o \in Seq(Object), Entries(o), NEW p \in Path, NEW root \in 0..Len(o),
         NEW old, NEW new, Rewrite(o, root, p, old, new),
         NEW op, LeafFits(o, op, ResolvePath(o, root, p), new[Len(p) + 1])
  PROVE  EditOf(Version(o, root), Version(o, new[1]))
<1> DEFINE a(q) == ResolvePath(o, root, q)
           z(q) == ResolvePath(o, new[1], q)
           v == Version(o, root)
           w == Version(o, new[1])
           leaf == new[Len(p) + 1]
<1>1. /\ z(p) = leaf
      /\ \A q \in FS!Above(p) : TreeIn(o, z(q)) /\ (a(q) = 0 => a(p) = 0) /\ (a(q) # 0 => TreeIn(o, a(q)))
      /\ \A q \in FS!Below(p) : (Barren(o, leaf) => z(q) = 0) /\ (Barren(o, a(p)) => a(q) = 0)
      /\ \A q \in Path : Leaves(p, q, Len(q)) => z(q) = a(q)
  BY RewrittenPaths
<1>2. \A q \in Path : q = p \/ q \in FS!Above(p) \/ q \in FS!Below(p) \/ Leaves(p, q, Len(q))
  BY Placed
<1>3. /\ p \notin FS!Above(p) /\ p \notin FS!Below(p)
      /\ \A q \in FS!Above(p) : q \in Path /\ q \notin FS!Below(p) /\ ~Leaves(p, q, Len(q))
      /\ \A q \in FS!Below(p) : q \in Path /\ ~Leaves(p, q, Len(q))
      /\ ~Leaves(p, p, Len(p))
  <2>1. \A q \in FS!Above(p) \cup FS!Below(p) : q \in Path
    BY SamePaths DEF FS!Above, FS!Below
  <2>2. \A q \in Path : Len(q) \in Nat
    BY PathComponents
  <2>3. \A q \in Path : ~(q \in FS!Above(p) /\ q \in FS!Below(p))
    BY <2>2, Placed
  <2>4. \A q \in Path : Leaves(p, q, Len(q)) => q # p /\ q \notin FS!Above(p) /\ q \notin FS!Below(p)
    BY Placed
  <2>5. p \notin FS!Above(p) /\ p \notin FS!Below(p)
    BY <2>2, Placed
  <2> QED BY <2>1, <2>3, <2>4, <2>5
<1>4. /\ v = [q \in DOMAIN v |-> v[q]] /\ DOMAIN v = {q \in Path : a(q) # 0}
      /\ \A q \in Path : a(q) # 0 => v[q] = Shown(o, a(q))
      /\ w = [q \in DOMAIN w |-> w[q]] /\ DOMAIN w = {q \in Path : z(q) # 0}
      /\ \A q \in Path : z(q) # 0 => w[q] = Shown(o, z(q))
  BY VersionPaths
<1>5. \A h \in 0..Len(o) : /\ TreeIn(o, h) => h # 0 /\ Shown(o, h) = 0
                           /\ h # 0 /\ ~TreeIn(o, h) => Shown(o, h) = h
  BY DEF TreeIn, Shown
<1>6. \A q \in Path : a(q) \in 0..Len(o) /\ z(q) \in 0..Len(o)
  <2>1. new[1] \in 0..Len(o)
    BY PathComponents DEF Rewrite, Rewritten
  <2> QED BY <2>1, ResolveKnown
<1>7. leaf \in 0..Len(o)
  BY <1>1, <1>6
<1> HIDE DEF a, z, v, w, leaf
<1>8. \A q \in Path : /\ FS!Has(v, q) <=> a(q) # 0
                      /\ FS!IsDir(v, q) <=> TreeIn(o, a(q))
                      /\ FS!IsFile(v, q) <=> a(q) # 0 /\ ~TreeIn(o, a(q))
                      /\ FS!IsFile(w, q) <=> z(q) # 0 /\ ~TreeIn(o, z(q))
  BY <1>4, <1>5, <1>6 DEF FS!Has, FS!IsDir, FS!IsFile, FS!Dir
<1>9. FS!Reachable(v, p)
  BY <1>1, <1>3, <1>8 DEF FS!Reachable
<1>10. \A q \in Path : Leaves(p, q, Len(q)) /\ a(q) # 0 => w[q] = v[q]
  BY <1>1, <1>4
<1>11. \A q \in FS!Above(p) : z(q) # 0 /\ w[q] = 0 /\ (a(q) # 0 => v[q] = 0)
  BY <1>1, <1>3, <1>4, <1>5, <1>6
(* a new entry whose object has no entries itself *)
<1>12. ASSUME Barren(o, leaf), Barren(o, a(p)), leaf # 0
       PROVE  w = FS!Set(v, p, w[p])
  <2> DEFINE D == DOMAIN v \cup FS!Above(p) \cup {p}
  <2>1. DOMAIN w = D
    BY <1>1, <1>2, <1>3, <1>4, <1>11, <1>12
  <2>2. ASSUME NEW q \in D
        PROVE  w[q] = IF q = p THEN w[p] ELSE IF FS!Has(v, q) THEN v[q] ELSE FS!Dir
    <3>1. CASE q = p
      BY <3>1
    <3>2. CASE q \in FS!Above(p)
      BY <1>3, <1>8, <1>11, <3>2 DEF FS!Dir
    <3>3. CASE Leaves(p, q, Len(q)) /\ q \in DOMAIN v
      BY <1>3, <1>4, <1>8, <1>10, <3>3
    <3>4. q = p \/ q \in FS!Above(p) \/ (Leaves(p, q, Len(q)) /\ q \in DOMAIN v)
      BY <1>1, <1>2, <1>4, <1>12
    <3> QED BY <3>1, <3>2, <3>3, <3>4
  <2> HIDE DEF D
  <2>3. w = [q \in D |-> w[q]]
    BY <1>4, <2>1
  <2>4. w = [q \in D |-> IF q = p THEN w[p] ELSE IF FS!Has(v, q) THEN v[q] ELSE FS!Dir]
    BY <2>2, <2>3
  <2> QED BY <2>4 DEF FS!Set, D
(* an entry removed, with whatever was below it *)
<1>13. ASSUME leaf = 0, a(p) # 0
       PROVE  /\ w = FS!Drop(v, {p} \cup FS!Below(p))
              /\ Barren(o, a(p)) => w = FS!Drop(v, {p})
  <2>1. Barren(o, leaf)
    BY <1>13 DEF Barren
  <2>2. DOMAIN w = DOMAIN v \ ({p} \cup FS!Below(p))
    <3>1. ASSUME NEW q \in Path
          PROVE  z(q) # 0 <=> a(q) # 0 /\ q # p /\ q \notin FS!Below(p)
      <4>1. CASE q = p
        BY <1>1, <1>13, <4>1
      <4>2. CASE q \in FS!Above(p)
        BY <1>1, <1>3, <1>11, <1>13, <4>2
      <4>3. CASE q \in FS!Below(p)
        BY <1>1, <2>1, <4>3
      <4>4. CASE Leaves(p, q, Len(q))
        BY <1>1, <1>3, <4>4
      <4> QED BY <1>2, <4>1, <4>2, <4>3, <4>4
    <3> QED BY <1>4, <3>1
  <2>3. ASSUME NEW q \in DOMAIN w PROVE w[q] = v[q]
    <3>1. q \in Path /\ a(q) # 0 /\ (q \in FS!Above(p) \/ Leaves(p, q, Len(q)))
      BY <1>2, <1>4, <2>2
    <3> QED BY <1>10, <1>11, <3>1
  <2>4. w = [q \in DOMAIN v \ ({p} \cup FS!Below(p)) |-> v[q]]
    BY <1>4, <2>2, <2>3
  <2>5. Barren(o, a(p)) => DOMAIN v \ ({p} \cup FS!Below(p)) = DOMAIN v \ {p}
    BY <1>1, <1>4
  <2> QED BY <2>4, <2>5 DEF FS!Drop
<1>14. p \in FS!Path
  BY SamePaths
<1>15. ASSUME op = "add", leaf # 0, o[leaf].kind = "blob", ~TreeIn(o, a(p))
       PROVE  FS!AddFile(v, w, p)
  <2>1. ~TreeIn(o, leaf) /\ Barren(o, leaf)
    BY <1>15 DEF TreeIn, Barren
  <2>2. Barren(o, a(p))
    BY <1>6, <1>15 DEF TreeIn, Barren
  <2>3. w[p] = leaf /\ leaf \in Nat \ {0}
    BY <1>1, <1>4, <1>5, <1>7, <1>15, <2>1
  <2>4. FS!IsFile(w, p) /\ ~FS!IsDir(v, p)
    BY <1>1, <1>8, <1>15, <2>1
  <2> QED BY <1>9, <1>12, <1>15, <2>1, <2>2, <2>3, <2>4 DEF FS!AddFile
<1>16. ASSUME op = "mkdir", TreeIn(o, leaf), o[leaf].dir = EmptyDir, a(p) = 0
       PROVE  FS!MakeDir(v, w, p)
  <2>1. Barren(o, leaf) /\ Barren(o, a(p))
    BY <1>16 DEF Barren
  <2>2. leaf # 0 /\ w[p] = FS!Dir
    BY <1>1, <1>4, <1>5, <1>7, <1>16 DEF FS!Dir
  <2> QED BY <1>8, <1>9, <1>12, <1>16, <2>1, <2>2 DEF FS!MakeDir
<1>17. ASSUME op = "remove", leaf = 0, a(p) # 0, o[a(p)].kind = "blob"
       PROVE  FS!RemoveFile(v, w, p)
  <2>1. Barren(o, a(p)) /\ ~TreeIn(o, a(p))
    BY <1>17 DEF Barren, TreeIn
  <2> QED BY <1>8, <1>13, <1>17, <2>1 DEF FS!RemoveFile
<1>18. ASSUME op \in {"rmdir", "rmdirall"}, leaf = 0, TreeIn(o, a(p))
       PROVE  FS!RemoveDir(v, w, p)
  <2>1. a(p) # 0
    BY <1>5, <1>6, <1>18
  <2> QED BY <1>8, <1>13, <1>18, <2>1 DEF FS!RemoveDir
<1>19. LeafFits(o, op, a(p), leaf)
  BY DEF a, leaf
<1>20. EditOf(v, w)
  BY <1>14, <1>15, <1>16, <1>17, <1>18, <1>19 DEF EditOf, LeafFits
<1> QED BY <1>20 DEF v, w

----------------------------------------------------------------------------
(* How far a command has come with its edit.  base is the commit it read, head *)
(* its device's local HEAD.                                                    *)

OldTrail(o, c) == Trail(o, o[c.base].root, c.path)
EntryAt(o, c)  == OldTrail(o, c)[Len(c.path)]     \* what the path named in the old version

(* The new entry of add and mkdir, stored before the walk *)
NewEntry(o, c) ==
  /\ c.op = "add"   => c.ret # 0 /\ o[c.ret].kind = "blob"
  /\ c.op = "mkdir" => TreeIn(o, c.ret) /\ o[c.ret].dir = EmptyDir
  /\ c.op \in {"remove", "rmdir", "rmdirall"} => c.ret = 0

UpTo(c) == IF c.pc = "store" THEN c.lvl ELSE 0    \* levels whose tree is to be rewritten

NewTrees(o, c, new) ==
  /\ Rewritten(o, c.old, c.path, new, UpTo(c) + 1, Len(c.path))
  /\ LeafFits(o, c.op, EntryAt(o, c), new[Len(c.path) + 1])
  /\ new[UpTo(c) + 1] = IF c.pc = "localhead" THEN o[c.newc].root ELSE c.ret

Climbing == {"store", "commit", "localhead"}
Editing  == {"blob", "leaf", "walk", "parent"} \cup Climbing

EditShape(o, c, head) ==
  /\ c.pc \in Editing => c.base = head /\ CommitIn(o, c.base)
  /\ c.pc = "blob" => c.op = "add"
  /\ c.pc = "leaf" => c.op = "mkdir"
  /\ c.pc \in {"blob", "leaf"} => c.cur = o[c.base].root
  /\ c.pc \in {"walk", "parent"} => NewEntry(o, c)
  /\ c.pc \in {"walk", "parent"} \cup Climbing =>
       \A i \in 1..Len(c.old) : Loads(o, OldTrail(o, c), i, c.old[i])
  /\ c.pc = "walk" => Loads(o, OldTrail(o, c), Len(c.old) + 1, c.cur)
  /\ c.pc = "parent" => OldTrail(o, c)[Len(c.old)] = 0
  /\ c.pc \in Climbing => \E new : NewTrees(o, c, new)
  /\ c.pc = "cloudhead" => head \in {c.newc, TornHead}

(* A command that is not at work on an edit *)
LEMMA AtRest ==
  ASSUME NEW o, NEW c, NEW head, c.pc \notin Editing \cup {"cloudhead"}
  PROVE  EditShape(o, c, head)
  BY DEF EditShape, Editing, Climbing

(* The trail of a command's path in the version it read *)
LEMMA OldTrailFacts ==
  ASSUME NEW o \in Seq(Object), NEW r, StoreInv(o, r), NEW c,
         CommitIn(o, c.base), c.path \in Path
  PROVE  /\ o[c.base].root \in 1..Len(o) /\ TreeIn(o, o[c.base].root)
         /\ Len(c.path) \in Nat \ {0} /\ Components(c.path)
         /\ IsTrail(o, o[c.base].root, c.path, Len(c.path), OldTrail(o, c))
<1>1. TreeIn(o, o[c.base].root)
  BY DEF CommitIn, StoreInv, ObjectInv
<1>2. o[c.base].root \in 1..Len(o) /\ o[c.base].root \in 0..Len(o)
  BY <1>1 DEF TreeIn
<1>3. Entries(o)
  BY StoreEntries
<1>4. Len(c.path) \in Nat \ {0} /\ Components(c.path)
  BY PathComponents
<1> QED BY <1>1, <1>2, <1>3, <1>4, TrailFacts DEF OldTrail

LEMMA TreeGrows ==
  ASSUME NEW o, NEW o2, Grows(o, o2), Len(o) \in Nat, NEW h
  PROVE  /\ TreeIn(o, h) => TreeIn(o2, h)
         /\ CommitIn(o, h) => CommitIn(o2, h)
         /\ h \in 1..Len(o) => o2[h] = o[h]
  BY DEF TreeIn, CommitIn, Grows

LEMMA OldTrailGrows ==
  ASSUME NEW o \in Seq(Object), NEW r, StoreInv(o, r),
         NEW o2 \in Seq(Object), Entries(o2), Grows(o, o2), NEW c, CommitIn(o, c.base), c.path \in Path
  PROVE  /\ \A k \in 0..Len(c.path) : OldTrail(o2, c)[k] = OldTrail(o, c)[k]
         /\ EntryAt(o2, c) = EntryAt(o, c)
         /\ EntryAt(o, c) \in 0..Len(o)
         /\ \A i \in 1..Len(c.path) : \A h :
              Loads(o, OldTrail(o, c), i, h) => Loads(o2, OldTrail(o2, c), i, h)
<1>1. /\ o[c.base].root \in 1..Len(o) /\ Len(c.path) \in Nat \ {0} /\ Components(c.path)
      /\ IsTrail(o, o[c.base].root, c.path, Len(c.path), OldTrail(o, c))
  BY OldTrailFacts
<1>2. Entries(o) /\ o2[c.base] = o[c.base] /\ o[c.base].root \in 0..Len(o) /\ Len(o) \in Nat
  BY <1>1, StoreEntries DEF Grows, CommitIn
<1>3. \A k \in 0..Len(c.path) : OldTrail(o2, c)[k] = OldTrail(o, c)[k]
  BY <1>1, <1>2, TrailGrows DEF OldTrail
<1>4. EntryAt(o2, c) = EntryAt(o, c) /\ EntryAt(o, c) \in 0..Len(o)
  BY <1>1, <1>3 DEF EntryAt, IsTrail
<1>5. ASSUME NEW i \in 1..Len(c.path), NEW h, Loads(o, OldTrail(o, c), i, h)
      PROVE  Loads(o2, OldTrail(o2, c), i, h)
  <2>1. OldTrail(o2, c)[i - 1] = OldTrail(o, c)[i - 1]
    BY <1>1, <1>3
  <2>2. TreeIn(o2, h) /\ o2[h] = o[h]
    BY <1>2, <1>5, TreeGrows DEF Loads, TreeIn
  <2> QED BY <1>5, <2>1, <2>2 DEF Loads
<1> QED BY <1>3, <1>4, <1>5

LEMMA FitsGrows ==
  ASSUME NEW o, NEW o2, Grows(o, o2), Len(o) \in Nat, NEW op,
         NEW e \in 0..Len(o), NEW h \in 0..Len(o), LeafFits(o, op, e, h)
  PROVE  LeafFits(o2, op, e, h)
<1>1. (e # 0 => o2[e] = o[e]) /\ (h # 0 => o2[h] = o[h])
  BY DEF Grows
<1>2. TreeIn(o2, e) <=> TreeIn(o, e)
  BY <1>1 DEF TreeIn, Grows
<1>3. TreeIn(o, h) => TreeIn(o2, h) /\ o2[h] = o[h]
  BY TreeGrows DEF TreeIn
<1> QED BY <1>1, <1>2, <1>3 DEF LeafFits

LEMMA RewrittenGrows ==
  ASSUME NEW o, NEW o2, Grows(o, o2), Len(o) \in Nat, NEW old, NEW p, NEW new,
         NEW l, NEW n, Rewritten(o, old, p, new, l, n),
         \A i \in l..n : old[i] \in 1..Len(o)
  PROVE  Rewritten(o2, old, p, new, l, n)
<1>1. Len(o2) = Len(o) + 1
  BY DEF Grows
<1>2. new \in [l..(n + 1) -> 0..Len(o2)]
  BY <1>1 DEF Rewritten
<1>3. ASSUME NEW i \in l..n
      PROVE  TreeIn(o2, new[i]) /\ o2[new[i]].dir = [o2[old[i]].dir EXCEPT ![p[i]] = new[i + 1]]
  <2>1. TreeIn(o, new[i]) /\ o[new[i]].dir = [o[old[i]].dir EXCEPT ![p[i]] = new[i + 1]]
    BY DEF Rewritten
  <2>2. TreeIn(o2, new[i]) /\ o2[new[i]] = o[new[i]] /\ o2[old[i]] = o[old[i]]
    BY <2>1, TreeGrows DEF TreeIn
  <2> QED BY <2>1, <2>2
<1> QED BY <1>2, <1>3 DEF Rewritten

(* Other commands' new objects do not matter. *)
LEMMA EditGrows ==
  ASSUME NEW o \in Seq(Object), NEW r, StoreInv(o, r),
         NEW o2 \in Seq(Object), Entries(o2), Grows(o, o2),
         NEW c \in Command, CmdShape(o, c), NEW head, EditShape(o, c, head)
  PROVE  EditShape(o2, c, head)
<1>0. CASE c.pc \notin Editing
  BY <1>0 DEF EditShape, Editing, Climbing
<1>1. CASE c.pc \in Editing
  <2>1. /\ c.path \in Path /\ Len(o) \in Nat /\ c.base = head /\ CommitIn(o, c.base)
        /\ Len(c.old) \in Nat /\ c.ret \in 0..Len(o)
    BY <1>1 DEF CmdShape, EditShape, Editing, Climbing, Command
  <2>2. CommitIn(o2, c.base) /\ o2[c.base] = o[c.base]
    BY <2>1, TreeGrows DEF CommitIn
  <2>3. /\ \A k \in 0..Len(c.path) : OldTrail(o2, c)[k] = OldTrail(o, c)[k]
        /\ EntryAt(o2, c) = EntryAt(o, c) /\ EntryAt(o, c) \in 0..Len(o)
        /\ \A i \in 1..Len(c.path) : \A h :
             Loads(o, OldTrail(o, c), i, h) => Loads(o2, OldTrail(o2, c), i, h)
    BY <2>1, OldTrailGrows
  <2>4. Len(c.path) \in Nat \ {0} /\ (c.pc \notin {"blob", "leaf"} => Len(c.old) <= Len(c.path))
    BY <1>1, <2>1, PathComponents DEF CmdShape, Editing, Climbing, Committed
  <2>5. c.pc \in {"walk", "parent"} => NewEntry(o2, c)
    <3>1. (c.ret # 0 => o2[c.ret] = o[c.ret]) /\ (TreeIn(o, c.ret) => TreeIn(o2, c.ret))
      BY <2>1, TreeGrows
    <3> QED BY <3>1 DEF EditShape, NewEntry, TreeIn
  <2>6. c.pc \in {"walk", "parent"} \cup Climbing =>
          \A i \in 1..Len(c.old) : Loads(o2, OldTrail(o2, c), i, c.old[i])
    <3>1. c.pc \in {"walk", "parent"} \cup Climbing => \A i \in 1..Len(c.old) : i \in 1..Len(c.path)
      BY <2>1, <2>4 DEF Climbing
    <3> QED BY <2>3, <3>1 DEF EditShape
  <2>7. c.pc = "walk" => Loads(o2, OldTrail(o2, c), Len(c.old) + 1, c.cur)
    <3>1. c.pc = "walk" => Len(c.old) + 1 \in 1..Len(c.path)
      BY <2>1, <2>4 DEF CmdShape
    <3> QED BY <2>3, <3>1 DEF EditShape
  <2>8. c.pc = "parent" => OldTrail(o2, c)[Len(c.old)] = 0
    <3>1. c.pc = "parent" => Len(c.old) \in 0..Len(c.path)
      BY <2>1, <2>4
    <3> QED BY <2>3, <3>1 DEF EditShape
  <2>9. ASSUME c.pc \in Climbing PROVE \E new : NewTrees(o2, c, new)
    <3>1. PICK new : NewTrees(o, c, new)
      BY <2>9 DEF EditShape
    <3>2. /\ UpTo(c) \in Nat /\ UpTo(c) + 1 <= Len(c.path) + 1
          /\ Len(c.old) = Len(c.path)
          /\ \A i \in (UpTo(c) + 1)..Len(c.path) : c.old[i] \in 1..Len(o)
      BY <2>1, <2>4, <2>9 DEF CmdShape, UpTo, Climbing, Committed, TreeIn
    <3>3. Rewritten(o2, c.old, c.path, new, UpTo(c) + 1, Len(c.path))
      BY <2>1, <3>1, <3>2, RewrittenGrows DEF NewTrees
    <3>4. new[Len(c.path) + 1] \in 0..Len(o)
      BY <2>4, <3>1, <3>2 DEF NewTrees, Rewritten
    <3>5. LeafFits(o2, c.op, EntryAt(o2, c), new[Len(c.path) + 1])
      BY <2>1, <2>3, <3>1, <3>4, FitsGrows DEF NewTrees
    <3>6. c.pc = "localhead" => o2[c.newc] = o[c.newc]
      BY <2>1, TreeGrows DEF CmdShape, CommitIn, Committed
    <3> QED BY <3>1, <3>3, <3>5, <3>6 DEF NewTrees
  <2>10. c.pc # "cloudhead"
    BY <1>1 DEF Editing, Climbing
  <2> QED BY <2>1, <2>2, <2>5, <2>6, <2>7, <2>8, <2>9, <2>10 DEF EditShape
<1> QED BY <1>0, <1>1

----------------------------------------------------------------------------
(* The steps of an edit, one lemma each *)

LEMMA ReadHeadEdits ==
  ASSUME NEW o \in Seq(Object), NEW r, StoreInv(o, r),
         NEW c \in Command, CmdShape(o, c), c.pc = "head",
         NEW h, CommitIn(o, h), NEW l,
         \/ l = "blob" /\ c.op = "add"
         \/ l = "leaf" /\ c.op = "mkdir"
         \/ l = "walk" /\ c.op \notin {"add", "mkdir"},
         NEW c2, c2 = [c EXCEPT !.base = h, !.cur = o[h].root, !.pc = l]
  PROVE  EditShape(o, c2, h)
<1>1. /\ c2.pc = l /\ c2.base = h /\ c2.cur = o[h].root /\ c2.path = c.path /\ c2.op = c.op
      /\ c2.old = <<>> /\ c2.ret = 0 /\ c.path \in Path
  BY DEF Command, CmdShape
<1>2. /\ TreeIn(o, o[h].root)
      /\ IsTrail(o, o[h].root, c.path, Len(c.path), OldTrail(o, c2))
  BY <1>1, OldTrailFacts
<1>3. Loads(o, OldTrail(o, c2), Len(c2.old) + 1, c2.cur)
  BY <1>1, <1>2 DEF Loads, IsTrail
<1>4. NewEntry(o, c2) \/ l # "walk"
  BY <1>1 DEF NewEntry
<1> QED BY <1>1, <1>3, <1>4 DEF EditShape, Editing, Climbing

LEMMA StoreLeafEdits ==
  ASSUME NEW o \in Seq(Object), NEW c \in Command, CmdShape(o, c),
         NEW r, StoreInv(o, r),
         NEW head, EditShape(o, c, head),
         NEW h \in 1..Len(o),
         \/ c.pc = "blob" /\ o[h].kind = "blob"
         \/ c.pc = "leaf" /\ TreeIn(o, h) /\ o[h].dir = EmptyDir
  PROVE  EditShape(o, WithLeaf(c, h), head)
<1> DEFINE c2 == WithLeaf(c, h)
<1>1. /\ c2.pc = "walk" /\ c2.ret = h /\ c2.base = c.base /\ c2.cur = c.cur
      /\ c2.path = c.path /\ c2.op = c.op /\ c2.old = <<>> /\ c.path \in Path
  BY DEF Command, CmdShape, WithLeaf
<1>2. c.base = head /\ CommitIn(o, c.base) /\ c.cur = o[c.base].root
  BY DEF EditShape, Editing
<1>3. NewEntry(o, c2)
  BY <1>1 DEF NewEntry, EditShape, TreeIn
<1> HIDE DEF c2
<1>4. TreeIn(o, c.cur) /\ IsTrail(o, c.cur, c2.path, Len(c2.path), OldTrail(o, c2))
  BY <1>1, <1>2, OldTrailFacts
<1>5. Loads(o, OldTrail(o, c2), Len(c2.old) + 1, c2.cur)
  BY <1>1, <1>4 DEF Loads, IsTrail
<1>6. EditShape(o, c2, head)
  BY <1>1, <1>2, <1>3, <1>5 DEF EditShape, Editing, Climbing
<1> QED BY <1>6 DEF c2

(* What the tree just loaded holds at the path is where the trail goes next. *)
LEMMA EntryOnTrail ==
  ASSUME NEW o \in Seq(Object), NEW r, StoreInv(o, r),
         NEW c \in Command, CmdShape(o, c), NEW head, EditShape(o, c, head), c.pc = "walk"
  PROVE  /\ Level(c) = Len(c.old) + 1 /\ Level(c) \in 1..Len(c.path)
         /\ OldTrail(o, c)[Level(c)] = o[c.cur].dir[c.path[Level(c)]]
         /\ Loads(o, OldTrail(o, c), Level(c), c.cur)
         /\ c.path \in Path /\ c.old \in Seq(Nat) /\ Len(c.path) \in Nat /\ c.cur \in Nat
<1>1. /\ c.path \in Path /\ c.old \in Seq(Nat) /\ Len(c.old) \in Nat /\ CommitIn(o, c.base)
      /\ Level(c) = Len(c.old) + 1 /\ Len(c.old) < Len(c.path) /\ c.cur \in Nat
      /\ Loads(o, OldTrail(o, c), Level(c), c.cur)
  BY DEF Command, CmdShape, EditShape, Editing, Level
<1>2. /\ Len(c.path) \in Nat /\ Components(c.path)
      /\ IsTrail(o, o[c.base].root, c.path, Len(c.path), OldTrail(o, c))
  BY <1>1, OldTrailFacts
<1>3. Level(c) \in 1..Len(c.path) /\ c.path[Level(c)] \in Name
  BY <1>1, <1>2 DEF Components
<1>4. OldTrail(o, c)[Level(c)] = Follow(o, OldTrail(o, c)[Level(c) - 1], c.path[Level(c)])
  BY <1>2, <1>3 DEF IsTrail, Follows
<1>5. c.cur # 0 /\ o[c.cur].kind = "tree"
  BY <1>1, LoadedTree DEF Loads
<1>6. OldTrail(o, c)[Level(c)] = o[c.cur].dir[c.path[Level(c)]]
  BY <1>1, <1>3, <1>4, <1>5 DEF Loads, Follow, EmptyDir
<1> QED BY <1>1, <1>2, <1>3, <1>6

(* Whatever the command does next at this level, the tree joins the list. *)
LEMMA PushEdits ==
  ASSUME NEW o \in Seq(Object), NEW r, StoreInv(o, r),
         NEW c \in Command, CmdShape(o, c), NEW head, EditShape(o, c, head), c.pc = "walk",
         NEW c2, c2.old = Append(c.old, c.cur), c2.path = c.path, c2.base = c.base
  PROVE  /\ Len(c2.old) = Level(c) /\ OldTrail(o, c2) = OldTrail(o, c)
         /\ \A i \in 1..Len(c2.old) : Loads(o, OldTrail(o, c2), i, c2.old[i])
         /\ c2.base = head /\ CommitIn(o, c2.base)
<1>1. Level(c) = Len(c.old) + 1 /\ c.old \in Seq(Nat) /\ c.cur \in Nat
      /\ Loads(o, OldTrail(o, c), Level(c), c.cur)
  BY EntryOnTrail
<1>2. /\ Len(c2.old) = Level(c) /\ c2.old[Level(c)] = c.cur
      /\ \A i \in 1..Len(c.old) : c2.old[i] = c.old[i]
  BY <1>1
<1>3. OldTrail(o, c2) = OldTrail(o, c)
  BY DEF OldTrail
<1>4. \A i \in 1..Len(c.old) : Loads(o, OldTrail(o, c), i, c.old[i])
  BY DEF EditShape
<1>5. \A i \in 1..Level(c) : i = Level(c) \/ i \in 1..Len(c.old)
  BY <1>1
<1>6. c.base = head /\ CommitIn(o, c.base)
  BY DEF EditShape, Editing
<1> HIDE DEF OldTrail
<1> QED BY <1>1, <1>2, <1>3, <1>4, <1>5, <1>6

LEMMA DescendEdits ==
  ASSUME NEW o \in Seq(Object), NEW r, StoreInv(o, r),
         NEW c \in Command, CmdShape(o, c), NEW head, EditShape(o, c, head), c.pc = "walk",
         NEW t, t = o[c.cur].dir[c.path[Level(c)]], TreeIn(o, t)
  PROVE  EditShape(o, WithEntry(c, t), head)
<1> DEFINE c2 == WithEntry(c, t)
<1>1. /\ c2.old = Append(c.old, c.cur) /\ c2.path = c.path /\ c2.base = c.base
      /\ c2.cur = t /\ c2.pc = "walk" /\ c2.ret = c.ret /\ c2.op = c.op
  BY DEF Command, WithEntry
<1> HIDE DEF c2
<1>2. /\ Len(c2.old) = Level(c) /\ OldTrail(o, c2) = OldTrail(o, c)
      /\ \A i \in 1..Len(c2.old) : Loads(o, OldTrail(o, c2), i, c2.old[i])
      /\ c2.base = head /\ CommitIn(o, c2.base)
  <2>1. c2.old = Append(c.old, c.cur) /\ c2.path = c.path /\ c2.base = c.base
    BY <1>1
  <2> QED BY ONLY <2>1, PushEdits, o \in Seq(Object), StoreInv(o, r), c \in Command,
                  CmdShape(o, c), EditShape(o, c, head), c.pc = "walk"
<1>3. /\ Level(c) \in 1..Len(c.path) /\ Len(c.path) \in Nat
      /\ OldTrail(o, c)[Level(c)] = o[c.cur].dir[c.path[Level(c)]]
  BY EntryOnTrail
<1>4. OldTrail(o, c2)[Len(c2.old)] = c2.cur /\ Len(c2.old) \in Nat
  BY <1>1, <1>2, <1>3
<1>5. (Len(c2.old) + 1) - 1 = Len(c2.old)
  BY <1>4
<1>6. Loads(o, OldTrail(o, c2), Len(c2.old) + 1, c2.cur)
  BY <1>1, <1>4, <1>5 DEF Loads
<1>7. NewEntry(o, c2)
  BY <1>1 DEF EditShape, NewEntry
<1>8. EditShape(o, c2, head)
  BY <1>1, <1>2, <1>6, <1>7 DEF EditShape, Editing, Climbing
<1> QED BY <1>8 DEF c2

LEMMA MissingParentEdits ==
  ASSUME NEW o \in Seq(Object), NEW r, StoreInv(o, r),
         NEW c \in Command, CmdShape(o, c), NEW head, EditShape(o, c, head), c.pc = "walk",
         o[c.cur].dir[c.path[Level(c)]] = 0
  PROVE  EditShape(o, WithoutEntry(c), head)
<1> DEFINE c2 == WithoutEntry(c)
<1>1. /\ c2.old = Append(c.old, c.cur) /\ c2.path = c.path /\ c2.base = c.base
      /\ c2.pc = "parent" /\ c2.ret = c.ret /\ c2.op = c.op
  BY DEF Command, WithoutEntry
<1> HIDE DEF c2
<1>2. /\ Len(c2.old) = Level(c) /\ OldTrail(o, c2) = OldTrail(o, c)
      /\ \A i \in 1..Len(c2.old) : Loads(o, OldTrail(o, c2), i, c2.old[i])
      /\ c2.base = head /\ CommitIn(o, c2.base)
  <2>1. c2.old = Append(c.old, c.cur) /\ c2.path = c.path /\ c2.base = c.base
    BY <1>1
  <2> QED BY ONLY <2>1, PushEdits, o \in Seq(Object), StoreInv(o, r), c \in Command,
                  CmdShape(o, c), EditShape(o, c, head), c.pc = "walk"
<1>3. OldTrail(o, c)[Level(c)] = o[c.cur].dir[c.path[Level(c)]]
  BY EntryOnTrail
<1>4. OldTrail(o, c2)[Len(c2.old)] = 0
  BY <1>2, <1>3
<1>5. NewEntry(o, c2)
  BY <1>1 DEF EditShape, NewEntry
<1>6. EditShape(o, c2, head)
  BY <1>1, <1>2, <1>4, <1>5 DEF EditShape, Editing, Climbing
<1> QED BY <1>6 DEF c2

LEMMA StoreParentEdits ==
  ASSUME NEW o \in Seq(Object), NEW c \in Command, c.pc = "parent",
         NEW head, EditShape(o, c, head),
         NEW h, TreeIn(o, h), o[h].dir = EmptyDir
  PROVE  EditShape(o, WithParent(c, h), head)
<1> DEFINE c2 == WithParent(c, h)
<1>1. /\ c2.old = c.old /\ c2.path = c.path /\ c2.base = c.base /\ c2.cur = h
      /\ c2.pc = "walk" /\ c2.ret = c.ret /\ c2.op = c.op /\ Len(c.old) \in Nat
  BY DEF Command, WithParent
<1> HIDE DEF c2
<1>2. OldTrail(o, c2) = OldTrail(o, c)
  BY <1>1 DEF OldTrail
<1>3. Loads(o, OldTrail(o, c2), Len(c2.old) + 1, c2.cur)
  BY <1>1, <1>2 DEF Loads, EditShape
<1>4. NewEntry(o, c2)
  BY <1>1 DEF EditShape, NewEntry
<1>5. EditShape(o, c2, head)
  BY <1>1, <1>2, <1>3, <1>4 DEF EditShape, Editing, Climbing
<1> QED BY <1>5 DEF c2

LEMMA LeafEdits ==
  ASSUME NEW o \in Seq(Object), NEW r, StoreInv(o, r),
         NEW c \in Command, CmdShape(o, c), NEW head, EditShape(o, c, head), c.pc = "walk",
         Level(c) = Len(c.path),
         NEW ret \in 0..Len(o), NEW trees, NEW blobs,
         LeafFits(o, c.op, o[c.cur].dir[c.path[Level(c)]], ret),
         NEW c2, c2 = Edited(c, ret, trees, blobs)
  PROVE  EditShape(o, c2, head)
<1>1. /\ c2.old = Append(c.old, c.cur) /\ c2.path = c.path /\ c2.base = c.base
      /\ c2.pc = "store" /\ c2.ret = ret /\ c2.op = c.op /\ c2.lvl = Len(c.path)
  BY DEF Command, Edited
<1>2. /\ Len(c2.old) = Level(c) /\ OldTrail(o, c2) = OldTrail(o, c)
      /\ \A i \in 1..Len(c2.old) : Loads(o, OldTrail(o, c2), i, c2.old[i])
      /\ c2.base = head /\ CommitIn(o, c2.base)
  <2>1. c2.old = Append(c.old, c.cur) /\ c2.path = c.path /\ c2.base = c.base
    BY <1>1
  <2> QED BY ONLY <2>1, PushEdits, o \in Seq(Object), StoreInv(o, r), c \in Command,
                  CmdShape(o, c), EditShape(o, c, head), c.pc = "walk"
<1>3. /\ OldTrail(o, c)[Len(c.path)] = o[c.cur].dir[c.path[Level(c)]]
      /\ Len(c.path) \in Nat
  BY EntryOnTrail
<1>4. EntryAt(o, c2) = o[c.cur].dir[c.path[Level(c)]]
  BY <1>1, <1>2, <1>3 DEF EntryAt
<1> DEFINE n == Len(c.path)
           new == [i \in (n + 1)..(n + 1) |-> ret]
<1>5. new \in [(n + 1)..(n + 1) -> 0..Len(o)] /\ new[n + 1] = ret
  BY <1>3
<1>6. (n + 1)..n = {}
  BY <1>3
<1>7. UpTo(c2) = n
  BY <1>1 DEF UpTo
<1> HIDE DEF new
<1>8. NewTrees(o, c2, new)
  BY <1>1, <1>4, <1>5, <1>6, <1>7 DEF NewTrees, Rewritten
<1> QED BY <1>1, <1>2, <1>8 DEF EditShape, Editing, Climbing

LEMMA StoreTreeEdits ==
  ASSUME NEW o \in Seq(Object), NEW c \in Command, CmdShape(o, c), c.pc = "store",
         NEW head, EditShape(o, c, head),
         NEW h, TreeIn(o, h), o[h].dir = LevelDir(o, c)
  PROVE  EditShape(o, WithTree(c, h), head)
<1> DEFINE c2 == WithTree(c, h)
           n == Len(c.path)
           l == c.lvl
<1>1. /\ c2.old = c.old /\ c2.path = c.path /\ c2.base = c.base /\ c2.ret = h /\ c2.op = c.op
      /\ c2.lvl = l - 1 /\ c2.pc = IF l = 1 THEN "commit" ELSE "store"
      /\ l \in 1..n /\ Len(c.old) = n /\ c.path \in Path /\ h \in 0..Len(o)
  BY DEF Command, WithTree, CmdShape, TreeIn
<1>2. n \in Nat /\ l \in Nat /\ l > 0 /\ l <= n
  BY <1>1, PathComponents
<1>3. UpTo(c) = l /\ UpTo(c2) = l - 1
  BY <1>1, <1>2 DEF UpTo
<1>4. PICK new : NewTrees(o, c, new)
  BY DEF EditShape, Climbing
<1>5. /\ new \in [(l + 1)..(n + 1) -> 0..Len(o)] /\ new[l + 1] = c.ret
      /\ LeafFits(o, c.op, EntryAt(o, c), new[n + 1])
      /\ \A i \in (l + 1)..n : TreeIn(o, new[i]) /\ o[new[i]].dir = [o[c.old[i]].dir EXCEPT ![c.path[i]] = new[i + 1]]
  BY <1>3, <1>4 DEF NewTrees, Rewritten
<1> DEFINE new2 == [i \in l..(n + 1) |-> IF i = l THEN h ELSE new[i]]
<1>6. new2 \in [l..(n + 1) -> 0..Len(o)]
  BY <1>1, <1>2, <1>5
<1>7. new2[l] = h /\ new2[l + 1] = c.ret /\ new2[n + 1] = new[n + 1]
      /\ \A i \in (l + 1)..n : new2[i] = new[i] /\ new2[i + 1] = new[i + 1]
  BY <1>2, <1>5
<1>8. LevelDir(o, c) = [o[c.old[l]].dir EXCEPT ![c.path[l]] = c.ret]
  BY DEF LevelDir
<1> HIDE DEF new2, c2
<1>9. ASSUME NEW i \in l..n
      PROVE  TreeIn(o, new2[i]) /\ o[new2[i]].dir = [o[c.old[i]].dir EXCEPT ![c.path[i]] = new2[i + 1]]
  <2>1. CASE i = l
    BY <1>7, <1>8, <2>1
  <2>2. CASE i \in (l + 1)..n
    BY <1>5, <1>7, <2>2
  <2>3. i = l \/ i \in (l + 1)..n
    BY <1>2
  <2> QED BY <2>1, <2>2, <2>3
<1>10. Rewritten(o, c2.old, c2.path, new2, UpTo(c2) + 1, Len(c2.path))
  <2>1. (l - 1) + 1 = l
    BY <1>2
  <2> QED BY <1>1, <1>3, <1>6, <1>9, <2>1 DEF Rewritten
<1>11. OldTrail(o, c2) = OldTrail(o, c) /\ EntryAt(o, c2) = EntryAt(o, c)
  BY <1>1 DEF OldTrail, EntryAt
<1>12. NewTrees(o, c2, new2)
  <2>1. (l - 1) + 1 = l
    BY <1>2
  <2>2. new2[UpTo(c2) + 1] = c2.ret /\ c2.pc # "localhead"
    BY <1>1, <1>3, <1>7, <2>1
  <2>3. LeafFits(o, c2.op, EntryAt(o, c2), new2[Len(c2.path) + 1])
    BY <1>1, <1>5, <1>7, <1>11
  <2> QED BY <1>10, <2>2, <2>3 DEF NewTrees
<1>13. /\ c.base = head /\ CommitIn(o, c.base)
       /\ \A i \in 1..Len(c.old) : Loads(o, OldTrail(o, c), i, c.old[i])
  BY DEF EditShape, Editing, Climbing
<1>14. c2.pc \in {"commit", "store"}
  BY <1>1
<1>15. EditShape(o, c2, head)
  BY <1>1, <1>11, <1>12, <1>13, <1>14 DEF EditShape, Editing, Climbing
<1> QED BY <1>15 DEF c2

LEMMA StoreCommitEdits ==
  ASSUME NEW o \in Seq(Object), NEW c \in Command, c.pc = "commit",
         NEW head, EditShape(o, c, head),
         NEW h, o[h].root = c.ret
  PROVE  EditShape(o, WithCommit(c, h), head)
<1> DEFINE c2 == WithCommit(c, h)
<1>1. /\ c2.old = c.old /\ c2.path = c.path /\ c2.base = c.base /\ c2.ret = c.ret /\ c2.op = c.op
      /\ c2.newc = h /\ c2.pc = "localhead"
  BY DEF Command, WithCommit
<1>2. UpTo(c) = 0 /\ UpTo(c2) = 0
  BY <1>1 DEF UpTo
<1> HIDE DEF c2
<1>3. OldTrail(o, c2) = OldTrail(o, c) /\ EntryAt(o, c2) = EntryAt(o, c)
  BY <1>1 DEF OldTrail, EntryAt
<1>4. PICK new : NewTrees(o, c, new)
  BY DEF EditShape, Climbing
<1>5. NewTrees(o, c2, new)
  BY <1>1, <1>2, <1>3, <1>4 DEF NewTrees
<1>6. /\ c.base = head /\ CommitIn(o, c.base)
      /\ \A i \in 1..Len(c.old) : Loads(o, OldTrail(o, c), i, c.old[i])
  BY DEF EditShape, Editing, Climbing
<1>7. EditShape(o, c2, head)
  BY <1>1, <1>3, <1>5, <1>6 DEF EditShape, Editing, Climbing
<1> QED BY <1>7 DEF c2

----------------------------------------------------------------------------
(* EditInv is inductive *)

EditInv == \A d \in Device : EditShape(obj, cmd[d], localHead[d])

(* A step of d that leaves d's command in the shape of an edit *)
EditStep(d) ==
  /\ UNCHANGED obj \/ Extends(obj, reach, obj', reach')
  /\ OthersStay(d)
  /\ EditShape(obj', cmd'[d], localHead'[d])

(* The store with one more object keeps every command's shape. *)
LEMMA EditStays ==
  ASSUME IInv, EditInv, Extends(obj, reach, obj', reach'), NEW e \in Device
  PROVE  /\ StoreInv(obj', reach') /\ Entries(obj') /\ obj' \in Seq(Object)
         /\ cmd[e] \in Command /\ CmdShape(obj', cmd[e])
         /\ EditShape(obj', cmd[e], localHead[e])
<1>1. /\ StoreInv(obj, reach) /\ obj \in Seq(Object) /\ reach \in Seq(SUBSET Nat)
      /\ cmd[e] \in Command /\ CmdShape(obj, cmd[e]) /\ Apart(obj, reach, cmd[e])
      /\ EditShape(obj, cmd[e], localHead[e])
  BY Facts DEF EditInv
<1>2. StoreInv(obj', reach') /\ CmdShape(obj', cmd[e])
  BY <1>1, StoreGrows, CmdGrows DEF Extends
<1>3. Entries(obj') /\ obj' \in Seq(Object) /\ Grows(obj, obj')
  BY <1>2, StoreEntries DEF Extends
<1>4. EditShape(obj', cmd[e], localHead[e])
  BY <1>1, <1>3, EditGrows
<1> QED BY <1>1, <1>2, <1>3, <1>4

LEMMA EditStepKeeps ==
  ASSUME IInv, EditInv, NEW d \in Device, EditStep(d)
  PROVE  EditInv'
<1>1. ASSUME NEW e \in Device PROVE EditShape(obj', cmd'[e], localHead'[e])
  <2>1. CASE e = d
    BY <2>1 DEF EditStep
  <2>2. CASE e # d
    <3>1. cmd'[e] = cmd[e] /\ localHead'[e] = localHead[e]
      BY <2>2 DEF EditStep, OthersStay
    <3>2. CASE UNCHANGED obj
      BY <3>1, <3>2 DEF EditInv
    <3>3. CASE Extends(obj, reach, obj', reach')
      BY <3>1, <3>3, EditStays
    <3> QED BY <3>2, <3>3 DEF EditStep
  <2> QED BY <2>1, <2>2
<1> QED BY <1>1 DEF EditInv

(* A command that moves and leaves its HEAD alone *)
LEMMA MoveEdits ==
  ASSUME IInv, NEW d \in Device, UNCHANGED localHead,
         UNCHANGED obj \/ Extends(obj, reach, obj', reach'),
         NEW c2, cmd' = [cmd EXCEPT ![d] = c2], EditShape(obj', c2, localHead[d])
  PROVE  EditStep(d)
<1>1. cmd'[d] = c2 /\ \A e \in Device \ {d} : cmd'[e] = cmd[e]
  BY Facts
<1> QED BY <1>1 DEF EditStep, OthersStay

(* A command that is, after the step, not at work on an edit *)
LEMMA RestEdits ==
  ASSUME IInv, NEW d \in Device,
         UNCHANGED obj \/ Extends(obj, reach, obj', reach'),
         NEW c2, cmd' = [cmd EXCEPT ![d] = c2],
         \A e \in Device \ {d} : localHead'[e] = localHead[e],
         c2.pc \notin Editing \cup {"cloudhead"}
  PROVE  EditStep(d)
<1>1. cmd'[d] = c2 /\ \A e \in Device \ {d} : cmd'[e] = cmd[e]
  BY Facts
<1>2. EditShape(obj', c2, localHead'[d])
  BY AtRest
<1> QED BY <1>1, <1>2 DEF EditStep, OthersStay

LEMMA FreshEdits ==
  ASSUME IInv, NEW d \in Device,
         UNCHANGED obj \/ Extends(obj, reach, obj', reach'),
         NEW l \in {"idle", "exit", "head"}, NEW q, NEW p, NEW out,
         cmd' = [cmd EXCEPT ![d] = FreshCmd(l, q, p, out)],
         \A e \in Device \ {d} : localHead'[e] = localHead[e]
  PROVE  EditStep(d)
<1> DEFINE c2 == FreshCmd(l, q, p, out)
<1>1. c2.pc \notin Editing \cup {"cloudhead"}
  BY DEF FreshCmd, Editing, Climbing
<1> HIDE DEF c2
<1> QED BY <1>1, RestEdits DEF c2

LEMMA ThrowEdits ==
  ASSUME IInv, NEW d \in Device, Throw(d), UNCHANGED obj,
         \A e \in Device \ {d} : localHead'[e] = localHead[e]
  PROVE  EditStep(d)
  BY FreshEdits DEF Throw, Finish

(* A step of d's command that changes neither the store nor the command *)
LEMMA IdleEdits ==
  ASSUME IInv, EditInv, NEW d \in Device, UNCHANGED <<obj, cmd>>,
         \A e \in Device \ {d} : localHead'[e] = localHead[e],
         At(d, "idle") \/ UNCHANGED localHead
  PROVE  EditStep(d)
<1>1. EditShape(obj, cmd[d], localHead'[d])
  <2>1. CASE At(d, "idle")
    BY <2>1, AtRest DEF At, Editing, Climbing
  <2>2. CASE UNCHANGED localHead
    BY <2>2 DEF EditInv
  <2> QED BY <2>1, <2>2
<1> QED BY <1>1 DEF EditStep, OthersStay

LEMMA StartEdits ==
  ASSUME IInv, EditInv, NEW d \in Device, Start(d) PROVE EditStep(d)
<1>1. CASE Begin(d)
  <2>1. PICK q \in Op, p \in Path : cmd' = [cmd EXCEPT ![d] = FreshCmd("head", q, p, "none")]
    BY <1>1 DEF Begin
  <2> QED BY <1>1, <2>1, FreshEdits DEF Begin, storeVars, headVars
<1>2. CASE Sync(d)
  BY <1>2, Facts, IdleEdits DEF Sync, MayStart, storeVars, TypeOK
<1>3. CASE InitExisting(d)
  BY <1>3, Facts, IdleEdits DEF InitExisting, MayStart, storeVars, TypeOK
<1> QED BY <1>1, <1>2, <1>3 DEF Start

LEMMA PrepareEdits ==
  ASSUME IInv, EditInv, NEW d \in Device, Prepare(d) PROVE EditStep(d)
<1> DEFINE c == cmd[d]
<1>0. /\ StoreInv(obj, reach) /\ obj \in Seq(Object) /\ reach \in Seq(SUBSET Nat)
      /\ cmd \in [Device -> Command] /\ c \in Command /\ CmdShape(obj, c) /\ TypeOK
  BY Facts
<1>1. CASE ReadHead(d)
  <2>1. CommitIn(obj, localHead[d]) /\ c.pc = "head"
    BY <1>0, <1>1, HeadIsCommit DEF ReadHead, At
  <2>2. PICK l : /\ \/ l = "blob" /\ c.op = "add"
                    \/ l = "leaf" /\ c.op = "mkdir"
                    \/ l = "walk" /\ c.op \notin {"add", "mkdir"}
                 /\ cmd' = [cmd EXCEPT ![d] = [c EXCEPT !.base = localHead[d],
                                                  !.cur = obj[localHead[d]].root, !.pc = l]]
    BY <1>0, <1>1 DEF ReadHead
  <2> DEFINE c2 == [c EXCEPT !.base = localHead[d], !.cur = obj[localHead[d]].root, !.pc = l]
  <2>3. EditShape(obj, c2, localHead[d])
    BY <1>0, <2>1, <2>2, ReadHeadEdits
  <2>4. cmd' = [cmd EXCEPT ![d] = c2]
    BY <2>2
  <2> HIDE DEF c2
  <2> QED BY <1>1, <2>3, <2>4, MoveEdits DEF ReadHead, storeVars, headVars
<1>2. CASE ReadHeadMissing(d)
  BY <1>2, FreshEdits DEF ReadHeadMissing, Finish, storeVars, headVars
<1>3. CASE ReadHeadInvalid(d)
  BY <1>3, ThrowEdits DEF ReadHeadInvalid, storeVars, headVars
<1>4. CASE StoreBlob(d)
  <2>1. Extends(obj, reach, obj', reach')
    BY <1>0, <1>4, NewBlob DEF StoreBlob, Encrypt, NextHash
  <2>2. Len(obj') = NextHash /\ NextHash \in 1..Len(obj')
    BY <1>0, <2>1 DEF Extends, Grows, NextHash
  <2>3. obj'[NextHash].kind = "blob"
    BY <1>0, <1>4 DEF StoreBlob, Encrypt, NextHash, Blob
  <2>4. cmd' = [cmd EXCEPT ![d] = WithLeaf(c, NextHash)] /\ UNCHANGED localHead /\ c.pc = "blob"
    BY <1>0, <1>4 DEF StoreBlob, WithLeaf, headVars, At
  <2>5. /\ StoreInv(obj', reach') /\ obj' \in Seq(Object) /\ c \in Command
        /\ CmdShape(obj', c) /\ EditShape(obj', c, localHead[d])
    BY <2>1, EditStays
  <2>6. EditShape(obj', WithLeaf(c, NextHash), localHead[d])
    BY <2>2, <2>3, <2>4, <2>5, StoreLeafEdits
  <2> QED BY <2>1, <2>4, <2>6, MoveEdits
<1>5. CASE StoreLeaf(d)
  <2>1. /\ Extends(obj, reach, obj', reach') /\ TreeIn(obj', NextHash)
        /\ NextHash \in 1..Len(obj')
    BY <1>5, EmptyTreeStored DEF StoreLeaf, TreeIn
  <2>3. obj'[NextHash].dir = EmptyDir
    BY <1>0, <1>5 DEF StoreLeaf, EncryptTree, Encrypt, NextHash, Tree
  <2>4. cmd' = [cmd EXCEPT ![d] = WithLeaf(c, NextHash)] /\ UNCHANGED localHead /\ c.pc = "leaf"
    BY <1>0, <1>5 DEF StoreLeaf, WithLeaf, headVars, At
  <2>5. /\ StoreInv(obj', reach') /\ obj' \in Seq(Object) /\ c \in Command
        /\ CmdShape(obj', c) /\ EditShape(obj', c, localHead[d])
    BY <2>1, EditStays
  <2>6. EditShape(obj', WithLeaf(c, NextHash), localHead[d])
    BY <2>1, <2>3, <2>4, <2>5, StoreLeafEdits
  <2> QED BY <2>1, <2>4, <2>6, MoveEdits
<1> QED BY <1>1, <1>2, <1>3, <1>4, <1>5 DEF Prepare

LEMMA WalkEdits ==
  ASSUME IInv, EditInv, NEW d \in Device, Walk(d) PROVE EditStep(d)
<1> DEFINE c == cmd[d]
<1>0. /\ StoreInv(obj, reach) /\ obj \in Seq(Object) /\ reach \in Seq(SUBSET Nat)
      /\ cmd \in [Device -> Command] /\ c \in Command /\ CmdShape(obj, c) /\ TypeOK
      /\ EditShape(obj, c, localHead[d])
  BY Facts DEF EditInv
<1>e. Entry(c) = obj[c.cur].dir[c.path[Level(c)]]
  BY DEF Entry
<1>l. ASSUME Loaded(d) PROVE c.pc = "walk"
  BY <1>l DEF Loaded, At
<1>r. ASSUME Loaded(d), Entry(c) # 0 PROVE Entry(c) \in 1..Len(obj)
  BY <1>0, <1>e, <1>l, <1>r, EntryKnown
<1>n. ASSUME Loaded(d) PROVE NewEntry(obj, c)
  BY <1>0, <1>l, <1>n DEF EditShape
<1>1. CASE LoadTreeMissing(d)
  BY <1>1, ThrowEdits DEF LoadTreeMissing, storeVars, headVars
<1>2. CASE Descend(d)
  <2>1. c.pc = "walk" /\ TreeIn(obj, Entry(c))
    BY <1>2, <1>l, <1>r DEF Descend, IsTree, TreeIn
  <2>2. EditShape(obj, WithEntry(c, Entry(c)), localHead[d])
    BY <1>0, <1>e, <2>1, DescendEdits
  <2>3. cmd' = [cmd EXCEPT ![d] = WithEntry(c, Entry(c))]
    BY <1>0, <1>2 DEF Descend, WithEntry
  <2> QED BY <1>2, <2>2, <2>3, MoveEdits DEF Descend, storeVars, headVars
<1>3. CASE MissingParent(d)
  <2>1. c.pc = "walk" /\ Entry(c) = 0
    BY <1>3, <1>l DEF MissingParent
  <2>2. EditShape(obj, WithoutEntry(c), localHead[d])
    BY <1>0, <1>e, <2>1, MissingParentEdits
  <2>3. cmd' = [cmd EXCEPT ![d] = WithoutEntry(c)]
    BY <1>0, <1>3 DEF MissingParent, WithoutEntry
  <2> QED BY <1>3, <2>2, <2>3, MoveEdits DEF MissingParent, storeVars, headVars
<1>4. CASE StoreParent(d)
  <2>1. /\ Extends(obj, reach, obj', reach') /\ TreeIn(obj', NextHash)
    BY <1>4, EmptyTreeStored DEF StoreParent
  <2>3. obj'[NextHash].dir = EmptyDir
    BY <1>0, <1>4 DEF StoreParent, EncryptTree, Encrypt, NextHash, Tree
  <2>4. cmd' = [cmd EXCEPT ![d] = WithParent(c, NextHash)] /\ UNCHANGED localHead /\ c.pc = "parent"
    BY <1>0, <1>4 DEF StoreParent, WithParent, headVars, At
  <2>5. obj' \in Seq(Object) /\ EditShape(obj', c, localHead[d])
    BY <2>1, EditStays
  <2>6. EditShape(obj', WithParent(c, NextHash), localHead[d])
    BY <1>0, <2>1, <2>3, <2>4, <2>5, StoreParentEdits
  <2> QED BY <2>1, <2>4, <2>6, MoveEdits
<1>5. ASSUME Loaded(d), LastLevel(c), UNCHANGED <<obj, localHead>>,
             NEW ret \in 0..Len(obj), NEW trees, NEW blobs,
             LeafFits(obj, c.op, Entry(c), ret),
             cmd' = [cmd EXCEPT ![d] = Edited(c, ret, trees, blobs)]
      PROVE  EditStep(d)
  <2>1. c.pc = "walk" /\ Level(c) = Len(c.path)
    BY <1>5, <1>l DEF LastLevel
  <2> DEFINE c2 == Edited(c, ret, trees, blobs)
  <2>2. c2 = Edited(c, ret, trees, blobs)
    OBVIOUS
  <2>3. LeafFits(obj, c.op, obj[c.cur].dir[c.path[Level(c)]], ret)
    BY <1>5, <1>e
  <2> HIDE DEF c2, c
  <2>4. EditShape(obj, c2, localHead[d])
    BY ONLY <1>0, <1>5, <2>1, <2>2, <2>3, LeafEdits
  <2> QED BY <1>5, <2>2, <2>4, MoveEdits
<1>6. CASE LeafUpsert(d)
  <2>1. /\ Loaded(d) /\ LastLevel(c) /\ UNCHANGED <<obj, localHead>>
        /\ cmd' = [cmd EXCEPT ![d] = Edited(c, c.ret, {}, {})]
    BY <1>6 DEF LeafUpsert, storeVars, headVars
  <2>2. c.ret \in 0..Len(obj)
    BY <1>0 DEF CmdShape
  <2>3. LeafFits(obj, c.op, Entry(c), c.ret)
    BY <1>6, <1>n, <2>1 DEF LeafUpsert, LeafFits, NewEntry, IsTree, TreeIn
  <2> QED BY <1>5, <2>1, <2>2, <2>3
<1>7. CASE LeafRemove(d)
  <2>1. /\ Loaded(d) /\ LastLevel(c) /\ UNCHANGED <<obj, localHead>>
        /\ cmd' = [cmd EXCEPT ![d] = Edited(c, 0, {}, {Entry(c)})]
    BY <1>7 DEF LeafRemove, storeVars, headVars
  <2>2. 0 \in 0..Len(obj)
    BY <1>0
  <2>3. LeafFits(obj, c.op, Entry(c), 0)
    BY <1>7 DEF LeafRemove, LeafFits, IsBlob
  <2> QED BY <1>5, <2>1, <2>2, <2>3
<1>8. CASE LeafRmdir(d)
  <2>1. /\ Loaded(d) /\ LastLevel(c) /\ UNCHANGED <<obj, localHead>>
        /\ cmd' = [cmd EXCEPT ![d] = Edited(c, 0, TreesIn(reach[Entry(c)]), BlobsIn(reach[Entry(c)]))]
    BY <1>8 DEF LeafRmdir, RmdirTarget, storeVars, headVars
  <2>2. 0 \in 0..Len(obj)
    BY <1>0
  <2>3. LeafFits(obj, c.op, Entry(c), 0)
    BY <1>8, <1>r DEF LeafRmdir, RmdirTarget, LeafFits, IsTree, TreeIn
  <2> QED BY <1>5, <2>1, <2>2, <2>3
<1>9. CASE AskConfirm(d)
  <2> DEFINE c2 == [c EXCEPT !.pc = "confirm"]
  <2>1. c2.pc \notin Editing \cup {"cloudhead"}
    BY <1>0 DEF Command, Editing, Climbing
  <2>2. cmd' = [cmd EXCEPT ![d] = c2]
    BY <1>0, <1>9 DEF AskConfirm
  <2> HIDE DEF c2
  <2> QED BY <1>9, <2>1, <2>2, RestEdits DEF AskConfirm, storeVars, headVars
<1>10. CASE RejectEntry(d)
  BY <1>10, ThrowEdits DEF RejectEntry, storeVars, headVars
<1> QED BY <1>1, <1>2, <1>3, <1>4, <1>6, <1>7, <1>8, <1>9, <1>10 DEF Walk

LEMMA LocalHeadEdits ==
  ASSUME IInv, NEW d \in Device, WriteLocalHead(d) \/ LocalHeadTorn(d) PROVE EditStep(d)
<1> DEFINE c == cmd[d]
<1>0. cmd \in [Device -> Command] /\ c \in Command /\ TypeOK
  BY Facts
<1>1. PICK h \in {c.newc, TornHead} : localHead' = [localHead EXCEPT ![d] = h]
  BY DEF WriteLocalHead, LocalHeadTorn
<1>2. UNCHANGED obj /\ cmd' = [cmd EXCEPT ![d].pc = "cloudhead"]
  BY DEF WriteLocalHead, LocalHeadTorn, storeVars
<1>3. cmd'[d].pc = "cloudhead" /\ cmd'[d].newc = c.newc /\ localHead'[d] = h
  BY <1>0, <1>1, <1>2 DEF TypeOK, Command
<1>4. EditShape(obj', cmd'[d], localHead'[d])
  BY <1>1, <1>3 DEF EditShape, Editing, Climbing
<1> QED BY <1>0, <1>1, <1>2, <1>4 DEF EditStep, OthersStay, TypeOK

LEMMA PublishEdits ==
  ASSUME IInv, EditInv, NEW d \in Device, Publish(d) PROVE EditStep(d)
<1> DEFINE c == cmd[d]
<1>0. /\ StoreInv(obj, reach) /\ obj \in Seq(Object) /\ reach \in Seq(SUBSET Nat)
      /\ cmd \in [Device -> Command] /\ c \in Command /\ CmdShape(obj, c) /\ TypeOK
      /\ EditShape(obj, c, localHead[d])
  BY Facts DEF EditInv
<1>1. CASE StoreTree(d)
  <2>1. Extends(obj, reach, obj', reach') /\ TreeIn(obj', NextHash) /\ c.pc = "store"
    BY <1>1, LevelTreeStored DEF StoreTree, At
  <2>a. NewDir(c) = LevelDir(obj, c)
    BY DEF NewDir, LevelDir
  <2>b. obj' = Append(obj, Tree(NewDir(c)))
    BY <1>1 DEF StoreTree, EncryptTree, Encrypt
  <2>2. obj'[NextHash].dir = LevelDir(obj, c)
    BY <1>0, <2>a, <2>b DEF NextHash, Tree
  <2>3. obj'[c.old[c.lvl]] = obj[c.old[c.lvl]]
    BY <1>0, <2>1 DEF CmdShape, TreeIn, Extends, Grows
  <2>4. obj'[NextHash].dir = LevelDir(obj', c)
    BY <2>2, <2>3 DEF LevelDir
  <2>5. cmd' = [cmd EXCEPT ![d] = WithTree(c, NextHash)] /\ UNCHANGED localHead
    BY <1>0, <1>1 DEF StoreTree, WithTree, headVars
  <2>6. obj' \in Seq(Object) /\ CmdShape(obj', c) /\ EditShape(obj', c, localHead[d])
    BY <2>1, EditStays
  <2>7. EditShape(obj', WithTree(c, NextHash), localHead[d])
    BY <1>0, <2>1, <2>4, <2>6, StoreTreeEdits
  <2> QED BY <2>1, <2>5, <2>7, MoveEdits
<1>2. CASE StoreCommit(d)
  <2>1. Extends(obj, reach, obj', reach') /\ c.pc = "commit"
    BY <1>2, CommitStored DEF StoreCommit, At
  <2>2. obj'[NextHash].root = c.ret
    BY <1>0, <1>2 DEF StoreCommit, EncryptCommit, Encrypt, NextHash, Commit
  <2>5. cmd' = [cmd EXCEPT ![d] = WithCommit(c, NextHash)] /\ UNCHANGED localHead
    BY <1>0, <1>2 DEF StoreCommit, WithCommit, headVars
  <2>6. obj' \in Seq(Object) /\ EditShape(obj', c, localHead[d])
    BY <2>1, EditStays
  <2>7. EditShape(obj', WithCommit(c, NextHash), localHead[d])
    BY <1>0, <2>1, <2>2, <2>6, StoreCommitEdits
  <2> QED BY <2>1, <2>5, <2>7, MoveEdits
<1>3. CASE WriteLocalHead(d)
  BY <1>3, LocalHeadEdits
<1>4. CASE PutCloudHead(d)
  <2> DEFINE c2 == [c EXCEPT !.pc = "delcommit"]
  <2>1. c2.pc \notin Editing \cup {"cloudhead"}
    BY <1>0 DEF Command, Editing, Climbing
  <2>2. cmd' = [cmd EXCEPT ![d] = c2]
    BY <1>0, <1>4 DEF PutCloudHead
  <2> HIDE DEF c2
  <2> QED BY <1>4, <2>1, <2>2, RestEdits DEF PutCloudHead, storeVars
<1> QED BY <1>1, <1>2, <1>3, <1>4 DEF Publish

LEMMA CleanUpEdits ==
  ASSUME IInv, EditInv, NEW d \in Device, CleanUp(d) \/ TreeRemoveFails(d) PROVE EditStep(d)
<1> DEFINE c == cmd[d]
<1>0. cmd \in [Device -> Command] /\ c \in Command
  BY Facts
<1>a. UNCHANGED obj /\ UNCHANGED localHead
  BY DEF CleanUp, TreeRemoveFails, RemoveOldCommit, OldCommitGone, RemoveOldTree, RemoveSubtree,
         RemoveBlob, BlobGone, Done, storeVars, headVars
<1>b. ASSUME NEW c2, cmd' = [cmd EXCEPT ![d] = c2], c2.pc \in {"deltrees", "delremoved"}
      PROVE  EditStep(d)
  <2>1. c2.pc \notin Editing \cup {"cloudhead"}
    BY <1>b DEF Editing, Climbing
  <2> QED BY <1>a, <1>b, <2>1, RestEdits
<1>c. c.pc = "deltrees" => AfterOldTree(c).pc \in {"deltrees", "delremoved"}
  BY <1>0 DEF AfterOldTree, Command
<1>1. CASE RemoveOldCommit(d)
  <2> DEFINE c2 == [c EXCEPT !.lvl = 1, !.pc = "deltrees"]
  <2>1. c2.pc \in {"deltrees", "delremoved"} /\ cmd' = [cmd EXCEPT ![d] = c2]
    BY <1>0, <1>1 DEF RemoveOldCommit, Command
  <2> HIDE DEF c2
  <2> QED BY <1>b, <2>1
<1>2. CASE OldCommitGone(d) \/ BlobGone(d)
  BY <1>2, <1>a, ThrowEdits DEF OldCommitGone, BlobGone
<1>3. CASE At(d, "deltrees") /\ cmd' = [cmd EXCEPT ![d] = AfterOldTree(@)]
  BY <1>b, <1>c, <1>3 DEF At
<1>4. ASSUME At(d, "delremoved"), NEW x, cmd' = [cmd EXCEPT ![d].trees = @ \ {x}]
      PROVE  EditStep(d)
  <2> DEFINE c2 == [c EXCEPT !.trees = @ \ {x}]
  <2>1. c2.pc \in {"deltrees", "delremoved"} /\ cmd' = [cmd EXCEPT ![d] = c2]
    BY <1>0, <1>4 DEF Command, At
  <2> HIDE DEF c2
  <2> QED BY <1>b, <2>1
<1>5. ASSUME At(d, "delremoved"), NEW x, cmd' = [cmd EXCEPT ![d].blobs = @ \ {x}]
      PROVE  EditStep(d)
  <2> DEFINE c2 == [c EXCEPT !.blobs = @ \ {x}]
  <2>1. c2.pc \in {"deltrees", "delremoved"} /\ cmd' = [cmd EXCEPT ![d] = c2]
    BY <1>0, <1>5 DEF Command, At
  <2> HIDE DEF c2
  <2> QED BY <1>b, <2>1
<1>6. CASE Done(d)
  BY <1>6, <1>a, FreshEdits DEF Done, Finish
<1>7. CASE TreeRemoveFails(d)
  BY <1>3, <1>4, <1>7 DEF TreeRemoveFails
<1>8. CASE RemoveOldTree(d)
  BY <1>3, <1>8 DEF RemoveOldTree
<1>9. CASE RemoveSubtree(d)
  BY <1>4, <1>9 DEF RemoveSubtree
<1>10. CASE RemoveBlob(d)
  BY <1>5, <1>10 DEF RemoveBlob
<1> QED BY <1>1, <1>2, <1>6, <1>7, <1>8, <1>9, <1>10 DEF CleanUp

LEMMA AnswerEdits ==
  ASSUME IInv, EditInv, NEW d \in Device, Answer(d) \/ Exit(d) PROVE EditStep(d)
<1>1. CASE ConfirmYes(d)
  BY <1>1, FreshEdits DEF ConfirmYes, storeVars, headVars
<1>2. CASE ConfirmNo(d)
  BY <1>2, FreshEdits DEF ConfirmNo, Finish, storeVars, headVars
<1>3. CASE Exit(d)
  BY <1>3, FreshEdits DEF Exit, IdleCmd, storeVars, headVars
<1> QED BY <1>1, <1>2, <1>3 DEF Answer

LEMMA FailEdits ==
  ASSUME IInv, EditInv, NEW d \in Device, Upload(d) \/ Fail(d) PROVE EditStep(d)
<1>0. TypeOK /\ cmd \in [Device -> Command]
  BY Facts
<1>1. CASE Upload(d)
  BY <1>1, IdleEdits DEF Upload, headVars
<1>2. CASE UploadFails(d)
  BY <1>2, IdleEdits DEF UploadFails, storeVars, headVars
<1>3. CASE CallFails(d)
  BY <1>3, ThrowEdits DEF CallFails, storeVars, headVars
<1>4. CASE PutReplyLost(d)
  <2>1. Extends(obj, reach, obj', reach')
    <3>1. CASE EncryptTree(EmptyDir)
      BY <3>1, EmptyTreeStored
    <3>2. CASE At(d, "store") /\ EncryptTree(NewDir(cmd[d]))
      BY <3>2, LevelTreeStored
    <3>3. CASE At(d, "commit") /\ EncryptCommit(cmd[d].ret)
      BY <3>3, CommitStored
    <3> QED BY <1>4, <3>1, <3>2, <3>3 DEF PutReplyLost
  <2> QED BY <1>4, <2>1, FreshEdits DEF PutReplyLost, Finish, headVars
<1>5. CASE HeadReplyLost(d)
  BY <1>5, ThrowEdits DEF HeadReplyLost, storeVars
<1>6. CASE RemoveReplyLost(d)
  BY <1>6, ThrowEdits DEF RemoveReplyLost, headVars
<1>7. CASE TreeRemoveFails(d)
  BY <1>7, CleanUpEdits
<1>8. CASE LocalHeadTorn(d)
  BY <1>8, LocalHeadEdits
<1>9. CASE DiesWritingHead(d)
  <2>1. \A e \in Device \ {d} : localHead'[e] = localHead[e]
    BY <1>0, <1>9 DEF DiesWritingHead, TypeOK
  <2> QED BY <1>9, <2>1, FreshEdits DEF DiesWritingHead, IdleCmd, storeVars
<1>10. CASE SyncTorn(d)
  BY <1>0, <1>10, IdleEdits DEF SyncTorn, MayStart, storeVars, TypeOK
<1>11. CASE Crash(d)
  BY <1>11, FreshEdits DEF Crash, IdleCmd, storeVars, headVars
<1> QED BY <1>1, <1>2, <1>3, <1>4, <1>5, <1>6, <1>7, <1>8, <1>9, <1>10, <1>11 DEF Fail

LEMMA InitEdits == Init => EditInv
<1> SUFFICES ASSUME Init, NEW d \in Device PROVE EditShape(obj, cmd[d], localHead[d])
  BY DEF EditInv
<1>1. cmd[d].pc = "idle"
  BY DEF Init, IdleCmd, FreshCmd
<1> QED BY <1>1, AtRest DEF Editing, Climbing

LEMMA NextEdits == IInv /\ EditInv /\ [Next]_vars => EditInv'
<1> SUFFICES ASSUME IInv, EditInv, [Next]_vars PROVE EditInv'
  OBVIOUS
<1>1. ASSUME NEW d \in Device, Start(d) \/ Proceed(d) \/ Answer(d) \/ Upload(d) \/ Fail(d)
      PROVE  EditStep(d)
  BY <1>1, StartEdits, PrepareEdits, WalkEdits, PublishEdits, CleanUpEdits, AnswerEdits, FailEdits
     DEF Proceed
<1>2. CASE UNCHANGED vars
  BY <1>2 DEF vars, storeVars, headVars, EditInv
<1> QED BY <1>1, <1>2, EditStepKeeps DEF Next

----------------------------------------------------------------------------
(* Every step is a step of VaultFS, or leaves its variables alone *)

(* A version is a function from paths to numbers, so it is neither NoHead nor TornHead. *)
LEMMA VersionKnown ==
  ASSUME NEW o \in Seq(Object), Entries(o), NEW root \in 0..Len(o)
  PROVE  Version(o, root) \notin {NoHead, TornHead}
<1> DEFINE S == {q \in Path : ResolvePath(o, root, q) # 0}
<1>1. \A q \in S : ResolvePath(o, root, q) \in 0..Len(o)
  BY ResolveKnown
<1>2. \A h \in 0..Len(o) : Shown(o, h) \in Nat
  BY DEF Shown
<1>3. \A q \in S : Shown(o, ResolvePath(o, root, q)) \in Nat
  BY <1>1, <1>2
<1>4. Version(o, root) = [q \in S |-> Shown(o, ResolvePath(o, root, q))]
  BY DEF Version
<1> HIDE DEF S
<1>5. Version(o, root) \in [S -> Nat]
  BY <1>3, <1>4
<1>6. S \in SUBSET Path
  BY DEF S
<1> QED BY <1>5, <1>6, HeadAssumption

(* What a HEAD names: a stored commit, and so a version *)
LEMMA HeadFacts ==
  ASSUME IInv, NEW h \in Commits
  PROVE  /\ h \notin {NoHead, TornHead} /\ CommitIn(obj, h)
         /\ obj \in Seq(Object) /\ Entries(obj) /\ obj[h].root \in 0..Len(obj)
         /\ VersionOf(obj, h) = Version(obj, obj[h].root)
         /\ VersionOf(obj, h) \notin {NoHead, TornHead}
<1>1. /\ StoreInv(obj, reach) /\ obj \in Seq(Object) /\ CommitIn(obj, h) /\ h \in Nat
  BY DEF IInv, TypeOK, Commits, Hash, CommitIn
<1>2. h \notin {NoHead, TornHead}
  BY <1>1, ConstantsAssumption
<1>3. TreeIn(obj, obj[h].root) /\ Entries(obj)
  BY <1>1, StoreEntries DEF StoreInv, ObjectInv, CommitIn
<1>4. obj[h].root \in 0..Len(obj)
  BY <1>1, <1>3 DEF TreeIn
<1> QED BY <1>1, <1>2, <1>3, <1>4, VersionKnown DEF VersionOf

(* Versions that were published or read stay what they are. *)
LEMMA VersionsStay ==
  ASSUME IInv, EditInv, NEW d \in Device, EditStep(d),
         NEW h \in Commits \cup {NoHead, TornHead}
  PROVE  VersionOf(obj', h) = VersionOf(obj, h)
<1>1. CASE UNCHANGED obj
  BY <1>1 DEF VersionOf
<1>2. CASE Extends(obj, reach, obj', reach')
  <2>1. obj' \in Seq(Object) /\ Entries(obj') /\ Grows(obj, obj')
    BY <1>2, EditStays DEF Extends
  <2>2. obj \in Seq(Object) /\ Entries(obj)
    BY Facts, StoreEntries
  <2>3. h \notin {NoHead, TornHead} => h \in 1..Len(obj) /\ obj[h].root \in 0..Len(obj)
    BY HeadFacts DEF CommitIn
  <2> QED BY <2>1, <2>2, <2>3, VersionOfGrows
<1> QED BY <1>1, <1>2 DEF EditStep

(* The variables of VaultFS *)
Cloud == VersionOf(obj, cloudHead)
Mine  == [d \in Device |-> VersionOf(obj, Held(d))]

LEMMA HeadsKnown ==
  ASSUME IInv
  PROVE  /\ cloudHead \in Commits
         /\ \A e \in Device : Held(e) \in Commits \cup {NoHead, TornHead}
<1>1. cloudHead \in Commits /\ localHead \in [Device -> Commits \cup {NoHead, TornHead}]
  BY DEF IInv, TypeOK
<1>2. \A e \in Device : At(e, "cloudhead") => cmd[e].newc \in Commits
  BY NewCommitKnown DEF At, Committed
<1> QED BY <1>1, <1>2 DEF Held

LEMMA CloudStays ==
  ASSUME IInv, EditInv, NEW d \in Device, EditStep(d), UNCHANGED cloudHead
  PROVE  UNCHANGED Cloud
  BY HeadsKnown, VersionsStay DEF Cloud

(* One device comes to hold h. *)
LEMMA HeldMoves ==
  ASSUME IInv, EditInv, NEW d \in Device, EditStep(d),
         NEW h \in Commits \cup {NoHead, TornHead}, Held(d)' = h
  PROVE  Mine' = [Mine EXCEPT ![d] = VersionOf(obj, h)]
<1>1. \A k \in Commits \cup {NoHead, TornHead} : VersionOf(obj', k) = VersionOf(obj, k)
  BY VersionsStay
<1>2. \A e \in Device \ {d} : Held(e)' = Held(e)
  BY DEF EditStep, OthersStay, Held, At
<1>3. \A e \in Device : VersionOf(obj', Held(e)') = IF e = d THEN VersionOf(obj, h)
                                                      ELSE VersionOf(obj, Held(e))
  BY <1>1, <1>2, HeadsKnown
<1> QED BY <1>3 DEF Mine

LEMMA SameHeads ==
  ASSUME IInv, EditInv, NEW d \in Device, EditStep(d), UNCHANGED cloudHead, Held(d)' = Held(d)
  PROVE  UNCHANGED <<Cloud, Mine>>
<1>1. Mine' = [Mine EXCEPT ![d] = VersionOf(obj, Held(d))]
  BY HeadsKnown, HeldMoves
<1>2. Mine' = Mine
  BY <1>1 DEF Mine
<1> QED BY <1>2, CloudStays

LEMMA LoseStep ==
  ASSUME IInv, EditInv, NEW d \in Device, EditStep(d), UNCHANGED cloudHead,
         NEW h \in {NoHead, TornHead}, Held(d)' = h
  PROVE  FS!Lose(d)
<1>1. Mine' = [Mine EXCEPT ![d] = h] /\ UNCHANGED Cloud
  BY HeldMoves, CloudStays DEF VersionOf
<1> QED BY <1>1 DEF FS!Lose, FS!Become, Mine, Cloud

LEMMA SyncStep ==
  ASSUME IInv, EditInv, NEW d \in Device, EditStep(d), Sync(d)
  PROVE  FS!Sync(d)
<1>1. Held(d)' = cloudHead /\ UNCHANGED cloudHead
  BY Facts DEF Sync, MayStart, At, Held, TypeOK
<1>2. Mine' = [Mine EXCEPT ![d] = Cloud] /\ UNCHANGED Cloud
  BY <1>1, HeadsKnown, HeldMoves, CloudStays DEF Cloud
<1> QED BY <1>2 DEF FS!Sync, FS!Become, Mine, Cloud

(* The cloud HEAD moves to the commit the command holds, and the command lets go of it: the
   device has it still, unless its local HEAD is torn. *)
LEMMA PublishVersion ==
  ASSUME IInv, EditInv, NEW d \in Device, EditStep(d), At(d, "cloudhead"),
         cloudHead' = cmd[d].newc, UNCHANGED localHead, cmd'[d].pc # "cloudhead"
  PROVE  FS!Publish(d)
<1>1. localHead[d] \in {cmd[d].newc, TornHead}
  BY DEF At, EditInv, EditShape
<1>2. cmd[d].newc \in Commits
  BY NewCommitKnown DEF At, Committed
<1>3. Held(d) = cmd[d].newc /\ Held(d)' = localHead[d]
  BY DEF Held, At
<1>4. Cloud' = Mine[d]
  BY <1>2, <1>3, VersionsStay DEF Cloud, Mine
<1>5. Mine' \in {Mine, [Mine EXCEPT ![d] = TornHead]}
  <2>1. Mine' = [Mine EXCEPT ![d] = VersionOf(obj, localHead[d])]
    BY <1>1, <1>2, <1>3, HeldMoves
  <2>2. CASE localHead[d] = cmd[d].newc
    BY <1>3, <2>1, <2>2 DEF Mine
  <2>3. CASE localHead[d] = TornHead
    BY <2>1, <2>3 DEF VersionOf
  <2> QED BY <1>1, <2>2, <2>3
<1>6. Mine[d] \notin {NoHead, TornHead}
  BY <1>2, <1>3, HeadFacts DEF Mine
<1> QED BY <1>4, <1>5, <1>6 DEF FS!Publish, FS!Known, Mine, Cloud

(* The local HEAD moves to the command's commit, or is torn on the way: the device's
   version is edited. *)
LEMMA EditVersion ==
  ASSUME IInv, EditInv, NEW d \in Device, EditStep(d), WriteLocalHead(d) \/ LocalHeadTorn(d)
  PROVE  FS!Edit(d)
<1> DEFINE c == cmd[d]
           old == obj[c.base].root
<1>0. /\ StoreInv(obj, reach) /\ obj \in Seq(Object) /\ Entries(obj)
      /\ c \in Command /\ CmdShape(obj, c) /\ c.pc = "localhead" /\ c.path \in Path
      /\ EditShape(obj, c, localHead[d])
  BY Facts, StoreEntries DEF EditInv, WriteLocalHead, LocalHeadTorn, At, CmdShape
<1>1. /\ c.base = localHead[d] /\ CommitIn(obj, c.base)
      /\ \A i \in 1..Len(c.old) : Loads(obj, OldTrail(obj, c), i, c.old[i])
  BY <1>0 DEF EditShape, Editing, Climbing
<1>2. PICK new : NewTrees(obj, c, new)
  BY <1>0 DEF EditShape, Climbing
<1>3. /\ Rewritten(obj, c.old, c.path, new, 1, Len(c.path))
      /\ LeafFits(obj, c.op, EntryAt(obj, c), new[Len(c.path) + 1])
      /\ new[1] = obj[c.newc].root
  <2>1. UpTo(c) + 1 = 1
    BY <1>0 DEF UpTo
  <2> QED BY <1>0, <1>2, <2>1 DEF NewTrees
<1>4. Len(c.old) = Len(c.path)
  BY <1>0 DEF CmdShape, Committed
<1>5. Rewrite(obj, old, c.path, c.old, new)
  BY <1>1, <1>3, <1>4 DEF Rewrite, OldTrail
<1>6. EntryAt(obj, c) = ResolvePath(obj, old, c.path)
  BY DEF EntryAt, OldTrail, ResolvePath
<1>7. c.newc \in Commits /\ localHead[d] \in Commits
  BY <1>0, <1>1, NewCommitKnown DEF Committed, CommitIn, Commits, Hash
<1>8. /\ VersionOf(obj, localHead[d]) = Version(obj, old) /\ old \in 0..Len(obj)
      /\ VersionOf(obj, localHead[d]) \notin {NoHead, TornHead}
      /\ VersionOf(obj, c.newc) = Version(obj, new[1])
      /\ VersionOf(obj, c.newc) \notin {NoHead, TornHead}
  BY <1>1, <1>3, <1>7, HeadFacts
<1>9. EditOf(VersionOf(obj, localHead[d]), VersionOf(obj, c.newc))
  <2> HIDE DEF c, old
  <2>1. LeafFits(obj, c.op, ResolvePath(obj, old, c.path), new[Len(c.path) + 1])
    BY <1>3, <1>6
  <2>2. EditOf(Version(obj, old), Version(obj, new[1]))
    BY <1>0, <1>5, <1>8, <2>1, RewriteIsEdit
  <2> QED BY <1>8, <2>2
<1>h. Held(d) = localHead[d] /\ Held(d)' = c.newc /\ UNCHANGED cloudHead
  <2>1. cmd' = [cmd EXCEPT ![d].pc = "cloudhead"] /\ UNCHANGED cloudHead
    BY DEF WriteLocalHead, LocalHeadTorn
  <2>2. cmd'[d].pc = "cloudhead" /\ cmd'[d].newc = c.newc
    BY <2>1, Facts DEF Command
  <2> QED BY <1>0, <2>1, <2>2 DEF Held, At
<1>10. Mine' = [Mine EXCEPT ![d] = VersionOf(obj, c.newc)] /\ UNCHANGED Cloud
  BY <1>7, <1>h, HeldMoves, CloudStays
<1>11. Mine[d] = VersionOf(obj, localHead[d]) /\ Mine'[d] = VersionOf(obj, c.newc)
  BY <1>10, <1>h DEF Mine
<1> HIDE DEF c, old
<1>12. /\ Mine[d] \notin {NoHead, TornHead} /\ Mine'[d] \notin {NoHead, TornHead}
       /\ EditOf(Mine[d], Mine'[d])
       /\ Mine' = [Mine EXCEPT ![d] = Mine'[d]] /\ UNCHANGED Cloud
  BY <1>8, <1>9, <1>10, <1>11
<1> QED BY <1>12 DEF FS!Edit, FS!Known, FS!Become, EditOf, Mine, Cloud

(* The steps that touch no HEAD, or replace one; after them the command is not about to
   publish, unless it was. *)
HeadStep(d) ==
  \/ UNCHANGED <<cloudHead, localHead, cmd>>
  \/ WriteLocalHead(d) \/ LocalHeadTorn(d)
  \/ /\ cmd'[d].pc # "cloudhead"
     /\ \/ UNCHANGED <<cloudHead, localHead>>
        \/ Sync(d)
        \/ At(d, "cloudhead") /\ cloudHead' = cmd[d].newc /\ UNCHANGED localHead
        \/ \E h \in {NoHead, TornHead} : localHead' = [localHead EXCEPT ![d] = h] /\ UNCHANGED cloudHead

LEMMA ThrowLeaves ==
  ASSUME IInv, NEW d \in Device, Throw(d) \/ \E r : Finish(d, r)
  PROVE  cmd'[d].pc # "cloudhead"
  BY Facts DEF Throw, Finish, FreshCmd

LEMMA PrepareHeads ==
  ASSUME IInv, NEW d \in Device, Start(d) \/ Prepare(d) PROVE HeadStep(d)
<1>0. cmd \in [Device -> Command] /\ cmd[d] \in Command
  BY Facts
<1>1. CASE Begin(d)
  BY <1>0, <1>1 DEF Begin, FreshCmd, HeadStep, headVars
<1>2. CASE Sync(d) \/ InitExisting(d)
  BY <1>2 DEF Sync, InitExisting, MayStart, At, HeadStep
<1>3. CASE ReadHead(d)
  BY <1>0, <1>3 DEF ReadHead, Command, HeadStep, headVars
<1>4. CASE ReadHeadMissing(d) \/ ReadHeadInvalid(d)
  BY <1>4, ThrowLeaves DEF ReadHeadMissing, ReadHeadInvalid, HeadStep, headVars
<1>5. CASE StoreBlob(d) \/ StoreLeaf(d)
  BY <1>0, <1>5 DEF StoreBlob, StoreLeaf, Command, HeadStep, headVars
<1> QED BY <1>1, <1>2, <1>3, <1>4, <1>5 DEF Start, Prepare

LEMMA WalkHeads ==
  ASSUME IInv, NEW d \in Device, Walk(d) PROVE HeadStep(d)
<1>0. cmd \in [Device -> Command] /\ cmd[d] \in Command
  BY Facts
<1>1. UNCHANGED <<cloudHead, localHead>>
  BY DEF Walk, LoadTreeMissing, Descend, MissingParent, StoreParent, LeafUpsert, LeafRemove,
         LeafRmdir, AskConfirm, RejectEntry, headVars
<1>2. cmd'[d].pc # "cloudhead"
  <2>1. CASE LoadTreeMissing(d) \/ RejectEntry(d)
    BY <2>1, ThrowLeaves DEF LoadTreeMissing, RejectEntry
  <2>2. CASE Descend(d)
    BY <1>0, <2>2 DEF Descend, Loaded, At, Command
  <2>3. CASE MissingParent(d) \/ StoreParent(d) \/ AskConfirm(d)
    BY <1>0, <2>3 DEF MissingParent, StoreParent, AskConfirm, Command
  <2>4. CASE LeafUpsert(d) \/ LeafRemove(d) \/ LeafRmdir(d)
    <3>1. \A ret, T, B : Edited(cmd[d], ret, T, B).pc = "store"
      BY <1>0 DEF Edited, Command
    <3> QED BY <1>0, <2>4, <3>1 DEF LeafUpsert, LeafRemove, LeafRmdir
  <2> QED BY <2>1, <2>2, <2>3, <2>4 DEF Walk
<1> QED BY <1>1, <1>2 DEF HeadStep

LEMMA PublishHeads ==
  ASSUME IInv, NEW d \in Device, Publish(d) \/ CleanUp(d) \/ Exit(d) \/ Answer(d) \/ Upload(d)
  PROVE  HeadStep(d)
<1>0. cmd \in [Device -> Command] /\ cmd[d] \in Command
  BY Facts
<1>1. CASE Publish(d)
  BY <1>0, <1>1 DEF Publish, StoreTree, StoreCommit, PutCloudHead, Command, HeadStep, headVars
<1>2. CASE CleanUp(d)
  <2>1. UNCHANGED <<cloudHead, localHead>>
    BY <1>2 DEF CleanUp, RemoveOldCommit, OldCommitGone, RemoveOldTree, RemoveSubtree, RemoveBlob,
                BlobGone, Done, headVars
  <2>2. CASE OldCommitGone(d) \/ BlobGone(d) \/ Done(d)
    BY <2>1, <2>2, ThrowLeaves DEF OldCommitGone, BlobGone, Done, HeadStep
  <2>3. CASE RemoveOldCommit(d) \/ RemoveOldTree(d) \/ RemoveSubtree(d) \/ RemoveBlob(d)
    <3>1. cmd'[d].pc # "cloudhead"
      BY <1>0, <2>3 DEF RemoveOldCommit, RemoveOldTree, RemoveSubtree, RemoveBlob, AfterOldTree,
                        At, Command
    <3> QED BY <2>1, <3>1 DEF HeadStep
  <2> QED BY <1>2, <2>2, <2>3 DEF CleanUp
<1>3. CASE Exit(d) \/ Answer(d)
  BY <1>0, <1>3, ThrowLeaves DEF Exit, Answer, ConfirmYes, ConfirmNo, IdleCmd, FreshCmd, HeadStep, headVars
<1>4. CASE Upload(d)
  BY <1>4 DEF Upload, HeadStep, headVars
<1> QED BY <1>1, <1>2, <1>3, <1>4

LEMMA FailHeads ==
  ASSUME IInv, NEW d \in Device, Fail(d) PROVE HeadStep(d)
<1>0. cmd \in [Device -> Command] /\ cmd[d] \in Command
  BY Facts
<1>1. CASE UploadFails(d) \/ LocalHeadTorn(d)
  BY <1>1 DEF UploadFails, HeadStep, headVars
<1>2. CASE CallFails(d) \/ PutReplyLost(d) \/ RemoveReplyLost(d)
  BY <1>2, ThrowLeaves DEF CallFails, PutReplyLost, RemoveReplyLost, HeadStep, headVars
<1>3. CASE HeadReplyLost(d)
  BY <1>3, ThrowLeaves DEF HeadReplyLost, HeadStep
<1>4. CASE TreeRemoveFails(d)
  BY <1>0, <1>4 DEF TreeRemoveFails, AfterOldTree, At, Command, HeadStep, headVars
<1>5. CASE SyncTorn(d)
  BY <1>5 DEF SyncTorn, MayStart, At, HeadStep
<1>6. CASE DiesWritingHead(d) \/ Crash(d)
  BY <1>0, <1>6 DEF DiesWritingHead, Crash, IdleCmd, FreshCmd, HeadStep, headVars
<1> QED BY <1>1, <1>2, <1>3, <1>4, <1>5, <1>6 DEF Fail

LEMMA InitVersions == Init => FS!Init
<1> SUFFICES ASSUME Init PROVE FS!Init
  OBVIOUS
<1>1. IInv /\ 2 \in Commits /\ obj[2].root = 1 /\ obj[1] = Tree(EmptyDir)
  <2>1. obj[2] = Commit(1) /\ obj[1] = Tree(EmptyDir) /\ Len(obj) = 2
    BY DEF Init
  <2> QED BY <2>1, InitIInv DEF Commit, Commits, Hash
<1>2. /\ obj \in Seq(Object) /\ Entries(obj) /\ 1 \in 0..Len(obj)
      /\ VersionOf(obj, 2) = Version(obj, 1)
  BY <1>1, HeadFacts
<1>3. \A p \in Path : ResolvePath(obj, 1, p) = 0
  <2> SUFFICES ASSUME NEW p \in Path PROVE ResolvePath(obj, 1, p) = 0
    OBVIOUS
  <2>1. Components(p) /\ Len(p) \in Nat \ {0}
    BY PathComponents
  <2> DEFINE t == Trail(obj, 1, p)
  <2>2. IsTrail(obj, 1, p, Len(p), t)
    BY <1>2, <2>1, TrailFacts
  <2> HIDE DEF t
  <2>3. PICK i \in Nat : i = 0
    OBVIOUS
  <2>4. t[i] = 1 /\ Follows(obj, t, p, i, Len(p))
    BY <2>1, <2>2, <2>3 DEF IsTrail
  <2>5. Barren(obj, t[i])
    BY <1>1, <2>4 DEF Barren, Tree
  <2>6. \A k \in (i + 1)..Len(p) : p[k] \in Name
    BY <2>1, <2>3 DEF Components
  <2> DEFINE n == Len(p)
  <2> HIDE DEF n
  <2>7. n \in Nat /\ Follows(obj, t, p, i, n) /\ \A k \in (i + 1)..n : p[k] \in Name
    BY <2>1, <2>4, <2>6 DEF n
  <2>8. \A k \in (i + 1)..n : t[k] = 0
    BY ONLY <2>5, <2>7, i \in Nat, TrailEnds
  <2>9. t[Len(p)] = 0
    BY <2>1, <2>3, <2>8 DEF n
  <2> QED BY <2>9 DEF ResolvePath, t
<1>4. Version(obj, 1) = <<>>
  <2>1. {q \in Path : ResolvePath(obj, 1, q) # 0} = {}
    BY <1>3
  <2> QED BY <2>1 DEF Version
<1>5. /\ Cloud = <<>> /\ owner \in Device
      /\ \A d \in Device : Held(d) = IF d = owner THEN 2 ELSE NoHead
  BY <1>2, <1>4 DEF Init, Cloud, IdleCmd, FreshCmd, Held, At
<1>6. Mine = [d \in Device |-> IF d = owner THEN <<>> ELSE NoHead]
  BY <1>2, <1>4, <1>5 DEF Mine, VersionOf
<1> QED BY <1>5, <1>6 DEF FS!Init, Cloud, Mine

LEMMA NextVersions ==
  IInv /\ EditInv /\ [Next]_vars => [FS!Next]_<<Cloud, Mine>>
<1> SUFFICES ASSUME IInv, EditInv, [Next]_vars PROVE [FS!Next]_<<Cloud, Mine>>
  OBVIOUS
<1>1. ASSUME NEW d \in Device, Start(d) \/ Proceed(d) \/ Answer(d) \/ Upload(d) \/ Fail(d)
      PROVE  [FS!Next]_<<Cloud, Mine>>
  <2>1. EditStep(d)
    BY <1>1, StartEdits, PrepareEdits, WalkEdits, PublishEdits, CleanUpEdits, AnswerEdits, FailEdits
       DEF Proceed
  <2>2. HeadStep(d)
    BY <1>1, PrepareHeads, WalkHeads, PublishHeads, FailHeads DEF Proceed
  <2>3. CASE UNCHANGED <<cloudHead, localHead, cmd>>
    <3>1. Held(d)' = Held(d)
      BY <2>3 DEF Held, At
    <3> QED BY <2>1, <2>3, <3>1, SameHeads
  <2>4. CASE WriteLocalHead(d) \/ LocalHeadTorn(d)
    BY <2>1, <2>4, EditVersion DEF FS!Next
  <2>5. CASE cmd'[d].pc # "cloudhead" /\ UNCHANGED <<cloudHead, localHead>>
    <3>1. Held(d)' = localHead[d]
      BY <2>5 DEF Held, At
    <3>2. localHead[d] \in {Held(d), TornHead}
      BY DEF Held, At, EditInv, EditShape
    <3>3. CASE localHead[d] = Held(d)
      BY <2>1, <2>5, <3>1, <3>3, SameHeads
    <3>4. CASE localHead[d] = TornHead
      BY <2>1, <2>5, <3>1, <3>4, LoseStep DEF FS!Next
    <3> QED BY <3>2, <3>3, <3>4
  <2>6. CASE Sync(d)
    BY <2>1, <2>6, SyncStep DEF FS!Next
  <2>7. CASE /\ cmd'[d].pc # "cloudhead"
             /\ At(d, "cloudhead") /\ cloudHead' = cmd[d].newc /\ UNCHANGED localHead
    BY <2>1, <2>7, PublishVersion DEF FS!Next
  <2>8. ASSUME NEW h \in {NoHead, TornHead}, localHead' = [localHead EXCEPT ![d] = h],
               UNCHANGED cloudHead, cmd'[d].pc # "cloudhead"
        PROVE  FS!Next
    <3>1. Held(d)' = h
      BY <2>8, Facts DEF Held, At, TypeOK
    <3> QED BY <2>1, <2>8, <3>1, LoseStep DEF FS!Next
  <2> QED BY <2>2, <2>3, <2>4, <2>5, <2>6, <2>7, <2>8 DEF HeadStep
<1>2. CASE UNCHANGED vars
  BY <1>2 DEF vars, storeVars, headVars, Cloud, Mine, Held, At
<1> QED BY <1>1, <1>2 DEF Next

(* Whatever the devices do, at once or in turn, and whatever fails: to its user   *)
(* the vault is VaultFS.  The trees that upsert_* and remove_* rewrite on the way  *)
(* up change exactly one path of the version the command read, with the parents    *)
(* it had to create; the device goes by that version from the write of its local   *)
(* HEAD on, and the cloud's HEAD then moves to the whole of it, or not at all.     *)
(* The local file may have been cut short unnoticed: the device then loses its     *)
(* version when the command is over, published or not.  sync copies the cloud's    *)
(* version, a torn or renewed local HEAD loses it, and no other call, failure or   *)
(* crash changes what any version shows.                                           *)
THEOREM Refinement == Spec => RefinesVaultFS
<1>1. Init => IInv /\ EditInv /\ FS!Init
  BY InitIInv, InitEdits, InitVersions
<1>2. IInv /\ EditInv /\ [Next]_vars => (IInv /\ EditInv)'
  BY NextIInv, NextEdits
<1>3. IInv /\ EditInv /\ [Next]_vars => [FS!Next]_<<VersionOf(obj, cloudHead), [d \in Device |-> VersionOf(obj, Held(d))]>>
  BY NextVersions DEF Cloud, Mine
<1> QED BY <1>1, <1>2, <1>3, PTL DEF Spec, RefinesVaultFS, FS!Spec

----------------------------------------------------------------------------
(* What a snapshot reaches is what its paths resolve to *)

(* No path longer than MaxDepth leads anywhere from the tree h. *)
Shallow(o, h) == \A q \in [1..(MaxDepth + 1) -> Name] : ResolvePath(o, h, q) = 0

ReachInv ==
  /\ NoCommitBelow(obj, reach)
  /\ \A c \in Commits : Shallow(obj, obj[c].root)

LEMMA DeepPath ==
  ASSUME NEW q \in [1..(MaxDepth + 1) -> Name]
  PROVE  /\ Len(q) = MaxDepth + 1 /\ Len(q) \in Nat /\ Components(q)
         /\ \A p \in Path : Len(p) < Len(q)
<1>1. MaxDepth + 1 \in Nat /\ q \in Seq(Name)
  BY ConstantsAssumption
<1>2. Len(q) = MaxDepth + 1
  BY <1>1
<1>3. \A p \in Path : Len(p) < MaxDepth + 1
  BY ConstantsAssumption DEF Path
<1> QED BY <1>1, <1>2, <1>3 DEF Components

(* A snapshot stays as deep as it is while the store grows. *)
LEMMA ShallowGrows ==
  ASSUME NEW o \in Seq(Object), NEW o2 \in Seq(Object), Entries(o), Entries(o2), Grows(o, o2),
         NEW root \in 0..Len(o), Shallow(o, root)
  PROVE  Shallow(o2, root)
<1> SUFFICES ASSUME NEW q \in [1..(MaxDepth + 1) -> Name] PROVE ResolvePath(o2, root, q) = 0
  BY DEF Shallow
<1>1. Components(q) /\ Len(q) \in 0..Len(q)
  BY DeepPath
<1>2. Trail(o2, root, q)[Len(q)] = Trail(o, root, q)[Len(q)]
  BY <1>1, TrailGrows
<1>3. ResolvePath(o, root, q) = 0
  BY DEF Shallow
<1> QED BY <1>2, <1>3 DEF ResolvePath

(* A trail that comes to an object without entries comes to nothing. *)
LEMMA DeadTrail ==
  ASSUME NEW o, NEW root, NEW q, Components(q), NEW t, IsTrail(o, root, q, Len(q), t),
         NEW i \in Nat, i < Len(q), Barren(o, t[i])
  PROVE  t[Len(q)] = 0
<1>1. Len(q) \in Nat /\ (\A k \in (i + 1)..Len(q) : q[k] \in Name) /\ Len(q) \in (i + 1)..Len(q)
  BY DEF Components
<1>2. Follows(o, t, q, i, Len(q))
  BY <1>1 DEF IsTrail, Follows
<1>3. \A k \in (i + 1)..Len(q) : t[k] = 0
  BY <1>1, <1>2, TrailEnds
<1> QED BY <1>1, <1>3

(* A command puts a blob, an empty directory or nothing at the end of its path, so
   it makes no path longer than its own. *)
LEMMA RewriteIsShallow ==
  ASSUME NEW o \in Seq(Object), Entries(o), NEW p \in Path, NEW root \in 0..Len(o),
         NEW old, NEW new, Rewrite(o, root, p, old, new),
         NEW op, NEW e, LeafFits(o, op, e, new[Len(p) + 1]), Shallow(o, root)
  PROVE  Shallow(o, new[1])
<1> SUFFICES ASSUME NEW q \in [1..(MaxDepth + 1) -> Name] PROVE ResolvePath(o, new[1], q) = 0
  BY DEF Shallow
<1> DEFINE f == Trail(o, root, q)
           g == Trail(o, new[1], q)
           n == Len(p)
           m == Len(q)
<1>1. Components(q) /\ n \in Nat \ {0} /\ m \in Nat /\ n < m
  BY DeepPath, PathComponents
<1>2. new[1] \in 0..Len(o)
  BY <1>1 DEF Rewrite, Rewritten
<1>3. IsTrail(o, new[1], q, m, g)
  BY <1>1, <1>2, TrailFacts
<1>4. /\ Along(p, q, n) => g[n] = new[n + 1]
      /\ Leaves(p, q, m) => g[m] = f[m]
  BY <1>1, RewrittenTrail
<1>5. f[m] = 0
  BY DEF Shallow, ResolvePath
<1> HIDE DEF f, g
<1>6. CASE Along(p, q, n)
  <2>1. Barren(o, g[n])
    BY <1>4, <1>6 DEF Barren, LeafFits
  <2>2. g[m] = 0
    BY <1>1, <1>3, <2>1, DeadTrail
  <2> QED BY <2>2 DEF g, m, ResolvePath
<1>7. CASE ~Along(p, q, n)
  <2>1. PICK i \in 1..n : q[i] # p[i]
    BY <1>1, <1>7 DEF Along
  <2>2. Leaves(p, q, m)
    BY <1>1, <2>1 DEF Leaves
  <2> QED BY <1>4, <1>5, <2>2 DEF g, ResolvePath
<1> QED BY <1>6, <1>7

(* What is below an object reaches nothing else than the object does. *)
LEMMA ReachTransitive ==
  ASSUME NEW o \in Seq(Object), NEW r, StoreInv(o, r)
  PROVE  \A h \in 1..Len(o) : \A x \in r[h] : r[x] \subseteq r[h]
<1> DEFINE S == {h \in 1..Len(o) : \A x \in r[h] : r[x] \subseteq r[h]}
<1>1. ASSUME NEW h \in 1..Len(o), \A m \in 1..(h - 1) : m \in S PROVE h \in S
  <2> SUFFICES ASSUME NEW x \in r[h], x # h PROVE r[x] \subseteq r[h]
    OBVIOUS
  <2>1. o[h] \in Object /\ ObjectInv(o, r, h) /\ h \in Nat
    BY DEF StoreInv
  <2>2. ASSUME NEW e \in 1..(h - 1), x \in r[e], r[e] \subseteq r[h] PROVE r[x] \subseteq r[h]
    BY <1>1, <2>2
  <2>3. CASE o[h].kind = "commit"
    BY <2>1, <2>2, <2>3 DEF ObjectInv, TreeIn
  <2>4. CASE o[h].kind = "tree"
    <3>1. PICK n \in Name : Under(o, r, h, n, x)
      BY <2>1, <2>4 DEF ObjectInv
    <3>2. o[h].dir[n] \in 1..(h - 1) /\ x \in r[o[h].dir[n]]
      BY <2>1, <3>1 DEF ObjectInv, Object, Under
    <3>3. r[o[h].dir[n]] \subseteq r[h]
      BY <2>1, <2>4, <3>1 DEF ObjectInv, Under
    <3> QED BY <2>2, <3>2, <3>3
  <2>5. CASE o[h].kind = "blob"
    BY <2>1, <2>5 DEF ObjectInv
  <2> QED BY <2>1, <2>3, <2>4, <2>5 DEF Object
<1>2. Len(o) \in Nat
  OBVIOUS
<1> HIDE DEF S
<1>3. \A h \in 1..Len(o) : h \in S
  BY <1>1, <1>2, ClimbStrong
<1> QED BY <1>3 DEF S

(* Following entries never leaves what the tree reaches. *)
LEMMA TrailReached ==
  ASSUME NEW o \in Seq(Object), NEW r, StoreInv(o, r), NEW h \in 1..Len(o),
         NEW n \in Nat, NEW p, \A k \in 1..n : p[k] \in Name, NEW t, IsTrail(o, h, p, n, t)
  PROVE  \A k \in 0..n : t[k] # 0 => t[k] \in r[h]
<1> DEFINE S == {k \in 0..n : t[k] # 0 => t[k] \in r[h]}
<1>1. 0 \in S
  BY ReachBelow DEF IsTrail
<1>2. ASSUME NEW k \in (0 + 1)..n, k - 1 \in S PROVE k \in S
  <2> SUFFICES ASSUME t[k] # 0 PROVE t[k] \in r[h]
    OBVIOUS
  <2>1. k - 1 \in 0..n /\ k \in 1..n /\ t[k - 1] \in 0..Len(o) /\ p[k] \in Name
    BY DEF IsTrail
  <2>2. t[k] = Follow(o, t[k - 1], p[k])
    BY <2>1 DEF IsTrail, Follows
  <2>3. t[k - 1] \in 1..Len(o) /\ t[k - 1] # 0 /\ o[t[k - 1]].kind = "tree" /\ t[k] = o[t[k - 1]].dir[p[k]]
    BY <2>1, <2>2 DEF Follow
  <2>4. t[k - 1] \in r[h]
    BY <1>2, <2>3
  <2>5. t[k] \in 1..Len(o)
    BY <2>1, StoreEntries, FollowKnown, <2>2
  <2>6. t[k] \in r[t[k - 1]]
    <3>1. Under(o, r, t[k - 1], p[k], t[k])
      BY <2>3, <2>5, ReachBelow DEF Under
    <3> QED BY <2>1, <2>3, <3>1 DEF StoreInv, ObjectInv
  <2>7. r[t[k - 1]] \subseteq r[h]
    BY <2>4, ReachTransitive
  <2> QED BY <2>6, <2>7
<1> HIDE DEF S
<1>3. \A k \in 0..n : k \in S
  BY <1>1, <1>2, Climb
<1> QED BY <1>3 DEF S

(* x is at the end of some path from h. *)
EndOf(o, h, n, q, t, x) == q \in [1..n -> Name] /\ IsTrail(o, h, q, n, t) /\ t[n] = x
Leads(o, h, x)          == \E n \in Nat : \E q, t : EndOf(o, h, n, q, t, x)

(* A path from an entry of h is one component longer from h. *)
LEMMA LongerPath ==
  ASSUME NEW o \in Seq(Object), NEW h \in 1..Len(o), o[h].kind = "tree", NEW m \in Name,
         o[h].dir[m] \in 0..Len(o), NEW x, Leads(o, o[h].dir[m], x)
  PROVE  Leads(o, h, x)
<1> DEFINE e == o[h].dir[m]
<1>0. PICK n \in Nat : \E q, t : EndOf(o, e, n, q, t, x)
  BY DEF Leads
<1>1. PICK q, t : EndOf(o, e, n, q, t, x)
  BY <1>0
<1>2. /\ q \in [1..n -> Name] /\ t \in [0..n -> 0..Len(o)] /\ t[0] = e /\ t[n] = x
      /\ \A k \in 1..n : t[k] = Follow(o, t[k - 1], q[k])
  BY <1>1 DEF EndOf, IsTrail, Follows
<1> DEFINE q2 == [k \in 1..(n + 1) |-> IF k = 1 THEN m ELSE q[k - 1]]
           t2 == [k \in 0..(n + 1) |-> IF k = 0 THEN h ELSE t[k - 1]]
<1>3. q2 \in [1..(n + 1) -> Name] /\ q2[1] = m /\ \A k \in 2..(n + 1) : q2[k] = q[k - 1]
  BY <1>2
<1>4. /\ t2 \in [0..(n + 1) -> 0..Len(o)] /\ t2[0] = h
      /\ \A k \in 1..(n + 1) : t2[k] = t[k - 1]
  BY <1>2
<1> HIDE DEF q2, t2
<1>5. ASSUME NEW k \in (0 + 1)..(n + 1) PROVE t2[k] = Follow(o, t2[k - 1], q2[k])
  <2>1. CASE k = 1
    BY <1>2, <1>3, <1>4, <2>1 DEF Follow
  <2>2. CASE k # 1
    <3>1. k \in 2..(n + 1) /\ k - 1 \in 1..n /\ k - 1 \in 1..(n + 1) /\ k \in 1..(n + 1)
      BY <2>2
    <3>2. t[k - 1] = Follow(o, t[(k - 1) - 1], q[k - 1])
      BY <1>2, <3>1
    <3> QED BY <1>3, <1>4, <3>1, <3>2
  <2> QED BY <2>1, <2>2
<1>6. IsTrail(o, h, q2, n + 1, t2)
  BY <1>4, <1>5 DEF IsTrail, Follows
<1>7. t2[n + 1] = x
  <2>1. n + 1 \in 1..(n + 1) /\ (n + 1) - 1 = n
    OBVIOUS
  <2> QED BY <1>2, <1>4, <2>1
<1>8. EndOf(o, h, n + 1, q2, t2, x)
  BY <1>3, <1>6, <1>7 DEF EndOf
<1> QED BY <1>8 DEF Leads

(* Whatever a tree reaches is at the end of some path. *)
LEMMA ReachedByPath ==
  ASSUME NEW o \in Seq(Object), NEW r, StoreInv(o, r), NoCommitBelow(o, r)
  PROVE  \A h \in 1..Len(o) : o[h].kind # "commit" => \A x \in r[h] : Leads(o, h, x)
<1> DEFINE S == {h \in 1..Len(o) : o[h].kind # "commit" => \A x \in r[h] : Leads(o, h, x)}
<1>1. ASSUME NEW h \in 1..Len(o), \A m \in 1..(h - 1) : m \in S PROVE h \in S
  <2> SUFFICES ASSUME o[h].kind # "commit", NEW x \in r[h] PROVE Leads(o, h, x)
    OBVIOUS
  <2>1. o[h] \in Object /\ ObjectInv(o, r, h) /\ h \in Nat
    BY DEF StoreInv
  <2>2. CASE x = h
    <3>1. PICK n \in Nat : n = 0
      OBVIOUS
    <3> DEFINE q == [k \in 1..n |-> CHOOSE m \in Name : TRUE]
               t == [k \in 0..n |-> h]
    <3>2. EndOf(o, h, n, q, t, x)
      BY <2>2, <3>1 DEF EndOf, IsTrail, Follows
    <3> HIDE DEF q, t
    <3> QED BY <3>2 DEF Leads
  <2>3. CASE x # h
    <3>1. o[h].kind = "tree"
      BY <2>1, <2>3 DEF ObjectInv, Object
    <3>2. PICK n \in Name : Under(o, r, h, n, x)
      BY <2>1, <2>3, <3>1 DEF ObjectInv
    <3>3. o[h].dir[n] \in 1..(h - 1) /\ x \in r[o[h].dir[n]] /\ o[h].dir[n] \in 1..Len(o)
      BY <2>1, <3>2 DEF ObjectInv, Object, Under
    <3>4. o[o[h].dir[n]].kind # "commit"
      <4>1. o[h].dir[n] \in r[o[h].dir[n]]
        BY <3>3, ReachBelow
      <4>2. o[h].dir[n] \in r[h]
        BY <2>1, <3>1, <3>3, <4>1 DEF ObjectInv, Under
      <4> QED BY <4>2 DEF NoCommitBelow
    <3>5. Leads(o, o[h].dir[n], x)
      BY <1>1, <3>3, <3>4
    <3> QED BY <3>1, <3>3, <3>5, LongerPath
  <2> QED BY <2>2, <2>3
<1>2. Len(o) \in Nat
  OBVIOUS
<1> HIDE DEF S
<1>3. \A h \in 1..Len(o) : h \in S
  BY <1>1, <1>2, ClimbStrong
<1> QED BY <1>3 DEF S

(* A path that leads somewhere is no longer than MaxDepth, and so one of Path. *)
LEMMA PathOfTrail ==
  ASSUME NEW o \in Seq(Object), Entries(o), NEW root \in 1..Len(o), Shallow(o, root),
         NEW x, x # 0, x # root, Leads(o, root, x)
  PROVE  \E p \in Path : ResolvePath(o, root, p) = x
<1>0. PICK n \in Nat : \E q, t : EndOf(o, root, n, q, t, x)
  BY DEF Leads
<1>1. PICK q, t : EndOf(o, root, n, q, t, x)
  BY <1>0
<1>2. /\ q \in [1..n -> Name] /\ IsTrail(o, root, q, n, t) /\ t[n] = x /\ t[0] = root
      /\ Follows(o, t, q, 0, n)
  BY <1>1 DEF EndOf, IsTrail
<1>3. root \in 0..Len(o) /\ MaxDepth \in Nat \ {0}
  BY ConstantsAssumption
(* a path of j components that begins like q leads to t[j] *)
<1>4. ASSUME NEW j \in Nat, j <= n, NEW p \in [1..j -> Name], \A k \in 1..j : p[k] = q[k]
      PROVE  ResolvePath(o, root, p) = t[j]
  <2> DEFINE u == Trail(o, root, p)
  <2>1. Len(p) = j /\ Components(p)
    BY <1>4 DEF Components
  <2>2. IsTrail(o, root, p, j, u)
    BY <1>3, <2>1, TrailFacts
  <2> HIDE DEF u
  <2>3. u[0] = root /\ Follows(o, u, p, 0, j)
    BY <2>2 DEF IsTrail
  <2>4. Follows(o, t, q, 0, j) /\ Alike(o, o, t, q, p, 0, j)
    BY <1>2, <1>4 DEF Follows, Alike
  <2>5. PICK i \in Nat : i = 0
    OBVIOUS
  <2>6. \A k \in i..j : u[k] = t[k]
    <3>1. t[i] = u[i] /\ Follows(o, t, q, i, j) /\ Follows(o, u, p, i, j) /\ Alike(o, o, t, q, p, i, j)
      BY <1>2, <2>3, <2>4, <2>5
    <3> QED BY ONLY <3>1, i \in Nat, j \in Nat, TrailsMeet
  <2>7. u[j] = t[j]
    BY <2>5, <2>6
  <2> QED BY <2>1, <2>7 DEF u, ResolvePath
<1>5. n <= MaxDepth
  <2> SUFFICES ASSUME n > MaxDepth PROVE FALSE
    BY <1>3
  <2>1. PICK j \in Nat : j = MaxDepth + 1
    BY <1>3
  <2>2. j <= n
    BY <1>3, <2>1
  <2> DEFINE p == [k \in 1..j |-> q[k]]
  <2>3. p \in [1..j -> Name] /\ \A k \in 1..j : p[k] = q[k]
    BY <1>2, <2>2
  <2> HIDE DEF p
  <2>4. t[j] = 0
    BY <1>4, <2>1, <2>2, <2>3 DEF Shallow
  <2>5. j # n /\ Barren(o, t[j])
    BY <1>2, <2>4 DEF Barren
  <2>6. Follows(o, t, q, j, n) /\ (\A k \in (j + 1)..n : q[k] \in Name) /\ n \in (j + 1)..n
    BY <1>2, <2>2, <2>5 DEF Follows
  <2>7. \A k \in (j + 1)..n : t[k] = 0
    BY ONLY <2>5, <2>6, j \in Nat, n \in Nat, TrailEnds
  <2> QED BY <1>2, <2>6, <2>7
<1>6. n # 0
  BY <1>2
<1>7. q \in Path
  BY <1>2, <1>3, <1>5, <1>6 DEF Path
<1>8. ResolvePath(o, root, q) = x
  BY <1>2, <1>4
<1> QED BY <1>7, <1>8

LEMMA ReachIsPaths ==
  ASSUME NEW o \in Seq(Object), NEW r, StoreInv(o, r), NoCommitBelow(o, r),
         NEW root, TreeIn(o, root), Shallow(o, root)
  PROVE  r[root] \cup {root} = {root} \cup ({ResolvePath(o, root, p) : p \in Path} \ {0})
<1>1. root \in 1..Len(o) /\ root \in 0..Len(o) /\ o[root].kind = "tree" /\ Entries(o)
  BY StoreEntries DEF TreeIn
<1>2. ASSUME NEW p \in Path, ResolvePath(o, root, p) # 0 PROVE ResolvePath(o, root, p) \in r[root]
  <2> DEFINE t == Trail(o, root, p)
  <2>1. Len(p) \in Nat /\ Components(p) /\ Len(p) \in 0..Len(p)
    BY PathComponents
  <2>2. IsTrail(o, root, p, Len(p), t) /\ \A k \in 1..Len(p) : p[k] \in Name
    BY <1>1, <2>1, TrailFacts DEF Components
  <2>3. t[Len(p)] = ResolvePath(o, root, p)
    BY DEF ResolvePath
  <2> HIDE DEF t
  <2>4. \A k \in 0..Len(p) : t[k] # 0 => t[k] \in r[root]
    BY <1>1, <2>1, <2>2, TrailReached
  <2> QED BY <1>2, <2>1, <2>3, <2>4
<1>3. ASSUME NEW x \in r[root], x # root
      PROVE  x # 0 /\ \E p \in Path : ResolvePath(o, root, p) = x
  <2>1. Leads(o, root, x) /\ x # 0
    BY <1>1, <1>3, ReachedByPath, ReachBelow
  <2> QED BY <1>1, <1>3, <2>1, PathOfTrail
<1> HIDE DEF ResolvePath
<1> QED BY <1>2, <1>3

----------------------------------------------------------------------------
(* ReachInv is inductive *)

(* The commit a command is about to store stands for a rewriting of the one it read. *)
LEMMA NewRootIsShallow ==
  ASSUME IInv, EditInv, ReachInv, NEW d \in Device, At(d, "commit")
  PROVE  Shallow(obj, cmd[d].ret)
<1> DEFINE c == cmd[d]
           old == obj[c.base].root
<1>0. /\ StoreInv(obj, reach) /\ obj \in Seq(Object) /\ Entries(obj)
      /\ c \in Command /\ CmdShape(obj, c) /\ c.pc = "commit" /\ c.path \in Path
      /\ EditShape(obj, c, localHead[d])
  BY Facts, StoreEntries DEF EditInv, At, CmdShape
<1>1. /\ CommitIn(obj, c.base)
      /\ \A i \in 1..Len(c.old) : Loads(obj, OldTrail(obj, c), i, c.old[i])
  BY <1>0 DEF EditShape, Editing, Climbing
<1>2. PICK new : NewTrees(obj, c, new)
  BY <1>0 DEF EditShape, Climbing
<1>3. /\ Rewritten(obj, c.old, c.path, new, 1, Len(c.path))
      /\ LeafFits(obj, c.op, EntryAt(obj, c), new[Len(c.path) + 1])
      /\ new[1] = c.ret
  <2>1. UpTo(c) + 1 = 1
    BY <1>0 DEF UpTo
  <2> QED BY <1>0, <1>2, <2>1 DEF NewTrees
<1>4. Len(c.old) = Len(c.path)
  BY <1>0 DEF CmdShape
<1>5. Rewrite(obj, old, c.path, c.old, new)
  BY <1>1, <1>3, <1>4 DEF Rewrite, OldTrail
<1>6. old \in 0..Len(obj) /\ Shallow(obj, old)
  BY <1>0, <1>1 DEF ReachInv, CommitIn, Commits, Hash, StoreInv, ObjectInv, TreeIn
<1>7. Shallow(obj, new[1])
  <2> HIDE DEF c, old
  <2> QED BY <1>0, <1>3, <1>5, <1>6, RewriteIsShallow
<1> QED BY <1>3, <1>7

(* What a command writes as a tree's new entry is no commit. *)
LEMMA ReturnsNoCommit ==
  ASSUME IInv, EditInv, NEW d \in Device, At(d, "store"), cmd[d].ret # 0
  PROVE  obj[cmd[d].ret].kind # "commit"
<1> DEFINE c == cmd[d]
<1>0. /\ c \in Command /\ CmdShape(obj, c) /\ c.pc = "store" /\ EditShape(obj, c, localHead[d])
  BY Facts DEF EditInv, At
<1>1. PICK new : NewTrees(obj, c, new)
  BY <1>0 DEF EditShape, Climbing
<1>2. /\ Rewritten(obj, c.old, c.path, new, c.lvl + 1, Len(c.path))
      /\ LeafFits(obj, c.op, EntryAt(obj, c), new[Len(c.path) + 1])
      /\ new[c.lvl + 1] = c.ret
      /\ c.lvl \in 1..Len(c.path)
  BY <1>0, <1>1 DEF NewTrees, UpTo, CmdShape
<1>3. CASE c.lvl = Len(c.path)
  BY <1>2, <1>3 DEF LeafFits, TreeIn
<1>4. CASE c.lvl # Len(c.path)
  <2>1. c.lvl + 1 \in (c.lvl + 1)..Len(c.path)
    BY <1>2, <1>4
  <2>2. TreeIn(obj, new[c.lvl + 1])
    BY <1>2, <2>1 DEF Rewritten
  <2> QED BY <1>2, <2>2 DEF TreeIn
<1> QED BY <1>3, <1>4

(* The steps that store an object; all others leave the store alone. *)
StoreStep(d) ==
  \/ Encrypt(Blob, {})
  \/ EncryptTree(EmptyDir)
  \/ At(d, "store") /\ EncryptTree(NewDir(cmd[d]))
  \/ At(d, "commit") /\ EncryptCommit(cmd[d].ret)
  \/ UNCHANGED <<obj, reach>>

LEMMA StoreSteps ==
  ASSUME NEW d \in Device, Start(d) \/ Proceed(d) \/ Answer(d) \/ Upload(d) \/ Fail(d)
  PROVE  StoreStep(d)
<1>1. CASE Start(d) \/ Answer(d) \/ Upload(d)
  BY <1>1 DEF StoreStep, Start, Begin, Sync, InitExisting, Answer, ConfirmYes, ConfirmNo, Upload, storeVars
<1>2. CASE Prepare(d)
  BY <1>2 DEF StoreStep, Prepare, ReadHead, ReadHeadMissing, ReadHeadInvalid, StoreBlob, StoreLeaf, storeVars
<1>3. CASE Walk(d)
  BY <1>3 DEF StoreStep, Walk, LoadTreeMissing, Descend, MissingParent, StoreParent, LeafUpsert, LeafRemove,
              LeafRmdir, AskConfirm, RejectEntry, storeVars
<1>4. CASE Publish(d)
  BY <1>4 DEF StoreStep, Publish, StoreTree, StoreCommit, WriteLocalHead, PutCloudHead, storeVars
<1>5. CASE CleanUp(d) \/ Exit(d)
  BY <1>5 DEF StoreStep, CleanUp, RemoveOldCommit, OldCommitGone, RemoveOldTree, RemoveSubtree, RemoveBlob,
              BlobGone, Done, Exit, storeVars
<1>6. CASE Fail(d)
  BY <1>6 DEF StoreStep, Fail, UploadFails, CallFails, PutReplyLost, HeadReplyLost, RemoveReplyLost,
              TreeRemoveFails, LocalHeadTorn, DiesWritingHead, SyncTorn, Crash, storeVars
<1> QED BY <1>1, <1>2, <1>3, <1>4, <1>5, <1>6 DEF Proceed

LEMMA StoreStepKeeps ==
  ASSUME IInv, EditInv, ReachInv, NEW d \in Device, StoreStep(d)
  PROVE  ReachInv'
<1>0. /\ StoreInv(obj, reach) /\ obj \in Seq(Object) /\ reach \in Seq(SUBSET Nat) /\ Entries(obj)
      /\ NoCommitBelow(obj, reach) /\ Len(obj) \in Nat
  BY Facts, StoreEntries DEF ReachInv
(* one more object; if it is a commit, its tree is shallow *)
<1>1. ASSUME Extends(obj, reach, obj', reach'), NoCommitBelow(obj', reach'),
             LET h == Len(obj') IN
             obj'[h].kind = "commit" => obj'[h].root \in 1..Len(obj) /\ Shallow(obj, obj'[h].root)
      PROVE  ReachInv'
  <2>1. /\ obj' \in Seq(Object) /\ Entries(obj') /\ Grows(obj, obj')
        /\ Len(obj') = Len(obj) + 1 /\ \A h \in 1..Len(obj) : obj'[h] = obj[h]
    BY <1>1, EditStays DEF Extends, Grows
  <2>2. ASSUME NEW root \in 1..Len(obj), Shallow(obj, root) PROVE Shallow(obj', root)
    BY <1>0, <2>1, <2>2, ShallowGrows
  <2>3. ASSUME NEW c \in Commits' PROVE Shallow(obj', obj'[c].root)
    <3>1. c \in 1..Len(obj') /\ obj'[c].kind = "commit"
      BY DEF Commits, Hash
    <3>2. CASE c = Len(obj')
      BY <1>1, <2>2, <3>1, <3>2
    <3>3. CASE c # Len(obj')
      <4>1. c \in 1..Len(obj) /\ obj'[c] = obj[c]
        BY <1>0, <2>1, <3>1, <3>3
      <4>2. c \in Commits /\ CommitIn(obj, c)
        BY <3>1, <4>1 DEF Commits, Hash, CommitIn
      <4>3. obj[c].root \in 1..Len(obj) /\ Shallow(obj, obj[c].root)
        BY <1>0, <4>1, <4>2 DEF ReachInv, StoreInv, ObjectInv, CommitIn, TreeIn
      <4> QED BY <2>2, <4>1, <4>3
    <3> QED BY <3>2, <3>3
  <2> QED BY <1>1, <2>3 DEF ReachInv
<1>2. CASE Encrypt(Blob, {})
  <2>1. obj' = Append(obj, Blob) /\ reach' = Append(reach, {Len(obj) + 1} \cup {})
    BY <1>2 DEF Encrypt, NextHash
  <2>2. Extends(obj, reach, obj', reach') /\ reach'[Len(obj')] = {Len(obj')}
    BY <1>0, <2>1, NewBlob
  <2>3. NoCommitBelow(obj', reach')
    BY <1>0, <2>2, KindsGrow
  <2>4. obj'[Len(obj')].kind = "blob"
    BY <1>0, <2>1 DEF Blob
  <2> QED BY <1>1, <2>2, <2>3, <2>4
<1>3. CASE EncryptTree(EmptyDir)
  <2>1. /\ Extends(obj, reach, obj', reach') /\ reach'[Len(obj')] = {Len(obj')}
        /\ TreeIn(obj', Len(obj'))
    BY <1>3, EmptyTreeStored
  <2>2. NoCommitBelow(obj', reach')
    BY <1>0, <2>1, KindsGrow
  <2> QED BY <1>1, <2>1, <2>2 DEF TreeIn
<1>4. CASE At(d, "store") /\ EncryptTree(NewDir(cmd[d]))
  <2>1. Extends(obj, reach, obj', reach') /\ TreeIn(obj', Len(obj'))
    BY <1>4, LevelTreeStored
  <2>2. NoCommitBelow(obj', reach')
    BY <1>0, <1>4, ReturnsNoCommit, LevelTreeKinds
  <2> QED BY <1>1, <2>1, <2>2 DEF TreeIn
<1>5. CASE At(d, "commit") /\ EncryptCommit(cmd[d].ret)
  <2>1. Extends(obj, reach, obj', reach') /\ CommitIn(obj', Len(obj'))
    BY <1>5, CommitStored
  <2>2. NoCommitBelow(obj', reach')
    BY <1>0, <2>1, KindsGrow DEF CommitIn
  <2>3. obj'[Len(obj')].root = cmd[d].ret
    BY <1>0, <1>5 DEF EncryptCommit, Encrypt, Commit
  <2>4. Shallow(obj, cmd[d].ret) /\ cmd[d].ret \in 1..Len(obj)
    BY <1>5, NewRootIsShallow, Facts DEF CmdShape, At, TreeIn
  <2> QED BY <1>1, <2>1, <2>2, <2>3, <2>4
<1>6. CASE UNCHANGED <<obj, reach>>
  BY <1>6 DEF ReachInv, Commits, Hash
<1> QED BY <1>2, <1>3, <1>4, <1>5, <1>6 DEF StoreStep

LEMMA InitReach == Init => ReachInv
<1> SUFFICES ASSUME Init PROVE ReachInv
  OBVIOUS
<1>1. /\ IInv /\ obj \in Seq(Object) /\ Len(obj) = 2 /\ obj[1] = Tree(EmptyDir) /\ obj[2] = Commit(1)
      /\ reach[1] = {1}
  BY InitIInv, Facts, ConstantsAssumption DEF Init, IInv, TypeOK
<1>2. NoCommitBelow(obj, reach)
  BY <1>1 DEF NoCommitBelow, Tree, Commit
<1>3. ASSUME NEW c \in Commits PROVE obj[c].root = 1
  BY <1>1 DEF Commits, Hash, Tree, Commit
<1>4. ASSUME NEW q \in [1..(MaxDepth + 1) -> Name] PROVE ResolvePath(obj, 1, q) = 0
  <2> DEFINE t == Trail(obj, 1, q)
             n == Len(q)
  <2>1. n \in Nat /\ n > 0 /\ Components(q)
    BY DeepPath, ConstantsAssumption
  <2>2. IsTrail(obj, 1, q, n, t)
    <3>1. Entries(obj) /\ 1 \in 0..Len(obj)
      BY <1>1, StoreEntries DEF IInv
    <3> QED BY <1>1, <2>1, <3>1, TrailFacts
  <2>3. t[n] = ResolvePath(obj, 1, q)
    BY DEF ResolvePath
  <2> HIDE DEF t
  <2>4. Barren(obj, t[0])
    BY <1>1, <2>2 DEF Barren, IsTrail, Tree
  <2>5. PICK i \in Nat : i = 0
    OBVIOUS
  <2>6. t[n] = 0
    BY <2>1, <2>2, <2>4, <2>5, DeadTrail
  <2> QED BY <2>3, <2>6
<1> QED BY <1>2, <1>3, <1>4 DEF ReachInv, Shallow

LEMMA NextReach == IInv /\ EditInv /\ ReachInv /\ [Next]_vars => ReachInv'
<1> SUFFICES ASSUME IInv, EditInv, ReachInv, [Next]_vars PROVE ReachInv'
  OBVIOUS
<1>1. ASSUME NEW d \in Device, StoreStep(d) PROVE ReachInv'
  BY <1>1, StoreStepKeeps
<1>2. CASE UNCHANGED vars
  BY <1>2 DEF vars, storeVars, ReachInv, Commits, Hash
<1> QED BY <1>1, <1>2, StoreSteps DEF Next

(* The traversals of the code (collect_subtree_hashes, from which rmdir takes what it *)
(* deletes) and its path resolution agree on every snapshot ever stored: what the      *)
(* one gathers from a root is what the other finds at the end of some path.            *)
THEOREM TraversalMeetsPaths == Spec => []ReachIsResolvable
<1>1. Init => IInv /\ EditInv /\ ReachInv
  BY InitIInv, InitEdits, InitReach
<1>2. IInv /\ EditInv /\ ReachInv /\ [Next]_vars => (IInv /\ EditInv /\ ReachInv)'
  BY NextIInv, NextEdits, NextReach
<1>3. IInv /\ ReachInv => ReachIsResolvable
  <2> SUFFICES ASSUME IInv, ReachInv, NEW c \in Commits
               PROVE  reach[c] = {c, obj[c].root} \cup ({ResolvePath(obj, obj[c].root, p) : p \in Path} \ {0})
    BY DEF ReachIsResolvable
  <2>1. /\ StoreInv(obj, reach) /\ obj \in Seq(Object) /\ NoCommitBelow(obj, reach)
        /\ CommitIn(obj, c) /\ Shallow(obj, obj[c].root)
    BY DEF IInv, TypeOK, ReachInv, Commits, Hash, CommitIn
  <2>2. TreeIn(obj, obj[c].root) /\ reach[c] = {c} \cup reach[obj[c].root]
    BY <2>1 DEF StoreInv, ObjectInv, CommitIn
  <2>3. reach[obj[c].root] \cup {obj[c].root}
          = {obj[c].root} \cup ({ResolvePath(obj, obj[c].root, p) : p \in Path} \ {0})
    BY <2>1, <2>2, ReachIsPaths
  <2>4. obj[c].root \in reach[obj[c].root]
    BY <2>1, <2>2, ReachBelow DEF TreeIn
  <2> HIDE DEF ResolvePath
  <2> QED BY <2>2, <2>3, <2>4
<1> QED BY <1>1, <1>2, <1>3, PTL DEF Spec
=============================================================================
