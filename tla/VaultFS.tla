------------------------------ MODULE VaultFS ------------------------------
(***************************************************************************)
(* What a vault promises its user: a tree of directories and files in the  *)
(* cloud, and on every device the version its last command or sync left.   *)
(* A command changes one path of the device's own version and then         *)
(* publishes that version whole; nothing merges two versions.              *)
(***************************************************************************)
EXTENDS Naturals, Sequences, SequencesExt

CONSTANTS Device, Name, MaxDepth, File, NoHead, TornHead   \* File: identities, none of them 0

VARIABLES cloud, mine

Dir  == 0
Path == UNION {[1..k -> Name] : k \in 1..MaxDepth}

(* A version: the paths that exist, each a directory or a file *)
Has(v, p)    == p \in DOMAIN v
IsDir(v, p)  == Has(v, p) /\ v[p] = Dir
IsFile(v, p) == Has(v, p) /\ v[p] # Dir
Above(p)     == {q \in Path : IsStrictPrefix(q, p)}
Below(p)     == {q \in Path : IsStrictPrefix(p, q)}

(* Missing parents are created; a file on the way is an error *)
Reachable(v, p) == \A q \in Above(p) : ~IsFile(v, q)
Set(v, p, x) ==
  [q \in DOMAIN v \cup Above(p) \cup {p} |->
     IF q = p THEN x ELSE IF Has(v, q) THEN v[q] ELSE Dir]
Drop(v, S) == [q \in DOMAIN v \ S |-> v[q]]

(* Version v becomes w by a command on path p *)
AddFile(v, w, p) ==
  /\ Reachable(v, p) /\ ~IsDir(v, p)
  /\ IsFile(w, p) /\ w[p] \in File
  /\ w = Set(v, p, w[p])
MakeDir(v, w, p)    == Reachable(v, p) /\ ~Has(v, p) /\ w = Set(v, p, Dir)
RemoveFile(v, w, p) == IsFile(v, p) /\ w = Drop(v, {p})
RemoveDir(v, w, p)  == IsDir(v, p) /\ w = Drop(v, {p} \cup Below(p))

Become(d, v) == mine' = [mine EXCEPT ![d] = v] /\ UNCHANGED cloud
Known(d)     == mine[d] \notin {NoHead, TornHead}

Edit(d) ==
  /\ Known(d) /\ mine'[d] \notin {NoHead, TornHead}
  /\ \E v \in {mine[d]}, w \in {mine'[d]} :
       /\ \E p \in Path : \/ AddFile(v, w, p) \/ MakeDir(v, w, p)
                         \/ RemoveFile(v, w, p) \/ RemoveDir(v, w, p)
       /\ Become(d, w)

(* The device may find afterwards that it did not manage to keep what it published *)
Publish(d) ==
  /\ Known(d)
  /\ cloud' = mine[d]
  /\ mine' \in {mine, [mine EXCEPT ![d] = TornHead]}

Sync(d) == Become(d, cloud)

Lose(d) == \E lost \in {NoHead, TornHead} : Become(d, lost)

Init ==
  /\ cloud = <<>>
  /\ \E d \in Device : mine = [e \in Device |-> IF e = d THEN <<>> ELSE NoHead]

Next == \E d \in Device : Edit(d) \/ Publish(d) \/ Sync(d) \/ Lose(d)

Spec == Init /\ [][Next]_<<cloud, mine>>
=============================================================================
