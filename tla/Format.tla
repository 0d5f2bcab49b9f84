------------------------------- MODULE Format -------------------------------
(***************************************************************************)
(* The bytes of a tree and of a commit: serialize_tree, serialize_commit   *)
(* and their readers, with the fixed width big endian numbers of util.cpp. *)
(*                                                                         *)
(* An object is written, possibly loses its tail, and is read back entry   *)
(* by entry.  A reader knows only the count, the lengths and the flags it  *)
(* finds, so every one of them must fit what was written.  A byte has Base *)
(* values instead of 256 and a hash the length of Hash instead of 32, so   *)
(* that names past one byte and past the widest length are within reach.   *)
(***************************************************************************)
EXTENDS Naturals, Sequences, SequencesExt

CONSTANTS
  Base,        \* values of a byte
  Hash,        \* a hash: the bytes stand for themselves
  Names,       \* names of entries
  Times,       \* sizes and times
  MaxEntries   \* bound: entries of a tree

ASSUME FormatAssumption ==
  Base \in Nat \ {0, 1} /\ MaxEntries \in Nat /\ Times \subseteq Nat

VARIABLES
  kind,       \* "tree" or "commit"
  source,     \* what is serialized: the entries of a tree, or a commit
  data,       \* its bytes, as they come back
  written,    \* ghost: the number of bytes there were
  pc, offset, left, out       \* the reader; left: entries to read

vars == <<kind, source, data, written, pc, offset, left, out>>

Version == 1

(* An optional number is a set of at most one number. *)
Absent == {}
Just(v) == {v}

(* store_blob and add set both flags, the entry of a directory has a time only *)
File(n, s, t) == [type |-> 0, flags |-> 3, name |-> n, hash |-> Hash, size |-> Just(s),
                  mtime |-> Just(t)]
Dir(n, t)     == [type |-> 1, flags |-> 2, name |-> n, hash |-> Hash, size |-> Absent,
                  mtime |-> Just(t)]
Entries       == {File(n, s, t) : n \in Names, s \in Times, t \in Times}
                   \cup {Dir(n, t) : n \in Names, t \in Times}
Trees         == SeqOf(Entries, MaxEntries)
CommitOf(t)   == [commit_time |-> t, root_hash |-> Hash]
Commits       == {CommitOf(t) : t \in Times}

HasSize(flags)  == flags % 2 = 1
HasMtime(flags) == (flags \div 2) % 2 = 1

----------------------------------------------------------------------------
(* write_u16_be, write_u32_be and write_u64_be: the low `width` bytes of v *)
Bytes(width, v) == [k \in 1..width |-> (v \div Base^(width - k)) % Base]

Value(bytes) == FoldLeft(LAMBDA v, b : v * Base + b, 0, bytes)

Optional(present, number) == IF present THEN Bytes(8, CHOOSE v \in number : TRUE) ELSE <<>>

EntryBytes(e) ==
  <<e.type, e.flags>> \o Bytes(2, Len(e.name)) \o e.name \o e.hash
    \o Optional(HasSize(e.flags), e.size) \o Optional(HasMtime(e.flags), e.mtime)

TreeBytes(t)   == <<Version>> \o Bytes(4, Len(t)) \o FlattenSeq([i \in DOMAIN t |-> EntryBytes(t[i])])
CommitBytes(c) == <<Version>> \o Bytes(8, c.commit_time) \o c.root_hash

(* Mutant: the limit is not checked *)
NameTooLongUnchecked(t) == FALSE

(* entry name too long *)
NameTooLong(t) == \E i \in DOMAIN t : Len(t[i].name) >= Base * Base

----------------------------------------------------------------------------
IsTree == kind = "tree"

(* The other refusals, of 2^32 entries and of a flag without its number, take a tree that
   nobody builds. *)
Serialize ==
  /\ pc = "write"
  /\ IF IsTree /\ NameTooLong(source)
     THEN pc' = "refused" /\ UNCHANGED <<data, written>>
     ELSE /\ data' = IF IsTree THEN TreeBytes(source) ELSE CommitBytes(source)
          /\ written' = Len(data')
          /\ pc' = "store"
  /\ UNCHANGED <<kind, source, offset, left, out>>

(* What comes back is what was written, or a part of it *)
Retrieve ==
  /\ pc = "store"
  /\ \E n \in 0..Len(data) : data' = SubSeq(data, 1, n)
  /\ pc' = "header"
  /\ UNCHANGED <<kind, source, written, offset, left, out>>

At(from, n) == SubSeq(data, from + 1, from + n)
Fits(n)     == offset + n <= Len(data)
Throw       == pc' = "error" /\ UNCHANGED <<offset, left, out>>

(* deserialize_tree up to its loop *)
ReadHeader ==
  /\ pc = "header" /\ IsTree
  /\ IF ~Fits(5) \/ At(0, 1) # <<Version>> THEN Throw
     ELSE /\ offset' = 5 /\ left' = Value(At(1, 4)) /\ out' = <<>>
          /\ pc' = "entries"
  /\ UNCHANGED <<kind, source, data, written>>

(* Where the fields of the entry at offset start, once its first four bytes are there *)
NameLen == Value(At(offset + 2, 2))
Flags   == data[offset + 2]
HashAt  == offset + 4 + NameLen
SizeAt  == HashAt + Len(Hash)
MtimeAt == SizeAt + (IF HasSize(Flags) THEN 8 ELSE 0)
EntryEnd == MtimeAt + (IF HasMtime(Flags) THEN 8 ELSE 0)

(* The fields are read in order, each after its own check: all fit, or one throws *)
ReadEntry ==
  /\ pc = "entries" /\ left > 0
  /\ IF ~Fits(4) \/ EntryEnd > Len(data) THEN Throw
     ELSE /\ out' = Append(out,
               [type |-> data[offset + 1], flags |-> Flags, name |-> At(offset + 4, NameLen),
                hash |-> At(HashAt, Len(Hash)),
                size |-> IF HasSize(Flags) THEN Just(Value(At(SizeAt, 8))) ELSE Absent,
                mtime |-> IF HasMtime(Flags) THEN Just(Value(At(MtimeAt, 8))) ELSE Absent])
          /\ offset' = EntryEnd /\ left' = left - 1
          /\ UNCHANGED pc
  /\ UNCHANGED <<kind, source, data, written>>

(* Mutant: the loop ends with the data *)
LastEntryReadAtEnd ==
  /\ pc = "entries" /\ (left = 0 \/ offset = Len(data))
  /\ pc' = "done"
  /\ UNCHANGED <<kind, source, data, written, offset, left, out>>

(* The loop over count ends; what may follow is not looked at *)
LastEntryRead ==
  /\ pc = "entries" /\ left = 0
  /\ pc' = "done"
  /\ UNCHANGED <<kind, source, data, written, offset, left, out>>

(* deserialize_commit *)
ReadCommit ==
  /\ pc = "header" /\ ~IsTree
  /\ IF ~Fits(9 + Len(Hash)) \/ At(0, 1) # <<Version>> THEN Throw
     ELSE /\ out' = [commit_time |-> Value(At(1, 8)), root_hash |-> At(9, Len(Hash))]
          /\ offset' = 9 + Len(Hash)
          /\ pc' = "done" /\ UNCHANGED left
  /\ UNCHANGED <<kind, source, data, written>>

Init ==
  /\ \/ kind = "tree" /\ source \in Trees
     \/ kind = "commit" /\ source \in Commits
  /\ data = <<>> /\ written = 0 /\ pc = "write" /\ offset = 0 /\ left = 0 /\ out = <<>>

Next ==
  Serialize \/ Retrieve \/ ReadHeader \/ ReadEntry \/ LastEntryRead \/ ReadCommit

Spec == Init /\ [][Next]_vars

----------------------------------------------------------------------------
(* Properties *)

(* What was stored whole is read back as it was: every entry with its name, its hash
   and exactly the optional fields its flags announce. *)
RoundTrip ==
  pc \in {"done", "error"} /\ Len(data) = written => pc = "done" /\ out = source

(* What has lost its tail is refused, wherever the cut is: also between two entries. *)
CutIsRefused == pc = "done" => Len(data) = written
=============================================================================
