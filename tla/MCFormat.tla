------------------------------ MODULE MCFormat ------------------------------
(* Format for TLC: bytes with four values, names of one byte, of more bytes than a
   length of one byte can count, and of one more than a length of two can. *)
EXTENDS Format

HashBytes == <<2, 3>>
NameBytes == {<<1>>, [i \in 1..5 |-> i % 4], [i \in 1..16 |-> 1]}
=============================================================================
