---------------------------- MODULE Sha256Stream ----------------------------
(***************************************************************************)
(* Sha256 as a stream: update fills a 64 byte buffer, finalize pads it.    *)
(*                                                                         *)
(* The name of every object, the MAC of the password and the keys all go   *)
(* through this buffer, in updates of any length: the IV and then chunks   *)
(* of a file, a key pad and then a message.  One iteration of a loop is a  *)
(* step, so where an update ends makes no difference to the model.  What   *)
(* transform computes of a block is left out: the hash is a function of    *)
(* the blocks it was given, in order.                                      *)
(***************************************************************************)
EXTENDS Integers, Sequences

CONSTANTS Byte, MaxLen    \* the bytes of messages; bound: the length of a message

ASSUME StreamAssumption == Byte \subseteq 0..255 /\ MaxLen \in Nat

VARIABLES
  pc,         \* in update, or in which loop of finalize
  msg,        \* ghost: the bytes given to update so far
  buffer,     \* buffer_[0 .. buffer_len_ - 1]
  bitlen,     \* bitlen_
  hashed      \* what transform was given, block after block

vars == <<pc, msg, buffer, bitlen, hashed>>

BlockLen == 64
LengthAt == 56        \* where the length of the message starts in the last block

(* total_bits, most significant byte first: (total_bits >> 8 i) & 0xFF for i = 7 .. 0 *)

(* Mutant: least significant byte first *)
TwoBytesSwapped(n) == <<n % 256, (n \div 256) % 256>>

TwoBytes(n) == <<(n \div 256) % 256, n % 256>>
LengthBytes(bits) ==
  LET by16 == bits \div 65536
      by32 == by16 \div 65536
      by48 == by32 \div 65536
  IN  TwoBytes(by48) \o TwoBytes(by32) \o TwoBytes(by16) \o TwoBytes(bits)

TotalBits == bitlen + Len(buffer) * 8

(* transform(buffer_), and the buffer is empty again *)
Transform(block) == hashed' = hashed \o block /\ buffer' = <<>>

----------------------------------------------------------------------------
(* Mutant: bitlen_ is not kept *)
UpdateUncounted(b) ==
  /\ pc = "update"
  /\ Len(msg) < MaxLen
  /\ msg' = Append(msg, b)
  /\ IF Len(buffer) + 1 = BlockLen
     THEN Transform(Append(buffer, b))
     ELSE buffer' = Append(buffer, b) /\ UNCHANGED hashed
  /\ UNCHANGED <<pc, bitlen>>

(* One iteration of update *)
Update(b) ==
  /\ pc = "update"
  /\ Len(msg) < MaxLen
  /\ msg' = Append(msg, b)
  /\ IF Len(buffer) + 1 = BlockLen
     THEN Transform(Append(buffer, b)) /\ bitlen' = bitlen + 512
     ELSE buffer' = Append(buffer, b) /\ UNCHANGED <<bitlen, hashed>>
  /\ UNCHANGED pc

(* Mutant: one byte too many is thought to leave room for the length *)
FinalizeWide ==
  /\ pc = "update"
  /\ bitlen' = TotalBits
  /\ buffer' = Append(buffer, 128)
  /\ pc' = IF Len(buffer) > LengthAt THEN "fill" ELSE "pad"
  /\ UNCHANGED <<msg, hashed>>

(* finalize: total_bits (kept in bitlen from here on), the byte 0x80, and the
   question whether the length still fits behind it *)
Finalize ==
  /\ pc = "update"
  /\ bitlen' = TotalBits
  /\ buffer' = Append(buffer, 128)
  /\ pc' = IF Len(buffer) + 1 > LengthAt THEN "fill" ELSE "pad"
  /\ UNCHANGED <<msg, hashed>>

(* Fill the block, hash it, and start another *)
FillBlock ==
  /\ pc = "fill"
  /\ IF Len(buffer) < BlockLen
     THEN buffer' = Append(buffer, 0) /\ UNCHANGED <<pc, hashed>>
     ELSE Transform(buffer) /\ pc' = "pad"
  /\ UNCHANGED <<msg, bitlen>>

PadBlock ==
  /\ pc = "pad"
  /\ Len(buffer) < LengthAt
  /\ buffer' = Append(buffer, 0)
  /\ UNCHANGED <<pc, msg, bitlen, hashed>>

(* The eight bytes of the length, and the last block; the buffer keeps it *)
WriteLength ==
  /\ pc = "pad"
  /\ Len(buffer) >= LengthAt
  /\ buffer' = buffer \o LengthBytes(bitlen)
  /\ hashed' = hashed \o buffer'
  /\ pc' = "done"
  /\ UNCHANGED <<msg, bitlen>>

Init == pc = "update" /\ msg = <<>> /\ buffer = <<>> /\ bitlen = 0 /\ hashed = <<>>

Next ==
  \/ \E b \in Byte : Update(b)
  \/ Finalize \/ FillBlock \/ PadBlock \/ WriteLength

Spec == Init /\ [][Next]_vars

----------------------------------------------------------------------------
(* Properties *)

(* The types of the members; buffer_ is never written past its end, neither by the
   bytes of a message nor by the padding, and is empty or partly full between updates. *)
TypeOK ==
  /\ pc \in {"update", "fill", "pad", "done"}
  /\ msg \in Seq(Byte) /\ Len(msg) <= MaxLen
  /\ buffer \in Seq(0..255) /\ Len(buffer) <= BlockLen
  /\ pc = "update" => Len(buffer) < BlockLen
  /\ pc = "pad" => Len(buffer) <= LengthAt
  /\ bitlen \in Nat
  /\ hashed \in Seq(0..255)

(* FIPS 180-4, 5.1.1: the message, the bit 1, the least number of zeros that fills
   the last block, and the length of the message in bits *)
Zeros(k)   == [i \in 1..k |-> 0]
ZerosTo(n) == CHOOSE k \in 0..63 : (n + 1 + k + 8) % BlockLen = 0
Padded(m)  == m \o <<128>> \o Zeros(ZerosTo(Len(m))) \o LengthBytes(8 * Len(m))

(* Whatever the length of the message and the updates it came in (55, 56 and 64 bytes
   in the buffer are where the padding changes), what is hashed is the padded message. *)
HashesPadded == pc = "done" => hashed = Padded(msg)

(* Eight bytes as a reader of the padded message decodes them, most significant first *)
Word(b, i)  == 256 * b[i] + b[i + 1]
ReadBack(b) == ((Word(b, 1) * 65536 + Word(b, 3)) * 65536 + Word(b, 5)) * 65536 + Word(b, 7)

(* The last eight bytes that are hashed are the length of the message in bits: the
   byte order of finalize's loop, and that bitlen_ has counted every block. *)
LengthReadsBack ==
  pc = "done" => ReadBack(SubSeq(hashed, Len(hashed) - 7, Len(hashed))) = 8 * Len(msg)

(* A block of a message is hashed as soon as it is full, and once. *)
NothingHeldBack == pc = "update" => hashed \o buffer = msg /\ bitlen = 8 * Len(hashed)
=============================================================================
