------------------------- MODULE Sha256StreamProofs -------------------------
(***************************************************************************)
(* For messages of any length: buffer_ is never written past its end, and  *)
(* what is hashed is the padded message of FIPS 180-4.                     *)
(*                                                                         *)
(* The invariant says how hashed and buffer together make up the message   *)
(* and the padding written so far.  The zeros are as few as possible, as   *)
(* at most 7 are added to fill a block and at most 56 in the next.         *)
(***************************************************************************)
EXTENDS Sha256Stream, SequenceTheorems, TLAPS

Octet  == 0..255
Done   == hashed \o buffer              \* what has been hashed or is about to be
Filled == Len(Done) - Len(msg) - 1      \* the zeros added so far

Whole == Len(hashed) % BlockLen = 0

Absorbing == pc = "update" => Done = msg /\ bitlen = 8 * Len(hashed)

Padding ==
  pc \in {"fill", "pad"} =>
    /\ Filled \in Nat
    /\ Done = msg \o <<128>> \o Zeros(Filled)
    /\ bitlen = 8 * Len(msg)
    /\ pc = "fill" => Filled + LengthAt < Len(buffer)
    /\ pc = "pad" => Filled <= Len(buffer) + 7

Inv == TypeOK /\ Whole /\ Absorbing /\ Padding /\ HashesPadded

----------------------------------------------------------------------------
(* Sequences of octets *)

(* Numbers, for lengths: the provers reason better about a variable *)
LEMMA InRange == ASSUME NEW n \in Nat, NEW m \in Nat, n <= m PROVE n \in 0..m
  OBVIOUS

LEMMA Squeezed == ASSUME NEW n \in Nat, NEW m \in Nat, n <= m, ~(n < m) PROVE n = m
  OBVIOUS

LEMMA Joined ==
  ASSUME NEW s \in Seq(Octet), NEW t \in Seq(Octet)
  PROVE  s \o t \in Seq(Octet) /\ Len(s \o t) = Len(s) + Len(t)
  BY ConcatProperties

LEMMA Appended ==
  ASSUME NEW s \in Seq(Octet), NEW b \in Octet
  PROVE  Append(s, b) \in Seq(Octet) /\ Len(Append(s, b)) = Len(s) + 1
  BY AppendProperties

LEMMA ZerosAreOctets ==
  ASSUME NEW k \in Nat
  PROVE  /\ Zeros(k) \in Seq(Octet) /\ Len(Zeros(k)) = k
         /\ \A i \in 1..k : Zeros(k)[i] = 0
  BY DEF Zeros, Octet

LEMMA OneMoreZero ==
  ASSUME NEW k \in Nat
  PROVE  Append(Zeros(k), 0) = Zeros(k + 1)
<1>1. Append(Zeros(k), 0) \in Seq(Octet) /\ Len(Append(Zeros(k), 0)) = k + 1
  BY ZerosAreOctets DEF Octet
<1>2. \A i \in 1..(k + 1) : Append(Zeros(k), 0)[i] = 0
  BY ZerosAreOctets DEF Octet
<1>3. Zeros(k + 1) \in Seq(Octet) /\ Len(Zeros(k + 1)) = k + 1
  BY ZerosAreOctets
<1>4. \A i \in 1..(k + 1) : Zeros(k + 1)[i] = 0
  BY ZerosAreOctets
<1> QED  BY <1>1, <1>2, <1>3, <1>4, SeqEqual

LEMMA ConcatAppend ==
  ASSUME NEW s \in Seq(Octet), NEW t \in Seq(Octet), NEW b \in Octet
  PROVE  s \o Append(t, b) = Append(s \o t, b)
<1>1. Append(t, b) = t \o <<b>> /\ Append(s \o t, b) = (s \o t) \o <<b>>
  BY AppendIsConcat, ConcatProperties
<1>2. <<b>> \in Seq(Octet)
  OBVIOUS
<1> QED  BY <1>1, <1>2, ConcatAssociative

LEMMA LengthBytesAreOctets ==
  ASSUME NEW n \in Nat
  PROVE  LengthBytes(n) \in Seq(Octet) /\ Len(LengthBytes(n)) = 8
<1>1. \A k \in Nat : TwoBytes(k) \in Seq(Octet) /\ Len(TwoBytes(k)) = 2
  BY DEF TwoBytes, Octet
<1>2. DEFINE by16 == n \div 65536
             by32 == by16 \div 65536
             by48 == by32 \div 65536
<1>3. by16 \in Nat
  OBVIOUS
<1>4. by32 \in Nat
  BY <1>3
<1>5. by48 \in Nat
  BY <1>4
<1>6. LengthBytes(n) = TwoBytes(by48) \o TwoBytes(by32) \o TwoBytes(by16) \o TwoBytes(n)
  BY DEF LengthBytes
<1> HIDE DEF by16, by32, by48
<1>7. DEFINE b48 == TwoBytes(by48)
             b32 == TwoBytes(by32)
             b16 == TwoBytes(by16)
             b0  == TwoBytes(n)
<1>8. /\ b48 \in Seq(Octet) /\ b32 \in Seq(Octet) /\ b16 \in Seq(Octet) /\ b0 \in Seq(Octet)
      /\ Len(b48) = 2 /\ Len(b32) = 2 /\ Len(b16) = 2 /\ Len(b0) = 2
  BY <1>1, <1>3, <1>4, <1>5
<1> HIDE DEF b48, b32, b16, b0
<1>9. b48 \o b32 \in Seq(Octet) /\ Len(b48 \o b32) = Len(b48) + Len(b32)
  BY <1>8, Joined
<1>10. /\ b48 \o b32 \o b16 \in Seq(Octet)
       /\ Len(b48 \o b32 \o b16) = Len(b48 \o b32) + Len(b16)
  BY <1>8, <1>9, Joined
<1>11. LengthBytes(n) = b48 \o b32 \o b16 \o b0
  BY <1>6 DEF b48, b32, b16, b0
<1>12. /\ b48 \o b32 \o b16 \o b0 \in Seq(Octet)
       /\ Len(b48 \o b32 \o b16 \o b0) = Len(b48 \o b32 \o b16) + Len(b0)
  BY <1>8, <1>10, Joined
<1> QED  BY <1>8, <1>9, <1>10, <1>11, <1>12

(* There is only one number of zeros below a block that fills the last block. *)
LEMMA FewestZeros ==
  ASSUME NEW n \in Nat, NEW k \in 0..63, (n + 1 + k + 8) % BlockLen = 0
  PROVE  ZerosTo(n) = k
<1>1. ASSUME NEW j \in 0..63, (n + 1 + j + 8) % BlockLen = 0
      PROVE  j = k
  BY <1>1 DEF BlockLen
<1> QED  BY <1>1 DEF ZerosTo

(* ... and there is one. *)
LEMMA SomeZeros ==
  ASSUME NEW n \in Nat
  PROVE  ZerosTo(n) \in 0..63
<1> DEFINE k == (64 - ((n + 9) % 64)) % 64
<1>1. k \in 0..63 /\ (n + 1 + k + 8) % BlockLen = 0
  BY DEF BlockLen
<1> QED  BY <1>1 DEF ZerosTo

----------------------------------------------------------------------------
LEMMA InvInit == Init => Inv
<1> SUFFICES ASSUME Init PROVE Inv
  OBVIOUS
<1>1. <<>> \in Seq(Byte) /\ <<>> \in Seq(0..255) /\ Len(<<>>) = 0 /\ <<>> \o <<>> = <<>>
  BY EmptySeq, ConcatEmptySeq
<1> QED  BY <1>1, StreamAssumption
         DEF Init, Inv, TypeOK, Whole, Absorbing, Padding, HashesPadded, Done, BlockLen

(* The lengths every step needs *)
LEMMA Lengths ==
  ASSUME Inv
  PROVE  /\ Len(buffer) \in 0..BlockLen /\ Len(hashed) \in Nat /\ Len(msg) \in Nat
         /\ msg \in Seq(Octet) /\ buffer \in Seq(Octet) /\ hashed \in Seq(Octet)
         /\ Done \in Seq(Octet) /\ Len(Done) = Len(hashed) + Len(buffer)
<1>1. msg \in Seq(Octet) /\ buffer \in Seq(Octet) /\ hashed \in Seq(Octet)
  <2>1. msg \in Seq(Byte) /\ buffer \in Seq(Octet) /\ hashed \in Seq(Octet)
    BY DEF Inv, TypeOK, Octet
  <2>2. Byte \subseteq Octet
    BY StreamAssumption DEF Octet
  <2> QED  BY <2>1, <2>2, SeqMonotonic
<1>2. Len(buffer) \in Nat /\ Len(hashed) \in Nat /\ Len(msg) \in Nat
  BY <1>1, LenProperties
<1>3. Len(buffer) <= BlockLen
  BY DEF Inv, TypeOK
<1>4. hashed \o buffer \in Seq(Octet) /\ Len(hashed \o buffer) = Len(hashed) + Len(buffer)
  BY <1>1, Joined
<1>5. Done \in Seq(Octet) /\ Len(Done) = Len(hashed) + Len(buffer)
  BY <1>4 DEF Done
<1>6. Len(buffer) \in 0..BlockLen
  <2>1. BlockLen \in Nat
    BY DEF BlockLen
  <2> QED  BY <1>2, <1>3, <2>1, InRange
<1> QED  BY <1>1, <1>2, <1>5, <1>6

LEMMA UpdateInv == ASSUME Inv, NEW b \in Byte, Update(b) PROVE Inv'
<1> USE DEF BlockLen, LengthAt
<1>1. b \in Octet /\ pc = "update" /\ pc' = "update" /\ msg' = Append(msg, b)
  BY StreamAssumption DEF Update, Octet
<1>2. Done = msg /\ bitlen = 8 * Len(hashed)
  BY <1>1 DEF Inv, Absorbing
<1>3. /\ Append(buffer, b) \in Seq(Octet) /\ Len(Append(buffer, b)) = Len(buffer) + 1
      /\ hashed \o Append(buffer, b) = Append(Done, b)
  BY <1>1, Lengths, ConcatAppend, Appended DEF Done
<1>4. msg' \in Seq(Byte) /\ Len(msg') <= MaxLen
  BY <1>1, Lengths, Appended, StreamAssumption DEF Update, Inv, TypeOK
<1>5. CASE Len(buffer) + 1 = BlockLen
  <2>1. hashed' = hashed \o Append(buffer, b) /\ buffer' = <<>> /\ bitlen' = bitlen + 512
    BY <1>5 DEF Update, Transform
  <2>2. hashed' \in Seq(Octet) /\ Len(hashed') = Len(hashed) + 64
    BY <1>3, <1>5, <2>1, Lengths, Joined
  <2>3. Done' = msg' /\ bitlen' = 8 * Len(hashed')
    BY <1>1, <1>2, <1>3, <2>1, <2>2, Lengths, ConcatEmptySeq DEF Done
  <2>4. Whole'
    BY <2>2, Lengths DEF Inv, Whole
  <2> QED  BY <1>1, <1>4, <2>1, <2>2, <2>3, <2>4, Lengths, EmptySeq
           DEF Inv, TypeOK, Absorbing, Padding, HashesPadded, Octet
<1>6. CASE Len(buffer) + 1 # BlockLen
  <2>1. hashed' = hashed /\ buffer' = Append(buffer, b) /\ bitlen' = bitlen
    BY <1>6 DEF Update
  <2>2. Done' = msg' /\ bitlen' = 8 * Len(hashed')
    BY <1>1, <1>2, <1>3, <2>1 DEF Done
  <2>3. Len(buffer') < BlockLen
    BY <1>1, <1>3, <1>6, <2>1, Lengths DEF Inv, TypeOK
  <2> QED  BY <1>1, <1>3, <1>4, <2>1, <2>2, <2>3, Lengths
           DEF Inv, TypeOK, Whole, Absorbing, Padding, HashesPadded, Octet
<1> QED  BY <1>5, <1>6

LEMMA FinalizeInv == ASSUME Inv, Finalize PROVE Inv'
<1> USE DEF BlockLen, LengthAt
<1>1. /\ pc = "update" /\ msg' = msg /\ hashed' = hashed /\ buffer' = Append(buffer, 128)
      /\ bitlen' = bitlen + Len(buffer) * 8
      /\ pc' = IF Len(buffer) + 1 > LengthAt THEN "fill" ELSE "pad"
  BY DEF Finalize, TotalBits
<1>2. Done = msg /\ bitlen = 8 * Len(hashed) /\ Len(buffer) < BlockLen
  BY <1>1 DEF Inv, TypeOK, Absorbing
<1>3. 128 \in Octet /\ <<128>> \in Seq(Octet) /\ Len(<<128>>) = 1
  BY DEF Octet
<1>4. buffer' \in Seq(Octet) /\ Len(buffer') = Len(buffer) + 1
  BY <1>1, <1>3, Lengths, Appended
<1>5. Done' = Append(msg, 128)
  <2>1. hashed \o Append(buffer, 128) = Append(hashed \o buffer, 128)
    BY <1>3, Lengths, ConcatAppend
  <2> QED  BY <1>1, <1>2, <2>1 DEF Done
<1>11. Len(Done') = Len(msg) + 1
  BY <1>3, <1>5, Lengths, Appended
<1>6. Filled' = 0
  BY <1>1, <1>11, Lengths DEF Filled
<1>7. Zeros(0) = <<>>
  BY ZerosAreOctets, EmptySeq
<1>8. msg \o <<128>> \o Zeros(0) = Append(msg, 128)
  BY <1>3, <1>7, Lengths, AppendIsConcat, ConcatEmptySeq, Joined
<1>9. bitlen' = 8 * Len(msg')
  BY <1>1, <1>2, Lengths
<1>10. Padding'
  <2>1. Done' = msg' \o <<128>> \o Zeros(Filled')
    BY <1>1, <1>5, <1>6, <1>8
  <2>2. pc' = "fill" => Filled' + 56 < Len(buffer')
    <3>1. pc' = "fill" => Len(buffer) + 1 > 56
      BY <1>1
    <3> QED  BY <3>1, <1>4, <1>6, Lengths
  <2>3. pc' = "pad" => Filled' <= Len(buffer') + 7
    BY <1>4, <1>6, Lengths
  <2> QED  BY <1>6, <1>9, <2>1, <2>2, <2>3 DEF Padding
<1> QED  BY <1>1, <1>2, <1>4, <1>9, <1>10, Lengths
         DEF Inv, TypeOK, Whole, Absorbing, HashesPadded, Octet

(* One more zero in the buffer: both loops of finalize *)
LEMMA AddZero ==
  ASSUME Inv, pc \in {"fill", "pad"}, Len(buffer) < BlockLen, pc' = pc,
         buffer' = Append(buffer, 0), UNCHANGED <<msg, bitlen, hashed>>,
         pc = "pad" => Len(buffer) < LengthAt
  PROVE  Inv'
<1> USE DEF BlockLen, LengthAt
<1>1. /\ Filled \in Nat /\ Done = msg \o <<128>> \o Zeros(Filled) /\ bitlen = 8 * Len(msg)
      /\ pc = "fill" => Filled + LengthAt < Len(buffer)
      /\ pc = "pad" => Filled <= Len(buffer) + 7
  BY DEF Inv, Padding
<1>2. 0 \in Octet /\ <<128>> \in Seq(Octet)
  BY DEF Octet
<1>3. buffer' \in Seq(Octet) /\ Len(buffer') = Len(buffer) + 1
  BY <1>2, Lengths, Appended
<1>4. Done' = Append(Done, 0) /\ Len(Done') = Len(Done) + 1
  <2>1. hashed \o Append(buffer, 0) = Append(hashed \o buffer, 0)
    BY <1>2, Lengths, ConcatAppend
  <2>2. Done' = Append(Done, 0)
    BY <2>1 DEF Done
  <2> QED  BY <1>2, <2>2, Lengths, Appended
<1>5. Filled' = Filled + 1
  BY <1>4, Lengths DEF Filled
<1>6. msg \o <<128>> \in Seq(Octet)
  BY <1>2, Lengths, Joined
<1>7. Append(msg \o <<128>> \o Zeros(Filled), 0) = msg \o <<128>> \o Append(Zeros(Filled), 0)
  <2> DEFINE front == msg \o <<128>>
             zeros == Zeros(Filled)
  <2>1. front \in Seq(Octet) /\ zeros \in Seq(Octet) /\ 0 \in Octet
    BY <1>1, <1>2, <1>6, ZerosAreOctets
  <2> HIDE DEF front, zeros
  <2>2. front \o Append(zeros, 0) = Append(front \o zeros, 0)
    BY ONLY <2>1, ConcatAppend
  <2> QED  BY <2>2 DEF front, zeros
<1>8. Done' = msg' \o <<128>> \o Zeros(Filled')
  BY <1>1, <1>4, <1>5, <1>7, OneMoreZero
<1>9. Padding'
  <2>1. Filled' \in Nat
    BY <1>1, <1>5
  <2>2. pc' = "fill" => Filled' + 56 < Len(buffer')
    BY <1>1, <1>3, <1>5, Lengths
  <2>3. pc' = "pad" => Filled' <= Len(buffer') + 7
    BY <1>1, <1>3, <1>5, Lengths
  <2>4. bitlen' = 8 * Len(msg')
    BY <1>1
  <2> QED  BY <1>8, <2>1, <2>2, <2>3, <2>4 DEF Padding
<1>10. TypeOK'
  BY <1>3, Lengths DEF Inv, TypeOK, Octet
<1> QED  BY <1>9, <1>10 DEF Inv, Whole, Absorbing, HashesPadded

LEMMA FillBlockInv == ASSUME Inv, FillBlock PROVE Inv'
<1> USE DEF BlockLen, LengthAt
<1>1. CASE Len(buffer) < BlockLen
  BY <1>1, AddZero DEF FillBlock
<1>2. CASE ~(Len(buffer) < BlockLen)
  <2>1. /\ pc = "fill" /\ pc' = "pad" /\ hashed' = Done /\ buffer' = <<>>
        /\ msg' = msg /\ bitlen' = bitlen
    BY <1>2 DEF FillBlock, Transform, Done
  <2>2. Len(buffer) = 64
    <3>1. Len(buffer) <= 64 /\ Len(buffer) \in Nat
      BY Lengths DEF Inv, TypeOK
    <3> QED  BY <1>2, <3>1, Squeezed
  <2>7. Len(hashed') = Len(hashed) + 64
    <3>1. Len(hashed') = Len(Done)
      BY <2>1
    <3> QED  BY <2>2, <3>1, Lengths
  <2>8. Len(buffer') = 0
    BY <2>1
  <2>3. Done' = Done
    BY <2>1, Lengths, ConcatEmptySeq DEF Done
  <2>4. Filled' = Filled
    BY <2>1, <2>3 DEF Filled
  <2>5. Padding'
    <3>1. /\ Filled \in Nat /\ Done = msg \o <<128>> \o Zeros(Filled) /\ bitlen = 8 * Len(msg)
          /\ Filled + 56 < Len(buffer)
      BY <2>1 DEF Inv, Padding
    <3>2. Filled' <= Len(buffer') + 7
      BY <3>1, <2>2, <2>4, <2>8
    <3> QED  BY <2>1, <2>3, <2>4, <3>1, <3>2 DEF Padding
  <2>6. Whole'
    BY <2>7, Lengths DEF Inv, Whole
  <2> QED  BY <2>1, <2>8, <2>5, <2>6, Lengths, EmptySeq
           DEF Inv, TypeOK, Absorbing, HashesPadded, Octet
<1> QED  BY <1>1, <1>2

LEMMA PadBlockInv == ASSUME Inv, PadBlock PROVE Inv'
<1>1. Len(buffer) < BlockLen
  BY Lengths DEF PadBlock, LengthAt, BlockLen
<1> QED  BY <1>1, AddZero DEF PadBlock

LEMMA WriteLengthInv == ASSUME Inv, WriteLength PROVE Inv'
<1> USE DEF BlockLen, LengthAt
<1>1. /\ pc = "pad" /\ pc' = "done" /\ hashed' = hashed \o (buffer \o LengthBytes(bitlen))
      /\ buffer' = buffer \o LengthBytes(bitlen) /\ msg' = msg /\ bitlen' = bitlen
  BY DEF WriteLength
<1>10. Len(buffer) = 56
  <2>1. Len(buffer) <= 56 /\ Len(buffer) \in Nat
    BY <1>1, Lengths DEF Inv, TypeOK
  <2>2. ~(Len(buffer) < 56)
    BY <2>1 DEF WriteLength
  <2> QED  BY <2>1, <2>2, Squeezed
<1>2. /\ Filled \in Nat /\ Done = msg \o <<128>> \o Zeros(Filled) /\ bitlen = 8 * Len(msg)
      /\ Filled <= Len(buffer) + 7
  BY <1>1 DEF Inv, Padding
<1>3. LengthBytes(bitlen) \in Seq(Octet) /\ Len(LengthBytes(bitlen)) = 8
  BY LengthBytesAreOctets DEF Inv, TypeOK
<1>4. hashed' = Done \o LengthBytes(bitlen)
  <2>1. (hashed \o buffer) \o LengthBytes(bitlen) = hashed \o (buffer \o LengthBytes(bitlen))
    <3>1. hashed \in Seq(Octet) /\ buffer \in Seq(Octet) /\ LengthBytes(bitlen) \in Seq(Octet)
      BY <1>3, Lengths
    <3> QED  BY ONLY <3>1, ConcatAssociative
  <2> QED  BY <1>1, <2>1 DEF Done
<1>5. hashed' \in Seq(Octet) /\ Len(hashed') = Len(hashed) + 64
  <2>1. hashed' \in Seq(Octet) /\ Len(hashed') = Len(Done) + Len(LengthBytes(bitlen))
    BY <1>3, <1>4, Lengths, Joined
  <2> QED  BY <1>3, <1>10, <2>1, Lengths
<1>6. Len(msg) + 1 + Filled + 8 = Len(hashed) + 64
  <2>1. Len(Done) = Len(hashed) + 56
    BY <1>10, Lengths
  <2> QED  BY <2>1, Lengths DEF Filled
<1>7. ZerosTo(Len(msg)) = Filled
  <2>1. (Len(msg) + 1 + Filled + 8) % BlockLen = 0
    BY <1>6, Lengths DEF Inv, Whole
  <2>2. Filled \in 0..63
    BY <1>2, <1>10
  <2> QED  BY <2>1, <2>2, Lengths, FewestZeros
<1>8. HashesPadded'
  BY <1>1, <1>2, <1>4, <1>7 DEF HashesPadded, Padded
<1>9. Whole'
  BY <1>5, Lengths DEF Inv, Whole
<1>11. buffer' \in Seq(Octet) /\ Len(buffer') = 64
  <2>1. buffer \in Seq(Octet)
    BY Lengths
  <2>2. /\ buffer \o LengthBytes(bitlen) \in Seq(Octet)
        /\ Len(buffer \o LengthBytes(bitlen)) = Len(buffer) + Len(LengthBytes(bitlen))
    BY <1>3, <2>1, Joined
  <2> QED  BY <1>1, <1>3, <1>10, <2>2
<1> QED  BY <1>1, <1>5, <1>8, <1>9, <1>11, Lengths
         DEF Inv, TypeOK, Absorbing, Padding, Octet

LEMMA InvStep == ASSUME Inv, [Next]_vars PROVE Inv'
<1>1. ASSUME NEW b \in Byte, Update(b) PROVE Inv'
  BY <1>1, UpdateInv
<1>2. CASE Finalize
  BY <1>2, FinalizeInv
<1>3. CASE FillBlock
  BY <1>3, FillBlockInv
<1>4. CASE PadBlock
  BY <1>4, PadBlockInv
<1>5. CASE WriteLength
  BY <1>5, WriteLengthInv
<1>6. CASE UNCHANGED vars
  BY <1>6 DEF vars, Inv, TypeOK, Whole, Absorbing, Padding, HashesPadded, Done, Filled
<1> QED  BY <1>1, <1>2, <1>3, <1>4, <1>5, <1>6 DEF Next

THEOREM StreamInvariance == Spec => []Inv
<1> QED  BY InvInit, InvStep, PTL DEF Spec

(* buffer_ is never written past its end, for messages of any length. *)
THEOREM BufferBounded == Spec => []TypeOK
<1>1. Inv => TypeOK
  BY DEF Inv
<1> QED  BY <1>1, StreamInvariance, PTL

(* What is hashed is the padded message of FIPS 180-4. *)
THEOREM PaddingCorrect == Spec => []HashesPadded
<1>1. Inv => HashesPadded
  BY DEF Inv
<1> QED  BY <1>1, StreamInvariance, PTL

(* Between updates, what was hashed and what is buffered are the message. *)
THEOREM StreamComplete == Spec => []NothingHeldBack
<1>1. Inv => NothingHeldBack
  BY DEF Inv, Absorbing, NothingHeldBack, Done
<1> QED  BY <1>1, StreamInvariance, PTL

----------------------------------------------------------------------------
(* The length at the end of the last block *)

LEMMA WordOfTwoBytes ==
  ASSUME NEW k \in Nat
  PROVE  256 * ((k \div 256) % 256) + (k % 256) = k % 65536
  OBVIOUS

(* The words of a number of 64 bits, from the most significant *)
LEMMA FourWords ==
  ASSUME NEW n \in Nat, n < 65536 * 65536 * 65536 * 65536,
         NEW a, a = n \div 65536, NEW b, b = a \div 65536, NEW c, c = b \div 65536
  PROVE  /\ a \in Nat /\ b \in Nat /\ c \in Nat
         /\ (((c % 65536) * 65536 + (b % 65536)) * 65536 + (a % 65536)) * 65536 + (n % 65536) = n
<1>1. a \in Nat /\ a < 65536 * 65536 * 65536 /\ a * 65536 + (n % 65536) = n
  OBVIOUS
<1>2. b \in Nat /\ b < 65536 * 65536 /\ b * 65536 + (a % 65536) = a
  BY <1>1
<1>3. c \in Nat /\ c < 65536 /\ c * 65536 + (b % 65536) = b
  BY <1>2
<1>4. c % 65536 = c
  BY <1>3
<1> QED BY ONLY <1>1, <1>2, <1>3, <1>4

LEMMA LengthBytesReadBack ==
  ASSUME NEW n \in Nat, n < 65536 * 65536 * 65536 * 65536
  PROVE  ReadBack(LengthBytes(n)) = n
<1> DEFINE a == n \div 65536
           b == a \div 65536
           c == b \div 65536
           s == TwoBytes(c) \o TwoBytes(b) \o TwoBytes(a) \o TwoBytes(n)
<1>1. /\ a \in Nat /\ b \in Nat /\ c \in Nat
      /\ (((c % 65536) * 65536 + (b % 65536)) * 65536 + (a % 65536)) * 65536 + (n % 65536) = n
  BY FourWords
<1>2. LengthBytes(n) = s
  BY DEF LengthBytes
<1> HIDE DEF a, b, c
<1>3. /\ Word(s, 1) = 256 * ((c \div 256) % 256) + (c % 256)
      /\ Word(s, 3) = 256 * ((b \div 256) % 256) + (b % 256)
      /\ Word(s, 5) = 256 * ((a \div 256) % 256) + (a % 256)
      /\ Word(s, 7) = 256 * ((n \div 256) % 256) + (n % 256)
  BY DEF Word, TwoBytes
<1> HIDE DEF s
<1>4. /\ Word(s, 1) = c % 65536 /\ Word(s, 3) = b % 65536
      /\ Word(s, 5) = a % 65536 /\ Word(s, 7) = n % 65536
  BY <1>1, <1>3, WordOfTwoBytes
<1> QED BY <1>1, <1>2, <1>4 DEF ReadBack

LEMMA LastEight ==
  ASSUME NEW s \in Seq(Octet), NEW t \in Seq(Octet), Len(t) = 8
  PROVE  SubSeq(s \o t, Len(s \o t) - 7, Len(s \o t)) = t
<1>1. s \o t \in Seq(Octet) /\ Len(s \o t) = Len(s) + 8 /\ Len(s) \in Nat
  <2>1. s \o t \in Seq(Octet) /\ Len(s \o t) = Len(s) + Len(t)
    BY Joined
  <2> QED BY <2>1, LenProperties
<1> QED BY <1>1

(* bitlen_ is a 64 bit number. *)
LengthFits == 8 * MaxLen < 65536 * 65536 * 65536 * 65536

(* Whoever reads the last eight bytes of what is hashed, most significant first, gets
   the length of the message in bits: for messages whose length fits 64 bits. *)
THEOREM LengthDecodes == LengthFits => (Spec => []LengthReadsBack)
<1> SUFFICES ASSUME LengthFits PROVE Spec => []LengthReadsBack
  OBVIOUS
<1>1. ASSUME Inv, pc = "done"
      PROVE  ReadBack(SubSeq(hashed, Len(hashed) - 7, Len(hashed))) = 8 * Len(msg)
  <2> DEFINE n == 8 * Len(msg)
             s == msg \o <<128>> \o Zeros(ZerosTo(Len(msg)))
  <2>1. Len(msg) \in Nat /\ Len(msg) <= MaxLen /\ msg \in Seq(Octet)
    BY <1>1, Lengths DEF Inv, TypeOK
  <2>2. n \in Nat /\ n < 65536 * 65536 * 65536 * 65536
    BY <2>1, StreamAssumption DEF LengthFits
  <2>3. hashed = s \o LengthBytes(n)
    BY <1>1 DEF Inv, HashesPadded, Padded
  <2>4. LengthBytes(n) \in Seq(Octet) /\ Len(LengthBytes(n)) = 8
    BY <2>2, LengthBytesAreOctets
  <2>5. s \in Seq(Octet)
    <3>1. PICK k \in Nat : k = ZerosTo(Len(msg))
      BY <2>1, SomeZeros
    <3>2. Zeros(k) \in Seq(Octet)
      BY ZerosAreOctets
    <3>3. <<128>> \in Seq(Octet)
      BY DEF Octet
    <3>4. msg \o <<128>> \in Seq(Octet)
      BY <2>1, <3>3, Joined
    <3> QED BY <3>1, <3>2, <3>4, Joined
  <2> HIDE DEF n, s
  <2>6. SubSeq(hashed, Len(hashed) - 7, Len(hashed)) = LengthBytes(n)
    BY <2>3, <2>4, <2>5, LastEight
  <2> QED BY <2>2, <2>6, LengthBytesReadBack DEF n
<1>2. Inv => LengthReadsBack
  BY <1>1 DEF LengthReadsBack
<1> QED BY <1>2, StreamInvariance, PTL
=============================================================================
