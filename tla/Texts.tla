------------------------------- MODULE Texts -------------------------------
(***************************************************************************)
(* Strings and numbers as the decoder and the adapter share them: an       *)
(* integer attribute is printed by one and parsed by the other.            *)
(*                                                                         *)
(* A byte has ByteBits bits and a word still has eight bytes, so that an   *)
(* integer fits TLC.  A string is a sequence of bytes: digits are the      *)
(* bytes below Radix, the last three bytes a letter and the two signs.     *)
(***************************************************************************)
EXTENDS Integers, SequencesExt, FiniteSetsExt

CONSTANTS
  ByteBits,        \* 8 in the program
  Radix            \* of the digits of a number; 10 in the program

ASSUME TextAssumption ==
  /\ ByteBits \in Nat /\ ByteBits >= 3
  /\ Radix \in 2 .. 2 ^ ByteBits - 3

ByteBase == 2 ^ ByteBits
Word == ByteBase ^ 8          \* one more than u64::MAX
Absent == -1                  \* None of an Option<u64>

Letter == ByteBase - 3
Minus == ByteBase - 2
Plus == ByteBase - 1

(* i.to_string() *)
Decimal(i) ==
  LET size == IF i < 0 THEN -i ELSE i
      n == CHOOSE k \in 1 .. 8 * ByteBits :
             size < Radix ^ k /\ (k > 1 => size >= Radix ^ (k - 1))
      digits == [k \in 1 .. n |-> (size \div Radix ^ (n - k)) % Radix]
  IN IF i < 0 THEN <<Minus>> \o digits ELSE digits

(* hex::encode: two digits for every byte. *)
HexEncode(bytes) ==
  LET base == Min({b \in 1 .. ByteBase : b * b >= ByteBase})
  IN FlattenSeq([k \in DOMAIN bytes |-> <<bytes[k] \div base, bytes[k] % base>>])

(* s.parse::<u64>().ok() *)
ParseU64(s) ==
  LET digits == IF s # <<>> /\ s[1] = Plus THEN Tail(s) ELSE s
      number == FoldLeft(LAMBDA n, d : n * Radix + d, 0, digits)
  IN IF digits # <<>> /\ (\A k \in DOMAIN digits : digits[k] < Radix) /\ number < Word
     THEN number ELSE Absent
=============================================================================
