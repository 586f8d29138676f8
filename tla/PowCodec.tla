------------------------------- MODULE PowCodec -------------------------------
(***************************************************************************)
(* The conversions behind the mining loop in C (22051141, util.c and        *)
(* set_target of main.c): a hash to hexadecimal and back, which is how a    *)
(* block gets the hash of the one before it, the target in compact form,    *)
(* and the comparison of the two.  Numbers are least significant byte       *)
(* first.  Sizes are parameters: 16 values a digit, 32 bytes, words of 4.   *)
(* Left out: the end of string that btohs writes behind the digits, for     *)
(* which main.c's hashPrevBlock[64] has no room.                            *)
(***************************************************************************)
EXTENDS Integers, Sequences

CONSTANTS
  Hex,   \* the values of a hexadecimal digit: 16
  Size,  \* SHA256_BLOCK_SIZE: 32
  Word   \* sizeof(int): 4

Byte == 0 .. Hex * Hex - 1

(* btohs: the last byte first, two digits each. *)
btohs(bytes) ==
  [i \in 1 .. 2 * Len(bytes) |->
     LET b == bytes[Len(bytes) - (i - 1) \div 2] IN IF i % 2 = 1 THEN b \div Hex ELSE b % Hex]

(* Mutant of hstob: the digits of a byte in the order they are met. *)
hstobSwapped(digits) ==
  [k \in 1 .. Len(digits) \div 2 |->
     LET low == Len(digits) - 2 * (k - 1) IN digits[low] * Hex + digits[low - 1]]

(* hstob: from the last digit on, low digit and high digit of each byte. *)
hstob(digits) ==
  [k \in 1 .. Len(digits) \div 2 |->
     LET low == Len(digits) - 2 * (k - 1) IN digits[low] + digits[low - 1] * Hex]

(* set_target: bits are three bytes and, last, the place after the third.   *)
(* A place beyond the end leaves the target 0.                              *)
set_target(bits) ==
  LET place == bits[4]
  IN  [i \in 1 .. Size |-> IF place <= Size /\ i \in place - 2 .. place THEN bits[i - place + 3] ELSE 0]

(* The value of word w, counted from 1. *)
WordAt(x, w) ==
  LET value[n \in 0 .. Word] == IF n = 0 THEN 0 ELSE value[n - 1] * Hex * Hex + x[Word * w - n + 1]
  IN  value[Word]

(* Mutant of hex256cmp: the first word that differs decides. *)
hex256cmpFirst(x, y) ==
  LET differ == {w \in 1 .. Size \div Word : WordAt(x, w) # WordAt(y, w)}
      w      == CHOOSE v \in differ : \A u \in differ : v <= u
  IN  IF differ = {} THEN 0 ELSE IF WordAt(x, w) < WordAt(y, w) THEN -1 ELSE 1

(* hex256cmp: the last word that differs decides. *)
hex256cmp(x, y) ==
  LET differ == {w \in 1 .. Size \div Word : WordAt(x, w) # WordAt(y, w)}
      w      == CHOOSE v \in differ : \A u \in differ : u <= v
  IN  IF differ = {} THEN 0 ELSE IF WordAt(x, w) < WordAt(y, w) THEN -1 ELSE 1

-----------------------------------------------------------------------------
(* Properties *)

(* The number that the bytes x stand for. *)
Number(x) ==
  LET value[n \in 0 .. Len(x)] == IF n = 0 THEN 0 ELSE value[n - 1] * Hex * Hex + x[Len(x) - n + 1]
  IN  value[Len(x)]

(* A block gets, through hexadecimal, exactly the hash of the block before  *)
(* it (block_init, hstob, btohs).                                           *)
HashSurvives(x) == hstob(btohs(x)) = x

(* The loop of mine ends with a hash below the number that the compact form *)
(* stands for, mantissa * 256^(place - 3) (set_target, hex256cmp).          *)
MeetsTarget(x, bits) ==
  (hex256cmp(x, set_target(bits)) < 0)
    <=> (Number(x) < Number(SubSeq(bits, 1, 3)) * (Hex * Hex) ^ (bits[4] - 3))
=============================================================================
