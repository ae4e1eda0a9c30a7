------------------------------- MODULE Memory -------------------------------
(***************************************************************************)
(* The data the interpreter computes with: bytes, 32-bit words in two's    *)
(* complement, and the little-endian accesses that interpret.cc makes with *)
(* reinterpret_cast on the flat 4 GiB mapping that main.cc allocates.      *)
(*                                                                         *)
(* A byte has B values (256 in the program).  Everything else is derived:  *)
(* a word is four bytes and the mapping has one byte for every word value, *)
(* as it has in the program (1UL<<32 bytes, 32-bit addresses).  TLC runs   *)
(* with B = 4, which gives 8-bit words and a mapping of 256 bytes; the     *)
(* proofs hold for every even B.                                           *)
(***************************************************************************)
EXTENDS Integers

CONSTANT B

ASSUME ByteBase == B \in Nat /\ B >= 2 /\ B % 2 = 0

Byte     == 0 .. B - 1
HalfSize == B * B
WordSize == HalfSize * HalfSize
Word     == 0 .. WordSize - 1

Memories == [Word -> Byte]

-----------------------------------------------------------------------------
(* Two's complement: a register holds the unsigned image of its value.     *)

ToWord(x) == x % WordSize

\* The least integer taken for a positive one.
SignedInclusive(w) == IF 2 * w <= WordSize THEN w ELSE w - WordSize

Signed(w) == IF 2 * w < WordSize THEN w ELSE w - WordSize

SignedByte(b) == IF 2 * b < B THEN b ELSE b - B

SignedHalf(h) == IF 2 * h < HalfSize THEN h ELSE h - HalfSize

-----------------------------------------------------------------------------
(* Little-endian loads of two, four and eight bytes, at any alignment.     *)

LoadHalf(m, a) == m[a] + B * m[a + 1]

LoadWord(m, a) == LoadHalf(m, a) + HalfSize * LoadHalf(m, a + 2)

LoadDword(m, a) == LoadWord(m, a) + WordSize * LoadWord(m, a + 4)

-----------------------------------------------------------------------------
(* Little-endian stores.  The weight of byte k of a value of up to eight   *)
(* bytes is B^k; \div rounds down, so a negative value is stored as its    *)
(* two's complement.  Bytes past the end of the mapping are not the        *)
(* guest's: a store there leaves the guest's memory as it is.              *)

Weight(k) == <<1, B, HalfSize, HalfSize * B,
               WordSize, WordSize * B, WordSize * HalfSize,
               WordSize * HalfSize * B>>[k + 1]

ByteOf(v, k) == (v \div Weight(k)) % B

Store(m, a, n, v) ==
  [i \in Word |-> IF i - a \in 0 .. n - 1 THEN ByteOf(v, i - a) ELSE m[i]]

\* Byte x at every offset of the set offs from a.
Fill(m, a, offs, x) == [i \in Word |-> IF i - a \in offs THEN x ELSE m[i]]

-----------------------------------------------------------------------------
(* An access of n bytes at a stays inside the mapping.                     *)
InMap(a, n) == a + n <= WordSize

\* The longest access from an address of the mapping: buf[0..3] of a request.
Slack == 32

(***************************************************************************)
(* What an access of n bytes at a may read.  Past the end of the mapping   *)
(* lies whatever the host has mapped there, so the bytes read there are    *)
(* arbitrary (one value x for all of them: a bound on the nondeterminism). *)
(***************************************************************************)
Beyond(m, x) ==
  [a \in 0 .. WordSize + Slack |-> IF a \in Word THEN m[a] ELSE x]

Views(m, a, n) == IF InMap(a, n) THEN {m} ELSE {Beyond(m, x) : x \in Byte}
=============================================================================
