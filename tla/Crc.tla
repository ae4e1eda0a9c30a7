-------------------------------- MODULE Crc ---------------------------------
(***************************************************************************)
(* crc32 of helper.cc, with which main identifies the memory a run leaves  *)
(* (--hash).  The code has two versions of the inner step: amd64 builds    *)
(* use the instruction, others a loop over the bits.  Both run here, side  *)
(* by side, and the loop also over a second memory, to compare the hashes  *)
(* of two runs.                                                            *)
(*                                                                         *)
(* A register or a byte is the set of its bits that are 1: ^ is the        *)
(* symmetric difference, >> 1 moves every bit down and drops bit 0.        *)
(***************************************************************************)
EXTENDS Integers, Sequences

CONSTANT Buffers    \* pairs of contents of one length, differing in a byte or less

Byte == SUBSET (0 .. 7)
Word == SUBSET (0 .. 31)

\* The byte at i differs.
Differ(a, b, i) == a[i] # b[i]

OneByteApart(a, b) ==
  /\ Len(a) = Len(b)
  /\ \A i, j \in 1 .. Len(a) : Differ(a, b, i) /\ Differ(a, b, j) => i = j

ASSUME Contents ==
  \A m \in Buffers : m \in Seq(Byte) \X Seq(Byte) /\ OneByteApart(m[1], m[2])

VARIABLES
  buf, other,   \* the memory, and the other one
  c,            \* update_crc's c, in the build without the instruction
  d,            \* the same for the other memory
  x,            \* c in the amd64 build
  n, k          \* loop counters

vars == <<buf, other, c, d, x, n, k>>

Xor(a, b) == (a \ b) \cup (b \ a)

\* 0x82f63b78.
POLY == {3, 4, 5, 6, 8, 9, 11, 12, 13, 17, 18, 20, 21, 22, 23, 25, 31}

ShiftRight(a) == {b - 1 : b \in a \ {0}}

\* c & 1 ? (c >> 1) ^ POLY : c >> 1.
Divide(a) == IF 0 \in a THEN Xor(ShiftRight(a), POLY) ELSE ShiftRight(a)

\* 0x11EDC6F41, of degree 32.
Generator == {0, 6, 8, 9, 10, 11, 13, 14, 18, 19, 20, 22, 23, 25, 26, 27, 28, 32}

\* The bits from low to high in reverse order.
Reflected(s, low, high) == {low + high - b : b \in s}

\* Step j of a division by Generator takes the term of degree 40 - j away.
Reduced(r, j) ==
  IF 40 - j \in r THEN Xor(r, {g + 8 - j : g \in Generator}) ELSE r

\* The instruction, by its definition: the byte and the register, both with
\* their bits reversed, as a polynomial, modulo Generator.
_mm_crc32_u8(a, byte) ==
  LET dividend == Xor(Reflected(byte, 32, 7), Reflected(a, 8, 31))
      r[j \in 0 .. 8] == IF j = 0 THEN dividend ELSE Reduced(r[j - 1], j)
  IN  Reflected(r[8], 0, 31)

-----------------------------------------------------------------------------
\* ~0x0.
Ones == 0 .. 31

Init ==
  /\ \E m \in Buffers : buf = m[1] /\ other = m[2]
  /\ c = Ones /\ d = Ones /\ x = Ones
  /\ n = 0 /\ k = 8

\* The pointer is not moved on.
NextByteFirst ==
  /\ k = 8
  /\ n < Len(buf)
  /\ n' = n + 1
  /\ k' = 0
  /\ c' = Xor(c, buf[1])
  /\ d' = Xor(d, other[1])
  /\ x' = _mm_crc32_u8(x, buf[1])
  /\ UNCHANGED <<buf, other>>

NextByte ==
  /\ k = 8
  /\ n < Len(buf)
  /\ n' = n + 1
  /\ k' = 0
  /\ c' = Xor(c, buf[n'])
  /\ d' = Xor(d, other[n'])
  /\ x' = _mm_crc32_u8(x, buf[n'])
  /\ UNCHANGED <<buf, other>>

\* A byte is done after seven bits.
NextBitSeven ==
  /\ k < 8
  /\ k' = IF k = 6 THEN 8 ELSE k + 1
  /\ c' = Divide(c)
  /\ d' = Divide(d)
  /\ UNCHANGED <<buf, other, x, n>>

NextBit ==
  /\ k < 8
  /\ k' = k + 1
  /\ c' = Divide(c)
  /\ d' = Divide(d)
  /\ UNCHANGED <<buf, other, x, n>>

Next == NextByte \/ NextBit

Spec == Init /\ [][Next]_vars

crc32(a) == Xor(a, Ones)

-----------------------------------------------------------------------------
(* Properties.                                                             *)

\* The registers stay words of 32 bits and the counters in their loops.
TypeOK ==
  /\ buf \in Seq(Byte) /\ other \in Seq(Byte) /\ OneByteApart(buf, other)
  /\ c \in Word /\ d \in Word /\ x \in Word
  /\ n \in 0 .. Len(buf) /\ k \in 0 .. 8

\* After every byte both builds hold the same value: a hash printed on one
\* machine can be compared with one printed on another.
PathsAgree == k = 8 => c = x

Ended == k = 8 /\ n = Len(buf)

\* Memories that differ in one byte have different hashes, whatever the byte and
\* wherever it is: two runs with one hash do not differ by a single store of a
\* byte.
OneByteTells ==
  Ended => (crc32(c) = crc32(d) <=> buf = other)
=============================================================================
