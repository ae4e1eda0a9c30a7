------------------------------- MODULE Decode -------------------------------
(***************************************************************************)
(* How execRiscv reads an instruction word: the bit-field structures of    *)
(* interpret.hh, which the compiler lays out from the low end, and the     *)
(* immediates it puts together from them.  A word is its value as int32_t, *)
(* so \div and % give the bits of its two's complement, and bit 31 is the  *)
(* sign.  Interp takes the decoder as a constant: Decoded is that constant.*)
(*                                                                         *)
(* The behaviour is a word whose bits are flipped one at a time.           *)
(***************************************************************************)
EXTENDS Integers

CONSTANTS
  Words,     \* the sets of bits to begin with
  MaxFlips   \* bound: flips from there

VARIABLES bits, flips

vars == <<bits, flips>>

Init == bits \in Words /\ flips = 0

Next ==
  /\ flips < MaxFlips
  /\ flips' = flips + 1
  /\ \E b \in 0 .. 31 : bits' = (bits \ {b}) \cup ({b} \ bits)

Spec == Init /\ [][Next]_vars

-----------------------------------------------------------------------------
(* The fields: so many values, from the bit of that weight on.             *)

Field(w, weight, values) == (w \div weight) % values

Sign(w) == IF w < 0 THEN 1 ELSE 0

opcode(w)  == Field(w, 1, 128)
rd(w)      == Field(w, 128, 32)
sel(w)     == Field(w, 4096, 8)
rs1(w)     == Field(w, 32768, 32)
rs2(w)     == Field(w, 1048576, 32)
special(w) == Field(w, 33554432, 128)
imm11_0(w) == Field(w, 1048576, 4096)

store_t(w) == [imm4_0 |-> Field(w, 128, 32), imm11_5 |-> Field(w, 33554432, 128)]

branch_t(w) ==
  [imm11   |-> Field(w, 128, 2),
   imm4_1  |-> Field(w, 256, 16),
   imm10_5 |-> Field(w, 33554432, 64),
   imm12   |-> Sign(w)]

jal_t(w) ==
  [imm19_12 |-> Field(w, 4096, 256),
   imm11    |-> Field(w, 1048576, 2),
   imm10_1  |-> Field(w, 2097152, 1024),
   imm20    |-> Sign(w)]

-----------------------------------------------------------------------------
(* The immediates.  The parts do not overlap, so | is +; the mask that     *)
(* extends the sign subtracts the weight of the bit below it.              *)

\* load, opimm, jalr: disp |= 0xfffff000.
ImmI(w) == imm11_0(w) - 4096 * Sign(w)

ImmS(w) == store_t(w).imm4_0 + 32 * store_t(w).imm11_5 - 4096 * Sign(w)

\* disp |= 0xffffe000.
ImmB(w) ==
  LET b == branch_t(w)
  IN  2 * b.imm4_1 + 32 * b.imm10_5 + 2048 * b.imm11 + 4096 * b.imm12 - 8192 * b.imm12

\* inst & 0xfffff000.
ImmU(w) == w - (w % 4096)

\* imm20 << 19: over the top bit of imm19_12.
ImmJLow(w) ==
  LET j == jal_t(w)
  IN  2 * j.imm10_1 + 2048 * j.imm11 + 4096 * j.imm19_12
        + (IF j.imm19_12 < 128 THEN 524288 * j.imm20 ELSE 0) - 2097152 * j.imm20

\* jaddr |= 0xffe00000.
ImmJ(w) ==
  LET j == jal_t(w)
  IN  2 * j.imm10_1 + 2048 * j.imm11 + 4096 * j.imm19_12 + 1048576 * j.imm20
        - 2097152 * j.imm20

\* The case of the switch.
Operation(w) ==
  LET o == opcode(w)
  IN  CASE o = 3   -> "load"   [] o = 15 -> "fence"  [] o = 19 -> "opimm"
        [] o = 35  -> "store"  [] o = 55 -> "lui"    [] o = 23 -> "auipc"
        [] o = 103 -> "jalr"   [] o = 111 -> "jal"   [] o = 51 -> "op"
        [] o = 99  -> "branch" [] o = 115 -> "system" [] OTHER -> "unknown"

Immediate(w) ==
  LET op == Operation(w)
  IN  CASE op \in {"load", "opimm", "jalr"} -> ImmI(w)
        [] op = "store"                     -> ImmS(w)
        [] op = "branch"                    -> ImmB(w)
        [] op \in {"lui", "auipc"}          -> ImmU(w)
        [] op = "jal"                       -> ImmJ(w)
        [] OTHER                            -> 0

Decoded(w) ==
  [op |-> Operation(w), rd |-> rd(w), rs1 |-> rs1(w), rs2 |-> rs2(w), sel |-> sel(w),
   special |-> special(w), imm |-> Immediate(w), csr |-> imm11_0(w)]

-----------------------------------------------------------------------------
(* Properties.                                                             *)

Has(set, b) == IF b \in set THEN 1 ELSE 0

\* The number whose bits from b on these are; bit 31 has a negative weight.
From(set) ==
  LET number[b \in 0 .. 31] ==
        IF b = 31 THEN -Has(set, 31) ELSE Has(set, b) + 2 * number[b + 1]
  IN  number

Number(set) == From(set)[0]

inst == Number(bits)

\* RISC-V's formats: where bit k of the immediate is in the word, bits of the
\* immediate that are in no bit of the word left out.
Formats ==
  [I |-> [k \in 0 .. 31 |-> IF k <= 10 THEN 20 + k ELSE 31],
   S |-> [k \in 0 .. 31 |-> IF k <= 4 THEN 7 + k ELSE IF k <= 10 THEN 20 + k ELSE 31],
   B |-> [k \in 1 .. 31 |-> IF k <= 4 THEN 7 + k ELSE IF k <= 10 THEN 20 + k
                            ELSE IF k = 11 THEN 7 ELSE 31],
   U |-> [k \in 12 .. 31 |-> k],
   J |-> [k \in 1 .. 31 |-> IF k <= 10 THEN 20 + k ELSE IF k = 11 THEN 20
                            ELSE IF k <= 19 THEN k ELSE 31]]

FormatOf ==
  [load |-> "I", opimm |-> "I", jalr |-> "I", store |-> "S", branch |-> "B",
   lui |-> "U", auipc |-> "U", jal |-> "J"]

\* The immediate of every instruction is the number that RISC-V's format draws,
\* bit for bit: the comments at lines 124, 214, 221, 233, 247 and 399 of
\* interpret.cc quote it.
ImmediatesAsDrawn ==
  LET i == Decoded(inst)
  IN  i.op \in DOMAIN FormatOf =>
        LET format == Formats[FormatOf[i.op]]
        IN  i.imm = Number({k \in DOMAIN format : format[k] \in bits})

\* The rest of the word is in the other fields, each bit in its place: two words
\* of one operation and other fields are two instructions.
FieldsAsDrawn ==
  LET i == Decoded(inst)
      Part(low, size) == Number({k \in 0 .. size - 1 : low + k \in bits})
  IN  /\ i.rd = Part(7, 5) /\ i.sel = Part(12, 3)
      /\ i.rs1 = Part(15, 5) /\ i.rs2 = Part(20, 5)
      /\ i.special = Part(25, 7) /\ i.csr = Part(20, 12)

\* The code and the formats read one word alike (interpret.hh:42-115 and the
\* expressions around interpret.cc:86, 192, 217, 249 and 407).
DecodedAsDrawn == ImmediatesAsDrawn /\ FieldsAsDrawn
=============================================================================
