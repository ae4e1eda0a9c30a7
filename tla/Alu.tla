-------------------------------- MODULE Alu --------------------------------
(***************************************************************************)
(* The arithmetic of execRiscv (interpret.cc): the register-immediate      *)
(* group (opcode 0x13), the register-register group (0x33) and the branch  *)
(* conditions (0x63), as operators on words.  A result is an integer; the  *)
(* 32-bit register it is assigned to truncates it (Interp!Write).          *)
(*                                                                         *)
(* Signed overflow of +, - and * is undefined in C++, and every build the  *)
(* Makefile makes wraps: the operands come from memory.  Division is the   *)
(* one operation whose undefined cases differ between builds: OpTraps.     *)
(***************************************************************************)
EXTENDS Memory

CONSTANTS
  W,          \* bits of a word (32); shift amounts are taken modulo W
  BitAnd(_, _),  \* the C operators &, | and ^ on words
  BitOr(_, _),
  BitXor(_, _),
  Pow2(_)     \* 2^s, for a shift amount s

ASSUME Bits ==
  /\ W \in Nat \ {0}
  /\ \A s \in 0 .. W - 1 : Pow2(s) \in Nat \ {0}
  /\ \A a, b \in Word : BitAnd(a, b) \in Word /\ BitOr(a, b) \in Word /\ BitXor(a, b) \in Word

Reg == 0 .. 31

Opcodes == {"load", "fence", "opimm", "store", "lui", "auipc", "jalr", "jal",
            "op", "branch", "system", "unknown"}

(***************************************************************************)
(* An instruction word seen through the bit-field unions of interpret.hh:  *)
(* sel is funct3, special is funct7, imm the immediate of the format,      *)
(* already sign-extended, and csr the twelve top bits.  The immediate      *)
(* shift amount is the rs2 field.                                          *)
(***************************************************************************)
Instructions ==
  [op : Opcodes, rd : Reg, rs1 : Reg, rs2 : Reg,
   sel : 0 .. 7, special : 0 .. 127, imm : Word, csr : 0 .. 4095]

-----------------------------------------------------------------------------
Flag(p) == IF p THEN 1 ELSE 0

ShiftLeft(a, s) == a * Pow2(s % W)

ShiftRight(a, s) == a \div Pow2(s % W)

\* >> on a negative int rounds towards minus infinity, as \div does.
ShiftArith(a, s) == Signed(a) \div Pow2(s % W)

Abs(x) == IF x < 0 THEN -x ELSE x

\* Rounding down.
QuotientFloor(x, y) ==
  IF y = 0 THEN 0
  ELSE IF (x < 0) = (y < 0) THEN Abs(x) \div Abs(y)
       ELSE -((Abs(x) + Abs(y) - 1) \div Abs(y))

\* C's / and % truncate towards zero; division by zero gives 0 (see OpTraps).
Quotient(x, y) ==
  IF y = 0 THEN 0
  ELSE IF (x < 0) = (y < 0) THEN Abs(x) \div Abs(y) ELSE -(Abs(x) \div Abs(y))

Remainder(x, y) == x - y * Quotient(x, y)

-----------------------------------------------------------------------------
(* Opcode 0x13.  Only sel 5 looks at the top bits, and asserts on them.    *)

ImmDefined(i) == i.sel = 5 => i.special \in {0, 32}

ImmResult(i, a) ==
  CASE i.sel = 0 -> a + i.imm
    [] i.sel = 1 -> ShiftLeft(a, i.rs2)
    [] i.sel = 2 -> Flag(Signed(a) < Signed(i.imm))
    [] i.sel = 3 -> Flag(a < i.imm)
    [] i.sel = 4 -> BitXor(a, i.imm)
    [] i.sel = 5 /\ i.special = 0 -> ShiftRight(a, i.rs2)
    [] i.sel = 5 /\ i.special # 0 -> ShiftArith(a, i.rs2)
    [] i.sel = 6 -> BitOr(a, i.imm)
    [] i.sel = 7 -> BitAnd(a, i.imm)

-----------------------------------------------------------------------------
(* Opcode 0x33.  The pairs (sel, special) with a case of their own: sel 2  *)
(* has none for special 1, so mulhsu ends in assert(0).                    *)

OpDefined(i) ==
  \/ i.special = 0
  \/ i.special = 1  /\ i.sel # 2
  \/ i.special = 32 /\ i.sel \in {0, 5}

OpResult(i, a, b) ==
  CASE i.special = 0 /\ i.sel = 0 -> a + b
    [] i.special = 0 /\ i.sel = 1 -> ShiftLeft(a, b)
    [] i.special = 0 /\ i.sel = 2 -> Flag(Signed(a) < Signed(b))
    [] i.special = 0 /\ i.sel = 3 -> Flag(a < b)
    [] i.special = 0 /\ i.sel = 4 -> BitXor(a, b)
    [] i.special = 0 /\ i.sel = 5 -> ShiftRight(a, b)
    [] i.special = 0 /\ i.sel = 6 -> BitOr(a, b)
    [] i.special = 0 /\ i.sel = 7 -> BitAnd(a, b)
    [] i.special = 1 /\ i.sel = 0 -> Signed(a) * Signed(b)
    [] i.special = 1 /\ i.sel = 1 -> (Signed(a) * Signed(b)) \div WordSize
    [] i.special = 1 /\ i.sel = 3 -> (a * b) \div WordSize
    [] i.special = 1 /\ i.sel = 4 -> Quotient(Signed(a), Signed(b))
    [] i.special = 1 /\ i.sel = 5 -> Quotient(a, b)
    [] i.special = 1 /\ i.sel = 6 -> Remainder(Signed(a), Signed(b))
    [] i.special = 1 /\ i.sel = 7 -> Remainder(a, b)
    [] i.special = 32 /\ i.sel = 0 -> a - b
    [] i.special = 32 /\ i.sel = 5 -> ShiftArith(a, b)

(***************************************************************************)
(* The divisions C++ leaves undefined: by zero, and of the least integer   *)
(* by -1.  An amd64 build takes SIGFPE; where the divide instruction does  *)
(* not trap (helper.cc has a path for such hosts) division by zero gives   *)
(* 0, which is what Quotient and Remainder say.                            *)
(***************************************************************************)
OpTraps(i, a, b) ==
  /\ i.special = 1
  /\ \/ i.sel \in 4 .. 7 /\ b = 0
     \/ i.sel \in {4, 6} /\ 2 * a = WordSize /\ b = WordSize - 1

-----------------------------------------------------------------------------
(* Opcode 0x63.                                                            *)

BranchDefined(i) == i.sel \notin {2, 3}

\* bge without its equality.
TakenStrictly(i, a, b) ==
  CASE i.sel = 0 -> a = b
    [] i.sel = 1 -> a # b
    [] i.sel = 4 -> Signed(a) < Signed(b)
    [] i.sel = 5 -> Signed(a) > Signed(b)
    [] i.sel = 6 -> a < b
    [] i.sel = 7 -> a >= b

Taken(i, a, b) ==
  CASE i.sel = 0 -> a = b
    [] i.sel = 1 -> a # b
    [] i.sel = 4 -> Signed(a) < Signed(b)
    [] i.sel = 5 -> Signed(a) >= Signed(b)
    [] i.sel = 6 -> a < b
    [] i.sel = 7 -> a >= b
=============================================================================
