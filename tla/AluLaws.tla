------------------------------- MODULE AluLaws ------------------------------
(***************************************************************************)
(* The ALU against the arithmetic of RV32IM: two registers, which a        *)
(* program of additions, subtractions and shifts takes to any contents.    *)
(***************************************************************************)
EXTENDS Alu

CONSTANT Starts   \* the first contents of the registers

VARIABLES a, b

Insn(special, sel) ==
  [op |-> "op", rd |-> 1, rs1 |-> 1, rs2 |-> 2, sel |-> sel, special |-> special,
   imm |-> 0, csr |-> 0]

Ops == {Insn(special, sel) : special \in {0, 1, 32}, sel \in 0 .. 7}

Executable == {i \in Ops : OpDefined(i) /\ ~OpTraps(i, a, b)}

Result(i) == ToWord(OpResult(i, a, b))

Init == a \in Starts /\ b \in Starts

\* add, sub, sll: they take two odd numbers to every pair there is.
Steps == {Insn(0, 0), Insn(32, 0), Insn(0, 1)}

Next ==
  \E i \in Steps :
    \/ a' = Result(i) /\ b' = b
    \/ b' = Result(i) /\ a' = a

Spec == Init /\ [][Next]_<<a, b>>

-----------------------------------------------------------------------------
(* The instructions.                                                       *)

Sll   == Insn(0, 1)
Slt   == Insn(0, 2)
Sltu  == Insn(0, 3)
Srl   == Insn(0, 5)
Mul   == Insn(1, 0)
Mulh  == Insn(1, 1)
Mulhu == Insn(1, 3)
Div   == Insn(1, 4)
Divu  == Insn(1, 5)
Rem   == Insn(1, 6)
Remu  == Insn(1, 7)
Sub   == Insn(32, 0)
Sra   == Insn(32, 5)

\* What a register means, as a signed number.
Value(w) == IF w < WordSize \div 2 THEN w ELSE w - WordSize

\* mulh and mul, and mulhu and mul, are the two halves of one product, which is
\* how a compiler builds 64-bit arithmetic (interpret.cc:290-294 and 318-322).
HalvesOfProduct ==
  /\ WordSize * Value(Result(Mulh)) + Result(Mul) = Value(a) * Value(b)
  /\ WordSize * Result(Mulhu) + Result(Mul) = a * b

Sign(x) == IF x < 0 THEN -1 ELSE IF x = 0 THEN 0 ELSE 1

\* Quotient and remainder are those of one division that rounds towards zero,
\* wherever it has a result (interpret.cc:335-386).
OneDivision ==
  /\ {Div, Rem} \subseteq Executable =>
       LET q == Value(Result(Div))
           r == Value(Result(Rem)) IN
       /\ Value(a) = q * Value(b) + r
       /\ Abs(r) < Abs(Value(b))
       /\ Sign(r) \in {0, Sign(Value(a))}
  /\ {Divu, Remu} \subseteq Executable =>
       a = Result(Divu) * b + Result(Remu) /\ Result(Remu) < b

Branch(sel) == Taken(Insn(0, sel), a, b)

\* Branches, comparisons and the subtraction order the words in the same two
\* ways, signed and unsigned (interpret.cc:301-317 and 413-434).
OneOrder ==
  /\ Branch(4) <=> Result(Slt) = 1
  /\ Branch(6) <=> Result(Sltu) = 1
  /\ Branch(5) <=> ~Branch(4)
  /\ Branch(7) <=> ~Branch(6)
  /\ Branch(0) <=> Result(Sub) = 0
  /\ Branch(1) <=> ~Branch(0)
  /\ (Branch(4) <=> Branch(6)) <=> ((Value(a) < 0) <=> (Value(b) < 0))

\* The arithmetic shift is the logical one, of the complement if the sign is
\* set; only the low bits of the amount count, and what one shift loses at its end
\* of the word the other one fills with zeros (interpret.cc:345-357).
ShiftsAgree ==
  LET not(w)       == WordSize - 1 - w
      shifted(i, w) == ToWord(OpResult(i, w, b))
      amount       == b % W IN
  /\ shifted(Sra, a) = IF Value(a) >= 0 THEN shifted(Srl, a) ELSE not(shifted(Srl, not(a)))
  /\ shifted(Srl, shifted(Sll, a)) = a % Pow2(W - amount)
  /\ shifted(Sll, shifted(Srl, a)) = a - (a % Pow2(amount))

\* Each instruction reads the registers with the sign its name says: the casts
\* from line 298 to 357 and from 413 to 434 of interpret.cc.
SignsAgree == OneOrder /\ ShiftsAgree
=============================================================================
