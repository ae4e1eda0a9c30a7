-------------------------------- MODULE Bits --------------------------------
(***************************************************************************)
(* The bit helpers of helper.hh for an unsigned T of W bits, and the       *)
(* checksum of interpret.hh over registers of that type.  The program does *)
(* not call them; here registers are written bit by bit through setBit,    *)
(* and beside them runs what a reader of the helpers' names expects: the   *)
(* set of the bits that are 1.                                             *)
(***************************************************************************)
EXTENDS Integers, FiniteSets

CONSTANTS
  W,         \* the width of T
  BitAnd(_, _), BitOr(_, _), BitXor(_, _),   \* the C operators &, | and ^
  Pow2(_),   \* 2^s
  Touched    \* bound: the registers that are written

Word == 0 .. Pow2(W) - 1

Reg == 0 .. 31

VARIABLES
  gpr,    \* the registers
  bits    \* the bits of each that are expected to be 1

vars == <<gpr, bits>>

Wrap(n)       == n % Pow2(W)
Complement(n) == Wrap(-1 - n)

extractBit(x, b) == (x \div Pow2(b)) % 2 = 1

\* v - 1 not inverted.
setBitInverted(x, v, b) ==
  BitOr(BitAnd(Complement(Pow2(b)), x), BitAnd(Pow2(b), Wrap(v - 1)))

\* v is 0 or 1: v - 1 is all ones or zero.
setBit(x, v, b) ==
  BitOr(BitAnd(Complement(Pow2(b)), x), BitAnd(Pow2(b), Complement(Wrap(v - 1))))

\* x is not a power of two if x - 1 has one of its bits.
isPow2(x) == BitAnd(Wrap(x - 1), x) = 0

\* h after the first i registers.
checksum_gprs(regs) ==
  LET h[i \in 0 .. 32] == IF i = 0 THEN 0 ELSE BitXor(h[i - 1], regs[i - 1])
  IN  h[32]

Init ==
  /\ gpr = [r \in Reg |-> 0]
  /\ bits = [r \in Reg |-> {}]

SetBit(r, v, b) ==
  /\ gpr' = [gpr EXCEPT ![r] = setBit(@, v, b)]
  /\ bits' = [bits EXCEPT ![r] = IF v = 1 THEN @ \cup {b} ELSE @ \ {b}]

Next == \E r \in Touched, v \in {0, 1}, b \in 0 .. W - 1 : SetBit(r, v, b)

Spec == Init /\ [][Next]_vars

-----------------------------------------------------------------------------
(* Properties.                                                             *)

(***************************************************************************)
(* Whatever the order of the calls: setBit sets or clears its bit and no   *)
(* other, and extractBit reads what was set (helper.hh:57-68); isPow2 takes*)
(* for powers of two the registers with one bit, and zero (helper.hh:108); *)
(* and a bit of the checksum is the parity of the registers that have it,  *)
(* all 32 of them (interpret.hh:27-33).                                    *)
(***************************************************************************)
BitsAsSet ==
  /\ \A r \in Touched, b \in 0 .. W - 1 : extractBit(gpr[r], b) <=> b \in bits[r]
  /\ \A r \in Touched : isPow2(gpr[r]) <=> Cardinality(bits[r]) <= 1
  /\ \A b \in 0 .. W - 1 :
       extractBit(checksum_gprs(gpr), b) <=> Cardinality({r \in Reg : b \in bits[r]}) % 2 = 1
=============================================================================
