----------------------------- MODULE Algorithms -----------------------------
(***************************************************************************)
(* The program's pure functions, each a module of its own, with a          *)
(* behaviour that feeds it, and what is known of the constants they take   *)
(* from the machine and the host.                                          *)
(***************************************************************************)
EXTENDS Crc

CONSTANTS
  B, W, BitAnd(_, _), BitOr(_, _), BitXor(_, _), Pow2(_),   \* Alu's
  Starts,        \* the first contents of its registers
  Host,          \* the host's bits of the flags of open
  Requests,      \* the third words of an open request
  FirstWords,    \* the sets of bits instruction words begin with
  MaxFlips,      \* bound: bits flipped from there
  Width,         \* the width of the type of Bits
  Touched        \* the registers of Bits that are written

VARIABLES
  left, right,               \* the registers of AluLaws
  word, flags, row, nflags,  \* OpenFlags
  inst, flips,               \* Decode
  gpr, bits                  \* Bits

Laws   == INSTANCE AluLaws WITH a <- left, b <- right
Open   == INSTANCE OpenFlags WITH i <- row
Words  == INSTANCE Decode WITH Words <- FirstWords, bits <- inst
Helper == INSTANCE Bits WITH W <- Width

\* The powers of two.
ASSUME Powers ==
  /\ W \in Nat \ {0} /\ Width \in Nat \ {0}
  /\ Pow2(0) = 1
  /\ \A s \in 0 .. W - 1 \cup 0 .. Width - 1 : Pow2(s + 1) = 2 * Pow2(s)

\* A byte has an even number of values, registers hold words, and W is their width.
ASSUME MachineWords ==
  /\ B \in Nat /\ B >= 2 /\ B % 2 = 0
  /\ Starts \subseteq Laws!Word
  /\ Pow2(W) = Laws!WordSize

\* The operators of C work bit by bit.
ASSUME BitByBit ==
  /\ Touched \subseteq Helper!Reg
  /\ \A p, q \in Helper!Word :
       /\ BitAnd(p, q) \in Helper!Word
       /\ BitOr(p, q) \in Helper!Word
       /\ BitXor(p, q) \in Helper!Word
       /\ \A s \in 0 .. Width - 1 :
            LET pHas == Helper!extractBit(p, s)
                qHas == Helper!extractBit(q, s)
            IN  /\ Helper!extractBit(BitAnd(p, q), s) <=> pHas /\ qHas
                /\ Helper!extractBit(BitOr(p, q), s) <=> pHas \/ qHas
                /\ Helper!extractBit(BitXor(p, q), s) <=> ~(pHas <=> qHas)

\* POSIX's names, for a host whose access modes are numbered as newlib's are: each
\* of the others has a bit that no other name has, beside the mode's.
ASSUME HostNames ==
  /\ DOMAIN Host = Open!Names
  /\ Host.O_RDONLY = {} /\ Host.O_WRONLY = {0} /\ Host.O_RDWR = {1}
  /\ \A name \in Open!Names \ {"O_RDONLY", "O_WRONLY", "O_RDWR"} :
       /\ Host[name] \cap {0, 1} = {}
       /\ \E bit \in Host[name] : \A m \in Open!Names \ {name} : bit \notin Host[m]

-----------------------------------------------------------------------------
(* Properties; those of Crc are taken as they are.                         *)

\* A guest's open asks the host for the names the guest gave (helper.cc:104-111).
OpensAsAsked == Open!OpensAsAsked

\* The immediates and the fields, bit for bit (interpret.cc:86-412,
\* interpret.hh:42-115).
DecodedAsDrawn == Words!DecodedAsDrawn

\* mulh, mulhu and mul are halves of one product (interpret.cc:290-294, 318-322).
HalvesOfProduct == Laws!HalvesOfProduct

\* Quotient and remainder are those of one division (interpret.cc:335-386).
OneDivision == Laws!OneDivision

\* Branches, comparisons and shifts read signs alike (interpret.cc:301-434).
SignsAgree == Laws!SignsAgree

\* The bit helpers against the set of bits (helper.hh:57-110, interpret.hh:27-33).
BitsAsSet == Helper!BitsAsSet
=============================================================================
