------------------------------ MODULE MCWords -------------------------------
(***************************************************************************)
(* The operators of Alu that TLC computes on numbers: &, |, ^ and 2^s.     *)
(***************************************************************************)
EXTENDS Integers

LOCAL INSTANCE Bitwise

MCAnd(v, w) == v & w
MCOr(v, w)  == v | w
MCXor(v, w) == v ^^ w
MCPow2(s)   == 2 ^ s
=============================================================================
