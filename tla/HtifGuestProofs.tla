-------------------------- MODULE HtifGuestProofs --------------------------
(***************************************************************************)
(* The stub and the mailbox, for every buffer, every upper word and every  *)
(* set of numbers.                                                         *)
(***************************************************************************)
EXTENDS HtifGuest, TLAPS

IInv == TypeOK /\ OneAnswer

\* Buffers are even, the value that halts is odd: the host tells them apart.
LEMMA Apart ==
  Buffer # 0 /\ Buffer # Halted /\ Halted # 0 /\ Halted % 2 = 1 /\ Buffer % 2 = 0
  BY Stub

\* A program starts outside the stub, with an empty mailbox.
LEMMA InitInv == Init => IInv
  BY DEF Init, Port!Init, IInv, TypeOK, OneAnswer, Quiet

\* One step per kind of instruction, then the looks of the host.
LEMMA NextInv == IInv /\ [Next]_vars => IInv'
<1> SUFFICES ASSUME IInv, [Next]_vars
             PROVE  IInv'
  OBVIOUS
<1> USE Apart DEF IInv, TypeOK, OneAnswer, Quiet, Pending, Answered
<1>1. CASE Work
  BY <1>1 DEF Work, Step, Port!Instruction
<1>2. CASE LowFirst
  BY <1>2 DEF LowFirst, PostLow, PostUpper, Step, Port!Instruction
<1>3. CASE UpperFirst
  BY <1>3 DEF UpperFirst, PostLow, PostUpper, Step, Port!Instruction
<1>4. CASE Load
  BY <1>4 DEF Load, Step, Port!Instruction
<1>5. CASE Test
  BY <1>5 DEF Test, Step, Port!Instruction
<1>6. CASE Clear
  BY <1>6 DEF Clear, Step, Port!Instruction
<1>7. CASE Exit
  BY <1>7 DEF Exit, Step, Port!Instruction
<1>8. CASE Look
  BY <1>8 DEF Look, Client, Port!Idle, Port!Halt, Port!Host
<1>9. CASE Serve
  BY <1>9 DEF Serve, Client, Port!Answer, Port!Host
<1>10. CASE End
  BY <1>10 DEF End, Client, Port!Off
<1>11. CASE UNCHANGED vars
  BY <1>11 DEF vars
<1> QED
  BY <1>1, <1>2, <1>3, <1>4, <1>5, <1>6, <1>7, <1>8, <1>9, <1>10, <1>11
     DEF Next, Guest

\* The invariant is one of every run of the stub.
THEOREM StubInvariance == Spec => []IInv
  BY InitInv, NextInv, PTL DEF Spec

\* The two cells hold what the stub and the host may write there.
THEOREM StubTypes == Spec => []TypeOK
<1>1. IInv => TypeOK
  BY DEF IInv
<1> QED
  BY <1>1, StubInvariance, PTL

\* A request is answered once, whichever word of tohost is stored first.
THEOREM AnsweredOnce == Spec => []OneAnswer
<1>1. IInv => OneAnswer
  BY DEF IInv
<1> QED
  BY <1>1, StubInvariance, PTL
=============================================================================
