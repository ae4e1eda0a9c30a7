----------------------------- MODULE MainProofs -----------------------------
(***************************************************************************)
(* Theorems about MainProgram, for every set of command lines and MARGS.   *)
(***************************************************************************)
EXTENDS MainProgram, TLAPS

\* What is held at each point of a process that has not failed.
HeldAt ==
  [p \in Points \cup {"done"} |->
     CASE p = "state" -> {"argv"}
       [] p = "map" -> {"argv", "state"}
       [] p \in {"load", "capstone"} -> {"argv", "state", "memory"}
       [] p \in {"run", "dump", "hash", "stats", "munmap"} ->
            {"argv", "state", "memory", "capstone"}
       [] p = "delete" -> {"argv", "state", "capstone"}
       [] p = "free" -> {"state", "capstone"}
       [] p = "stop" -> {"capstone"}
       [] OTHER -> {}]

HoldsInOrder == at \in Points \cup {"done"} => held = HeldAt[at]

BeforeRun == {"parse", "argv", "state", "map", "load", "capstone"}
AfterDump == {"hash", "stats", "munmap", "delete", "free", "stop", "done"}

\* The count never passes the dump point, and the one dump is made there.
CountsToTheDump ==
  /\ at \in BeforeRun => icnt = 0
  /\ icnt <= cmd.dumpicnt
  /\ at \in BeforeRun \cup {"run", "dump"} => dumped = {}
  /\ at \in AfterDump => dumped = IF icnt = cmd.dumpicnt THEN {icnt} ELSE {}
  /\ dumped \subseteq {cmd.dumpicnt}

\* The inductive invariant.
IInv == TypeOK /\ HoldsInOrder /\ CountsToTheDump

\* A command line's limits are numbers.
LEMMA Limits ==
  ASSUME cmd \in Commands
  PROVE  cmd.maxicnt \in Nat /\ cmd.dumpicnt \in Nat /\ cmd.args \in Nat
BY Lines DEF CommandLines

\* The words taken from --args, counted with the file's name.
LEMMA FewWords ==
  ASSUME NEW n \in Nat
  PROVE  1 + Min({n, MARGS}) \in 0 .. MARGS + 1
<1>1. \E x \in {n, MARGS} : \A y \in {n, MARGS} : x <= y
  BY Lines
<1>2. Min({n, MARGS}) \in {n, MARGS} /\ Min({n, MARGS}) <= MARGS
  BY <1>1 DEF Min
<1> QED BY <1>2, Lines

\* Every process begins with nothing held, nothing counted and nothing dumped.
LEMMA Begins == Init => IInv
<1> SUFFICES ASSUME Init PROVE IInv
  OBVIOUS
<1> USE DEF Init
<1>1. TypeOK
  <2>1. 0 \in 0 .. MARGS + 1
    BY Lines
  <2> QED BY <2>1 DEF TypeOK, Points
<1>2. HoldsInOrder
  BY DEF HoldsInOrder, HeldAt, Points
<1>3. CountsToTheDump
  BY Limits DEF CountsToTheDump, BeforeRun, AfterDump
<1> QED BY <1>1, <1>2, <1>3 DEF IInv

\* Types through every step.
LEMMA TypesKept == IInv /\ [Next]_vars => TypeOK'
<1> SUFFICES ASSUME IInv, [Next]_vars PROVE TypeOK'
  OBVIOUS
<1> USE DEF IInv, TypeOK, Run, Goto, Say, EndsAt, Points, Ended, Messages
<1>1. CASE ParseError BY <1>1 DEF ParseError
<1>2. CASE Parse
  <2>1. out' \subseteq Messages
    BY <1>2 DEF Parse
  <2>2. at' \in Points \cup Ended
    BY <1>2 DEF Parse
  <2>3. UNCHANGED <<cmd, held, sysArgc, Run>>
    BY <1>2 DEF Parse
  <2> QED BY <2>1, <2>2, <2>3
<1>3. CASE BuildArgcArgv BY <1>3, Limits, FewWords DEF BuildArgcArgv
<1>4. CASE AllocateState \/ MapMemory \/ InitCapstone
  BY <1>4 DEF AllocateState, MapMemory, InitCapstone, Acquire
<1>5. CASE AllocateFails \/ MapFails \/ LoadFile \/ LoadFails
  BY <1>5 DEF AllocateFails, MapFails, LoadFile, LoadFails
<1>6. CASE CapstoneFails BY <1>6 DEF CapstoneFails
<1>7. CASE Instruction
  <2>1. icnt' \in Nat /\ brk' \in {0, 1}
    <3>1. icnt' = icnt + 1 /\ brk' \in {0, 1}
      BY <1>7 DEF Instruction
    <3>2. icnt \in Nat
      OBVIOUS
    <3> HIDE DEF TypeOK
    <3> QED BY <3>1, <3>2
  <2>2. out' \subseteq Messages
    BY <1>7 DEF Instruction
  <2>3. UNCHANGED <<cmd, at, held, sysArgc, asked, dumped>>
    BY <1>7 DEF Instruction
  <2> QED BY <2>1, <2>2, <2>3
<1>8. CASE GuestFails BY <1>8 DEF GuestFails
<1>9. CASE AskForArguments BY <1>9 DEF AskForArguments
<1>10. CASE RunEnds \/ NoDump \/ DumpFails BY <1>10 DEF RunEnds, NoDump, DumpFails
<1>11. CASE Dump BY <1>11 DEF Dump
<1>12. CASE Hash \/ Statistics BY <1>12 DEF Hash, Statistics
<1>13. CASE Unmap \/ DeleteArgv \/ FreeState \/ StopCapstone
  BY <1>13 DEF Unmap, DeleteArgv, FreeState, StopCapstone, Release
<1>14. CASE UNCHANGED vars BY <1>14 DEF vars
<1> QED
  BY <1>1, <1>2, <1>3, <1>4, <1>5, <1>6, <1>7, <1>8, <1>9, <1>10, <1>11, <1>12,
     <1>13, <1>14 DEF Next

\* What is held follows the point reached.
LEMMA OrderKept == IInv /\ [Next]_vars => HoldsInOrder'
<1> SUFFICES ASSUME IInv, [Next]_vars PROVE HoldsInOrder'
  OBVIOUS
<1> USE DEF IInv, TypeOK, HoldsInOrder, HeldAt, Run, Goto, EndsAt, Points, Ended
<1>1. CASE ParseError BY <1>1 DEF ParseError
<1>2. CASE Parse BY <1>2 DEF Parse
<1>3. CASE BuildArgcArgv BY <1>3 DEF BuildArgcArgv
<1>4. CASE AllocateState BY <1>4 DEF AllocateState, Acquire
<1>5. CASE MapMemory BY <1>5 DEF MapMemory, Acquire
<1>6. CASE InitCapstone BY <1>6 DEF InitCapstone, Acquire
<1>7. CASE AllocateFails \/ MapFails \/ LoadFile \/ LoadFails
  BY <1>7 DEF AllocateFails, MapFails, LoadFile, LoadFails
<1>8. CASE CapstoneFails \/ GuestFails \/ AskForArguments
  BY <1>8 DEF CapstoneFails, GuestFails, AskForArguments
<1>9. CASE Instruction BY <1>9 DEF Instruction
<1>10. CASE RunEnds \/ NoDump \/ DumpFails BY <1>10 DEF RunEnds, NoDump, DumpFails
<1>11. CASE Dump \/ Hash \/ Statistics BY <1>11 DEF Dump, Hash, Statistics
<1>12. CASE Unmap BY <1>12 DEF Unmap, Release
<1>13. CASE DeleteArgv BY <1>13 DEF DeleteArgv, Release
<1>14. CASE FreeState BY <1>14 DEF FreeState, Release
<1>15. CASE StopCapstone BY <1>15 DEF StopCapstone, Release
<1>16. CASE UNCHANGED vars BY <1>16 DEF vars
<1> QED
  BY <1>1, <1>2, <1>3, <1>4, <1>5, <1>6, <1>7, <1>8, <1>9, <1>10, <1>11, <1>12,
     <1>13, <1>14, <1>15, <1>16 DEF Next

\* The loop tests the limit before each instruction, so it stops at the limit.
LEMMA CountKept == IInv /\ [Next]_vars => CountsToTheDump'
<1> SUFFICES ASSUME IInv, [Next]_vars PROVE CountsToTheDump'
  OBVIOUS
<1>1. cmd.maxicnt \in Nat /\ cmd.dumpicnt \in Nat
  BY Limits DEF IInv, TypeOK
<1> USE <1>1 DEF IInv, TypeOK, CountsToTheDump, BeforeRun, AfterDump, Run, Goto, EndsAt,
                 Points, Ended
<1>2. CASE ParseError \/ Parse \/ BuildArgcArgv
  <2>1. UNCHANGED <<cmd, icnt, dumped>> /\ at \in BeforeRun
    BY <1>2 DEF ParseError, Parse, BuildArgcArgv
  <2>2. at' \in BeforeRun \cup {"failed"}
    BY <1>2 DEF ParseError, Parse, BuildArgcArgv
  <2> QED BY <2>1, <2>2
<1>3. CASE AllocateState \/ MapMemory \/ InitCapstone
  BY <1>3 DEF AllocateState, MapMemory, InitCapstone, Acquire
<1>4. CASE AllocateFails \/ MapFails \/ LoadFile \/ LoadFails
  BY <1>4 DEF AllocateFails, MapFails, LoadFile, LoadFails
<1>5. CASE CapstoneFails \/ GuestFails \/ AskForArguments
  BY <1>5 DEF CapstoneFails, GuestFails, AskForArguments
<1>6. CASE Instruction BY <1>6 DEF Instruction, Running
<1>7. CASE RunEnds BY <1>7 DEF RunEnds
<1>8. CASE NoDump \/ DumpFails BY <1>8 DEF NoDump, DumpFails, DumpPoint
<1>9. CASE Dump
  <2>1. icnt = cmd.dumpicnt /\ dumped = {}
    BY <1>9 DEF Dump, DumpPoint
  <2>2. dumped' = {icnt} /\ UNCHANGED <<cmd, icnt>> /\ at' = "hash"
    BY <1>9, <2>1 DEF Dump
  <2> QED BY <2>1, <2>2
<1>10. CASE Hash \/ Statistics BY <1>10 DEF Hash, Statistics
<1>11. CASE Unmap \/ DeleteArgv \/ FreeState \/ StopCapstone
  BY <1>11 DEF Unmap, DeleteArgv, FreeState, StopCapstone, Release
<1>12. CASE UNCHANGED vars BY <1>12 DEF vars
<1> QED
  BY <1>2, <1>3, <1>4, <1>5, <1>6, <1>7, <1>8, <1>9, <1>10, <1>11, <1>12 DEF Next

\* The inductive invariant holds of every process.
THEOREM MainInvariance == Spec => []IInv
<1>1. IInv /\ [Next]_vars => IInv'
  BY TypesKept, OrderKept, CountKept DEF IInv
<1> QED BY Begins, <1>1, PTL DEF Spec

\* The types of main's variables, the words taken from --args among them.
THEOREM MainTypes == Spec => []TypeOK
<1>1. IInv => TypeOK BY DEF IInv
<1> QED BY MainInvariance, <1>1, PTL

\* Nothing is used that is not held, and a process that returns 0 holds nothing.
THEOREM Ownership == Spec => []Owned
<1>1. IInv => Owned
  BY DEF IInv, TypeOK, HoldsInOrder, HeldAt, Owned, Needs, Points, Ended
<1> QED BY MainInvariance, <1>1, PTL

\* A snapshot is made exactly at the dump point.
THEOREM DumpPointExact == Spec => []DumpsAtThePoint
<1>1. IInv => DumpsAtThePoint
  BY Limits DEF IInv, TypeOK, CountsToTheDump, AfterDump, DumpsAtThePoint
<1> QED BY MainInvariance, <1>1, PTL
=============================================================================
