------------------------------ MODULE HtifStub ------------------------------
(***************************************************************************)
(* The stub of HtifGuest as instructions in the memory of Interp, wherever *)
(* the linker has put it and however often, in a guest that keeps to it:   *)
(* the rest of the program leaves the mailbox and the stub alone, enters   *)
(* the stub at its first store, with a request ready, and asks for no call *)
(* whose results would lie over the stub.  Guests are not in the           *)
(* repository: their instructions are those execRiscv has a case for,      *)
(* their cells those of handle_syscall.                                    *)
(***************************************************************************)
EXTENDS Interp

CONSTANTS
  Role,         \* the stub's addresses, and what it has there
  BufAddr,      \* where the guest builds a request
  UpperValue,   \* the upper word of a request
  HaltValue,    \* what _exit stores in tohost
  LowReg, UpperReg, NumberReg, SeenReg   \* the registers the stub uses

Places == DOMAIN Role

\* Where the rest of the program may go.
Entrances == {"first", "last"}

Follows(a, roles) == ToWord(a + 4) \in Places /\ Role[ToWord(a + 4)] \in roles

Code == UNION {a .. a + 3 : a \in Places}

Mailboxes == Cell(TohostAddr) \cup Cell(FromhostAddr)

(***************************************************************************)
(* A stub is two stores, a loop of a load and a test, and a store; an exit *)
(* is a store and an endless loop.                                         *)
(***************************************************************************)
ASSUME Layout ==
  /\ Places \subseteq Word
  /\ Role \in [Places -> Entrances \cup {"second", "load", "test", "clear", "spin"}]
  /\ \A a \in Places :
       CASE Role[a] = "first"  -> Follows(a, {"second"})
         [] Role[a] = "second" -> Follows(a, {"load"})
         [] Role[a] = "load"   -> Follows(a, {"test"})
         [] Role[a] = "test"   -> /\ Follows(a, {"clear"})
                                  /\ a - 4 \in Places /\ Role[a - 4] = "load"
         [] Role[a] = "clear"  -> ToWord(a + 4) \in Places => Follows(a, Entrances)
         [] Role[a] = "last"   -> Follows(a, {"spin"})
         [] OTHER              -> TRUE
  /\ Code \subseteq Word \ Mailboxes
  /\ BufAddr \in Word \ {0} /\ BufAddr % 2 = 0
  /\ Cell(BufAddr) \subseteq Word \ Mailboxes
  /\ UpperValue \in Word
  /\ HaltValue \in Word /\ HaltValue % 2 = 1
  /\ {LowReg, UpperReg, NumberReg} \subseteq Reg
  /\ SeenReg \in Reg \ {0, LowReg, UpperReg, NumberReg}

-----------------------------------------------------------------------------
(* The instructions.                                                       *)

StoresWord(i, r, a) ==
  i.op = "store" /\ i.sel = 2 /\ i.rs1 = 0 /\ i.rs2 = r /\ i.imm = a

IsLow(i)   == StoresWord(i, LowReg, TohostAddr)
IsUpper(i) == StoresWord(i, UpperReg, TohostAddr + 4)
IsClear(i) == StoresWord(i, 0, FromhostAddr)

IsLoad(i) ==
  i.op = "load" /\ i.sel = 2 /\ i.rd = SeenReg /\ i.rs1 = 0 /\ i.imm = FromhostAddr

\* Back to the load, while it has found zero.
IsTest(i) ==
  i.op = "branch" /\ i.sel = 0 /\ i.rs1 = SeenReg /\ i.rs2 = 0 /\ i.imm = ToWord(-4)

IsSpin(i) == i.op = "jal" /\ i.rd = 0 /\ i.imm = 0

InsnAt(a) == Decode[LoadWord(mem, a)]

TohostUpper == LoadWord(mem, TohostAddr + 4)

\* The two words of tohost, in the order the compiler likes.
BothWords(i, j) == (IsLow(i) /\ IsUpper(j)) \/ (IsUpper(i) /\ IsLow(j))

Linked ==
  \A a \in Places :
    CASE Role[a] = "first" -> BothWords(InsnAt(a), InsnAt(ToWord(a + 4)))
      [] Role[a] = "load"  -> IsLoad(InsnAt(a))
      [] Role[a] = "test"  -> IsTest(InsnAt(a))
      [] Role[a] = "clear" -> IsClear(InsnAt(a))
      [] Role[a] = "last"  -> IsLow(InsnAt(a))
      [] Role[a] = "spin"  -> IsSpin(InsnAt(a))
      [] OTHER             -> TRUE

-----------------------------------------------------------------------------
(* What a guest keeps to.                                                  *)

Outside == pc \notin Places

\* A program starts outside the stub, with an empty mailbox.
Starts == Linked /\ Outside /\ \A a \in Mailboxes : mem[a] = 0

\* An instruction that is not the stub's.
Works ==
  at = "exec" /\ Outside /\ at' = "loop" =>
    /\ \A a \in Code \cup Mailboxes : mem'[a] = mem[a]
    /\ gpr'[0] = gpr[0] /\ gpr'[SeenReg] = gpr[SeenReg]
    /\ brk' = brk
    /\ pc' \in Places => Role[pc'] \in Entrances

\* The request is in buf when the stub is entered.
Ready ==
  at = "loop" /\ ~Outside =>
    /\ Role[pc] = "first" =>
         /\ gpr[LowReg] = BufAddr /\ gpr[UpperReg] = UpperValue
         /\ LoadDword(mem, BufAddr) = gpr[NumberReg]
    /\ Role[pc] = "last" => gpr[LowReg] = HaltValue

\* Nothing the host may write for the request lies over the stub.
Harmless == \A v \in Buf, r \in -1 .. MaxIO : Footprint(v, r) \cap Code = {}

StubInit == Init /\ Starts

StubNext == Next /\ Works /\ Ready' /\ Harmless'

StubSpec == StubInit /\ [][StubNext]_vars

-----------------------------------------------------------------------------
(* The mapping: where the guest stands is told by pc.                      *)

Point ==
  CASE Outside                             -> "work"
    [] ~Outside /\ Role[pc] \in Entrances  -> "work"
    [] ~Outside /\ Role[pc] = "second"     -> IF IsLow(InsnAt(pc)) THEN "low" ELSE "upper"
    [] ~Outside /\ Role[pc] = "spin"       -> "exit"
    [] OTHER                               -> Role[pc]

\* A guest with no stub in it is shown as a stub at rest.
OfGuest(client, rest) == IF Linked THEN client ELSE rest

Guest == INSTANCE HtifGuest WITH
           Buffer <- BufAddr, Upper <- UpperValue, Halted <- HaltValue, Calls <- Word,
           tohost <- OfGuest(Tohost, 0), fromhost <- OfGuest(Fromhost, 0),
           turn <- OfGuest(Turn, "host"), halting <- OfGuest(brk = 1, FALSE),
           upper <- OfGuest(TohostUpper, 0),
           number <- OfGuest(gpr[NumberReg], 0),
           cp <- OfGuest(Point, "work"), seen <- OfGuest(gpr[SeenReg], 0)

(***************************************************************************)
(* execRiscv and handle_syscall serve the stub as HtifGuest has it: polled *)
(* before each of its instructions, between the two stores of a request    *)
(* too, they answer each request once, and the stub finds the answer.      *)
(***************************************************************************)
ServesStub == Guest!Spec
=============================================================================
