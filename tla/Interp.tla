------------------------------- MODULE Interp -------------------------------
(***************************************************************************)
(* The interpreter of interpret.cc: the loop of runRiscv, the iteration of *)
(* execRiscv and the system calls of handle_syscall.                       *)
(*                                                                         *)
(* An iteration is three steps here, in the order of the code: the fetch   *)
(* of the instruction word (loop test included), the look at tohost with   *)
(* the system call it may ask for, and the execution of the word fetched   *)
(* BEFORE that call.  "at" is the point the process has reached.  The host *)
(* kernel is the environment: its answers are the \E of the system calls.  *)
(***************************************************************************)
EXTENDS Alu

CONSTANTS
  Decode,        \* the instruction a word encodes
  TohostAddr,    \* globals::tohost_addr, globals::fromhost_addr: the two
  FromhostAddr,  \* cells load_elf finds in the symbol table
  ReadOnly,      \* addresses load_elf has protected with mprotect
  ResetPc,       \* 0x1000, where load_elf leaves pc
  Images,        \* the memories load_elf may leave
  MaxIcnts,      \* values of --maxicnt
  DumpIcnts,     \* values of --dumpicnt
  MaxFds,        \* descriptors the process may have open (RLIMIT_NOFILE)
  MaxIO,         \* bound: bytes one read or write transfers
  HostValues     \* bound: values lseek and times may return

Cell(a) == a .. a + 7

ASSUME Machine ==
  /\ Decode \in [Word -> Instructions]
  /\ ReadOnly \subseteq Word
  /\ ResetPc \in Word
  /\ Images \subseteq Memories
  /\ MaxIcnts \subseteq Nat
  /\ DumpIcnts \subseteq Nat
  /\ MaxFds \in Nat /\ MaxFds >= 3
  /\ MaxIO \in Nat
  /\ HostValues \subseteq Nat

(***************************************************************************)
(* The linker script of a guest gives tohost and fromhost eight bytes each *)
(* of its data; nothing in load_elf checks it.                             *)
(***************************************************************************)
ASSUME Mailbox ==
  /\ TohostAddr \in Word /\ FromhostAddr \in Word
  /\ Cell(TohostAddr) \subseteq Word
  /\ Cell(FromhostAddr) \subseteq Word
  /\ Cell(TohostAddr) \cap Cell(FromhostAddr) = {}

VARIABLES
  pc, last_pc, gpr, mem, brk, icnt, maxicnt,   \* state_t
  dumpIcnt,      \* the argument of runRiscv
  at,            \* "loop", "poll", "exec", or how the run has ended
  inst,          \* the local of execRiscv: the word fetched
  fds            \* the process's open descriptors, a part of the kernel

vars == <<pc, last_pc, gpr, mem, brk, icnt, maxicnt, dumpIcnt, at, inst, fds>>

Options == <<maxicnt, dumpIcnt>>

StdFds == {0, 1, 2}

Ended == {"returned", "exited", "aborted", "faulted"}

(***************************************************************************)
(* initState clears everything; main stores the limit, load_elf the image  *)
(* and pc.                                                                 *)
(***************************************************************************)
Init ==
  /\ pc = ResetPc
  /\ last_pc = 0
  /\ gpr = [r \in Reg |-> 0]
  /\ mem \in Images
  /\ brk = 0
  /\ icnt = 0
  /\ maxicnt \in MaxIcnts
  /\ dumpIcnt \in DumpIcnts
  /\ at = "loop"
  /\ inst = 0
  /\ fds = StdFds

\* The process is gone, with everything but what it did to its files.
Die(how) ==
  /\ at' = how
  /\ UNCHANGED <<pc, last_pc, gpr, mem, brk, icnt, Options, inst, fds>>

-----------------------------------------------------------------------------
(* runRiscv and the fetch.                                                 *)

RunningInclusive == brk = 0 /\ icnt <= maxicnt /\ icnt < dumpIcnt

Running == brk = 0 /\ icnt < maxicnt /\ icnt < dumpIcnt

Fetch ==
  /\ at = "loop"
  /\ Running
  /\ \E v \in Views(mem, pc, 4) : inst' = LoadWord(v, pc)
  /\ at' = "poll"
  /\ UNCHANGED <<pc, last_pc, gpr, mem, brk, icnt, Options, fds>>

FetchFault == at = "loop" /\ Running /\ ~InMap(pc, 4) /\ Die("faulted")

Return ==
  /\ at = "loop"
  /\ ~Running
  /\ at' = "returned"
  /\ UNCHANGED <<pc, last_pc, gpr, mem, brk, icnt, Options, inst, fds>>

-----------------------------------------------------------------------------
(* The look at tohost: 64 bits are read and the upper 32 masked off.       *)

Tohost   == LoadWord(mem, TohostAddr)
Fromhost == LoadDword(mem, FromhostAddr)

ToExecForgettingPc ==
  /\ at = "poll"
  /\ at' = "exec"
  /\ UNCHANGED <<pc, last_pc, gpr, icnt, Options, inst>>

\* handle_syscall returned, or was not called; execRiscv notes last_pc.
ToExec ==
  /\ at = "poll"
  /\ at' = "exec"
  /\ last_pc' = pc
  /\ UNCHANGED <<pc, gpr, icnt, Options, inst>>

PollIdle ==
  /\ ToExec
  /\ Tohost = 0
  /\ UNCHANGED <<mem, brk, fds>>

PollExitAcked ==
  /\ ToExec
  /\ Tohost % 2 = 1
  /\ brk' = 1
  /\ mem' = Store(mem, TohostAddr, 8, 0)
  /\ UNCHANGED fds

\* An odd tohost: brk is set, but execRiscv still executes inst.
PollExit ==
  /\ ToExec
  /\ Tohost % 2 = 1
  /\ brk' = 1
  /\ UNCHANGED <<mem, fds>>

Requested == at = "poll" /\ Tohost # 0 /\ Tohost % 2 = 0

-----------------------------------------------------------------------------
(* handle_syscall.  buf is the guest's mem + tohost, four 64-bit cells:    *)
(* the number and the result in buf[0], the arguments after it.            *)

SYS_open         == 55
SYS_close        == 57
SYS_lseek        == 62
SYS_read         == 63
SYS_write        == 64
SYS_stat         == 78
SYS_fstat        == 80
SYS_gettimeofday == 94
SYS_times        == 95

Served == {SYS_open, SYS_close, SYS_lseek, SYS_read, SYS_write, SYS_stat,
           SYS_fstat, SYS_gettimeofday, SYS_times}

\* What the buffer of the request may be read as; nothing without a request.
Buf == IF Requested THEN Views(mem, Tohost, 32) ELSE {}

Arg(v, k) == LoadDword(v, Tohost + 8 * k)

\* An argument passed as an int, and the descriptors are: 32 bits of the 64.
Fd(v) == ToWord(Arg(v, 1))

\* The cells of buf that the call for a number looks at.
Cells(number) ==
  CASE number \in {SYS_write, SYS_read, SYS_lseek}        -> 4
    [] number \in {SYS_open, SYS_fstat, SYS_gettimeofday} -> 3
    [] number \in {SYS_close, SYS_times}                  -> 2
    [] OTHER                                              -> 1

\* The fields of stat32_t that are assigned, and those assigned zero.
StatFields == (0 .. 13) \cup (16 .. 23) \cup (44 .. 51)
StatZeros  == (28 .. 31) \cup (36 .. 39)

At(a, offs) == {a + o : o \in offs}

(***************************************************************************)
(* The structures handle_syscall, or the vDSO for it, writes through mem.  *)
(* mem + 0 is not a null pointer: gettimeofday fills a null time zone at 0. *)
(***************************************************************************)
Structures(v) ==
  CASE Arg(v, 0) = SYS_fstat -> At(Arg(v, 2), StatFields \cup StatZeros)
    [] Arg(v, 0) = SYS_times -> At(Arg(v, 1), 0 .. 15)
    [] Arg(v, 0) = SYS_gettimeofday -> At(Arg(v, 1), 0 .. 15) \cup At(Arg(v, 2), 0 .. 7)
    [] OTHER -> {}

Writable(addrs) == addrs \cap ReadOnly = {}

\* The requests for call number whose structures can be written.
Asking(number) == {v \in Buf : Arg(v, 0) = number /\ Writable(Structures(v))}

Reply(m, r) == Store(m, Tohost, 8, r)

AckKeepingTohost(m) == Store(m, FromhostAddr, 8, 1)

\* The acknowledgement: tohost cleared, then fromhost set.
Ack(m) == Store(Store(m, TohostAddr, 8, 0), FromhostAddr, 8, 1)

\* The call ends with the guest's memory m and open descriptors f.
Complete(m, f) ==
  /\ ToExec
  /\ Writable(Cell(Tohost) \cup Cell(TohostAddr) \cup Cell(FromhostAddr))
  /\ mem' = Ack(m)
  /\ fds' = f
  /\ UNCHANGED brk

\* What read and write may return for a count of len.
Transferred(fd, len) ==
  IF fd \in fds THEN {r \in -1 .. MaxIO : r <= len} ELSE {-1}

SysWrite ==
  \E v \in Asking(SYS_write) :
    \E r \in Transferred(Fd(v), Arg(v, 3)) : Complete(Reply(mem, r), fds)

\* open takes the lowest free descriptor, or fails.
SysOpen ==
  /\ Asking(SYS_open) # {}
  /\ \/ Complete(Reply(mem, -1), fds)
     \/ \E n \in (0 .. MaxFds - 1) \ fds :
          0 .. n - 1 \subseteq fds /\ Complete(Reply(mem, n), fds \cup {n})

\* What close and fstat may return.
Status(fd) == IF fd \in fds THEN {-1, 0} ELSE {-1}

ClosesAny(v) == TRUE

\* The 64 bits of the argument are compared, not the int close takes.
Closes(v) == Arg(v, 1) > 2

\* close frees a descriptor even when it fails.
SysClose ==
  \E v \in Asking(SYS_close) :
    \/ ~Closes(v) /\ Complete(Reply(mem, 0), fds)
    \/ Closes(v) /\ \E r \in Status(Fd(v)) : Complete(Reply(mem, r), fds \ {Fd(v)})

FilledPadded(r) == 0 .. MaxIO - 1

\* Where in its buffer a read that returns r has stored bytes.
Filled(r) == 0 .. r - 1

\* The kernel refuses (-1) to write to a protected page.
SysRead ==
  \E v \in Asking(SYS_read) :
    \E r \in Transferred(Fd(v), Arg(v, 3)), x \in Byte :
      /\ Writable(At(Arg(v, 2), Filled(r)))
      /\ Complete(Reply(Fill(mem, Arg(v, 2), Filled(r), x), r), fds)

OffsetsWhenOpen(fd) == IF fd \in fds THEN HostValues ELSE {}

Offsets(fd) == {-1} \cup IF fd \in fds THEN HostValues ELSE {}

SysLseek ==
  \E v \in Asking(SYS_lseek) :
    \E r \in Offsets(Fd(v)) : Complete(Reply(mem, r), fds)

\* A failed fstat leaves native_stat uninitialised: it is copied all the same.
SysFstat ==
  \E v \in Asking(SYS_fstat) : \E r \in Status(Fd(v)), x \in Byte :
    LET stat == Fill(mem, Arg(v, 2), StatFields, x) IN
    Complete(Reply(Fill(stat, Arg(v, 2), StatZeros, 0), r), fds)

SysStat == Asking(SYS_stat) # {} /\ Complete(Reply(mem, 0), fds)

SysGettimeofday ==
  \E v \in Asking(SYS_gettimeofday) : \E x, y \in Byte :
    LET timeval == Fill(mem, Arg(v, 1), 0 .. 15, x) IN
    Complete(Reply(Fill(timeval, Arg(v, 2), 0 .. 7, y), 0), fds)

SysTimesAckFirst ==
  \E v \in Asking(SYS_times) : \E r \in HostValues, x \in Byte :
    /\ ToExec
    /\ mem' = Fill(Ack(Reply(mem, r)), Arg(v, 1), 0 .. 15, x)
    /\ UNCHANGED <<brk, fds>>

\* Here the result is stored before the structure.
SysTimes ==
  \E v \in Asking(SYS_times) : \E r \in HostValues, x \in Byte :
    Complete(Fill(Reply(mem, r), Arg(v, 1), 0 .. 15, x), fds)

\* exit(-1): any other number, the system calls interpret.hh names included.
SysUnsupported == (\E v \in Buf : Arg(v, 0) \notin Served) /\ Die("exited")

\* SIGSEGV: a store to a protected page or an access past the mapping.
SysFault ==
  /\ \E v \in Buf :
       \/ ~InMap(Tohost, 8 * Cells(Arg(v, 0)))
       \/ ~(Structures(v) \subseteq Word \ ReadOnly)
       \/ ~Writable(Cell(Tohost) \cup Cell(TohostAddr) \cup Cell(FromhostAddr))
  /\ Die("faulted")

Syscall ==
  \/ SysWrite \/ SysOpen \/ SysClose \/ SysRead \/ SysLseek \/ SysFstat
  \/ SysStat \/ SysGettimeofday \/ SysTimes \/ SysUnsupported \/ SysFault

-----------------------------------------------------------------------------
(* The switch on the opcode, for the word fetched.                         *)

I == Decode[inst]

Executing(op) == at = "exec" /\ I.op = op

WriteWide(r, x) == gpr' = [gpr EXCEPT ![r] = x]

Write(r, x) == gpr' = [gpr EXCEPT ![r] = ToWord(x)]

WriteEvenZero(r, x) == Write(r, x)

\* Most instructions leave x0 alone: a result for it is not even computed.
WriteUnlessZero(r, x) == IF r = 0 THEN UNCHANGED gpr ELSE Write(r, x)

RetireUncounted(next) ==
  /\ pc' = ToWord(next)
  /\ at' = "loop"
  /\ UNCHANGED <<icnt, last_pc, Options, inst, fds>>

\* The instruction is over and counted; next is the new pc.
Retire(next) ==
  /\ pc' = ToWord(next)
  /\ icnt' = icnt + 1
  /\ at' = "loop"
  /\ UNCHANGED <<last_pc, Options, inst, fds>>

Advance == Retire(pc + 4)

Ea == ToWord(I.imm + gpr[I.rs1])

LoadWidth ==
  [s \in {0, 1, 2, 4, 5} |-> IF s \in {0, 4} THEN 1 ELSE IF s = 2 THEN 4 ELSE 2]
StoreWidth == [s \in {0, 1, 2} |-> IF s = 0 THEN 1 ELSE IF s = 1 THEN 2 ELSE 4]

\* lb, lh, lw, lbu, lhu
Loaded(v, a, s) ==
  CASE s = 0 -> SignedByte(v[a])
    [] s = 1 -> SignedHalf(LoadHalf(v, a))
    [] s = 2 -> LoadWord(v, a)
    [] s = 4 -> v[a]
    [] s = 5 -> LoadHalf(v, a)

ExecLoad ==
  /\ Executing("load")
  /\ I.rd # 0
  /\ I.sel \in DOMAIN LoadWidth
  /\ \E v \in Views(mem, Ea, LoadWidth[I.sel]) : Write(I.rd, Loaded(v, Ea, I.sel))
  /\ Advance
  /\ UNCHANGED <<mem, brk>>

\* A load to x0 falls through to the fence: it touches neither memory nor sel.
ExecFence ==
  /\ \/ Executing("fence")
     \/ Executing("load") /\ I.rd = 0
  /\ Advance
  /\ UNCHANGED <<gpr, mem, brk>>

ExecOpImm ==
  /\ Executing("opimm")
  /\ \/ I.rd = 0 /\ UNCHANGED gpr
     \/ I.rd # 0 /\ ImmDefined(I) /\ Write(I.rd, ImmResult(I, gpr[I.rs1]))
  /\ Advance
  /\ UNCHANGED <<mem, brk>>

Stored == Ea .. Ea + StoreWidth[I.sel] - 1

ExecStore ==
  /\ Executing("store")
  /\ I.sel \in DOMAIN StoreWidth
  /\ Writable(Stored)
  /\ mem' = Store(mem, Ea, StoreWidth[I.sel], gpr[I.rs2])
  /\ Advance
  /\ UNCHANGED <<gpr, brk>>

ExecLui ==
  /\ Executing("lui")
  /\ WriteUnlessZero(I.rd, I.imm)
  /\ Advance
  /\ UNCHANGED <<mem, brk>>

ExecAuipc ==
  /\ Executing("auipc")
  /\ WriteUnlessZero(I.rd, pc + I.imm)
  /\ Advance
  /\ UNCHANGED <<mem, brk>>

JalrTargetRaw == Ea

\* The target is computed before rd, which may be rs1, is written.
JalrTarget == Ea - (Ea % 2)

ExecJalr ==
  /\ Executing("jalr")
  /\ WriteUnlessZero(I.rd, pc + 4)
  /\ Retire(JalrTarget)
  /\ UNCHANGED <<mem, brk>>

ExecJal ==
  /\ Executing("jal")
  /\ WriteUnlessZero(I.rd, pc + 4)
  /\ Retire(pc + I.imm)
  /\ UNCHANGED <<mem, brk>>

ExecOp ==
  /\ Executing("op")
  /\ \/ I.rd = 0 /\ UNCHANGED gpr
     \/ I.rd # 0 /\ OpDefined(I) /\ Write(I.rd, OpResult(I, gpr[I.rs1], gpr[I.rs2]))
  /\ Advance
  /\ UNCHANGED <<mem, brk>>

ExecBranch ==
  /\ Executing("branch")
  /\ BranchDefined(I)
  /\ Retire(IF Taken(I, gpr[I.rs1], gpr[I.rs2]) THEN pc + I.imm ELSE pc + 4)
  /\ UNCHANGED <<gpr, mem, brk>>

\* The rd and the fields above it are all zero: ecall, and only ecall.
IsEcall == I.rd = 0 /\ I.sel = 0 /\ I.rs1 = 0 /\ I.csr = 0

\* csrrs or csrrsi of cycle (0xc00), the one counter there is.
ReadsCycle == I.sel % 4 = 2 /\ I.csr = 3072

\* ecall stops the machine where it is.
ExecEcall ==
  /\ Executing("system")
  /\ IsEcall
  /\ brk' = 1
  /\ Retire(pc)
  /\ UNCHANGED <<gpr, mem>>

\* Here rd is not compared with zero.
ExecCsr ==
  /\ Executing("system")
  /\ ~IsEcall
  /\ IF ReadsCycle THEN Write(I.rd, icnt) ELSE UNCHANGED gpr
  /\ Advance
  /\ UNCHANGED <<mem, brk>>

ExecUnknown == Executing("unknown") /\ Die("exited")

\* assert(0) in a default case.
ExecAbort ==
  /\ \/ Executing("load")   /\ I.rd # 0 /\ I.sel \notin DOMAIN LoadWidth
     \/ Executing("opimm")  /\ I.rd # 0 /\ ~ImmDefined(I)
     \/ Executing("store")  /\ I.sel \notin DOMAIN StoreWidth
     \/ Executing("op")     /\ I.rd # 0 /\ ~OpDefined(I)
     \/ Executing("branch") /\ ~BranchDefined(I)
  /\ Die("aborted")

\* SIGSEGV past the mapping or in a protected page; SIGFPE of a division.
ExecFault ==
  /\ \/ /\ Executing("load")
        /\ I.rd # 0
        /\ I.sel \in DOMAIN LoadWidth
        /\ ~InMap(Ea, LoadWidth[I.sel])
     \/ /\ Executing("store")
        /\ I.sel \in DOMAIN StoreWidth
        /\ ~(Stored \subseteq Word \ ReadOnly)
     \/ /\ Executing("op")
        /\ I.rd # 0
        /\ OpDefined(I)
        /\ OpTraps(I, gpr[I.rs1], gpr[I.rs2])
  /\ Die("faulted")

Execute ==
  \/ ExecLoad \/ ExecFence \/ ExecOpImm \/ ExecStore \/ ExecLui \/ ExecAuipc
  \/ ExecJalr \/ ExecJal \/ ExecOp \/ ExecBranch \/ ExecEcall \/ ExecCsr
  \/ ExecUnknown \/ ExecAbort \/ ExecFault

Next == Fetch \/ FetchFault \/ Return \/ PollIdle \/ PollExit \/ Syscall \/ Execute

Spec == Init /\ [][Next]_vars

(***************************************************************************)
(* One thread, never blocked by the program itself: as long as a step is   *)
(* possible the host scheduler runs it, and the host's system calls        *)
(* return (a read from a terminal nobody types at is excluded).            *)
(***************************************************************************)
FairSpec == Spec /\ WF_vars(Next)

-----------------------------------------------------------------------------
(* Properties.                                                             *)

\* Every variable holds a value the C++ type of its counterpart can hold.
TypeOK ==
  /\ pc \in Word /\ last_pc \in Word /\ inst \in Word
  /\ gpr \in [Reg -> Word]
  /\ mem \in Memories
  /\ brk \in {0, 1}
  /\ icnt \in Nat /\ maxicnt \in Nat /\ dumpIcnt \in Nat
  /\ at \in {"loop", "poll", "exec"} \cup Ended
  /\ fds \in SUBSET (0 .. MaxFds - 1)

(***************************************************************************)
(* When an instruction executes, no request is pending, whatever the call  *)
(* just made has written and wherever: the acknowledgement comes last.     *)
(* Only a halt leaves tohost set.                                          *)
(***************************************************************************)
ServedBeforeExec == at = "exec" /\ brk = 0 => Tohost = 0

(***************************************************************************)
(* A request seen between two iterations, or left in memory for dumpState  *)
(* when the loop returns, was stored by the last instruction (or was in    *)
(* the image): none is left over from an earlier iteration, so none is     *)
(* served twice, and the one in a dump has not been served yet.            *)
(***************************************************************************)
RequestIsFresh ==
  at \in {"loop", "returned"} /\ icnt > 0 /\ brk = 0 /\ Tohost # 0 => I.op = "store"

\* An instruction changes one register, the one rd names, and x0 only when
\* the instruction is the read of the cycle counter (interpret.cc:458).
OneDestination ==
  [][\A r \in Reg : gpr'[r] # gpr[r] =>
        /\ at = "exec"
        /\ r = I.rd
        /\ r = 0 => I.op = "system" /\ ReadsCycle]_vars

(***************************************************************************)
(* Jumps keep pc even.  The decoder builds branch and jal offsets from     *)
(* bit 1 up; jalr adds a register, and must clear bit 0 of the sum.        *)
(***************************************************************************)
EvenOffsets ==
  /\ ResetPc % 2 = 0
  /\ \A w \in Word : Decode[w].op \in {"branch", "jal"} => Decode[w].imm % 2 = 0

PcEven == EvenOffsets => pc % 2 = 0

(***************************************************************************)
(* runRiscv returns at the limit exactly: never past either limit, never   *)
(* short of both unless the guest stopped.  main relies on it to decide,   *)
(* from icnt alone, whether the dump point was reached (main.cc:139).      *)
(***************************************************************************)
StopsExactly ==
  /\ icnt <= maxicnt /\ icnt <= dumpIcnt
  /\ at = "returned" => brk = 1 \/ icnt \in {maxicnt, dumpIcnt}

(***************************************************************************)
(* What a served call may change in the guest's memory: the result cell,   *)
(* the two mailbox cells, the structure of fstat, times or gettimeofday,   *)
(* and for read the bytes it reports in the result, no more.               *)
(***************************************************************************)
ReadBytes(v, r) == IF Arg(v, 0) = SYS_read THEN At(Arg(v, 2), 0 .. r - 1) ELSE {}

Footprint(v, r) ==
  Cell(Tohost) \cup Cell(TohostAddr) \cup Cell(FromhostAddr)
    \cup Structures(v) \cup ReadBytes(v, r)

CallFootprint ==
  [][Requested =>
       \E v \in Buf, r \in -1 .. MaxIO :
         /\ mem' # mem /\ Arg(v, 0) = SYS_read => mem' = Ack(Reply(mem', r))
         /\ \A a \in Word : mem'[a] # mem[a] => a \in Footprint(v, r)]_vars

(***************************************************************************)
(* The interpreter's own standard streams outlive every close a guest can  *)
(* ask for with an int: only an argument whose low 32 bits are 0, 1 or 2   *)
(* and whose high bits are not zero gets past the test of the 64 bits.     *)
(***************************************************************************)
StdStreamsStay ==
  [][\A f \in StdFds : f \in fds /\ f \notin fds' =>
       \E v \in Buf : Arg(v, 0) = SYS_close /\ Arg(v, 1) >= WordSize]_vars

(***************************************************************************)
(* The guest's side of the interface: an iteration is a look of the host   *)
(* followed by one instruction, as HtifPort has them.                      *)
(***************************************************************************)
Turn ==
  CASE at \in {"loop", "poll"} -> "host"
    [] at = "exec" -> "guest"
    [] OTHER -> "off"

Port == INSTANCE HtifPort WITH
          Requests <- Word, Replies <- 0 .. WordSize * WordSize - 1, Done <- 1,
          tohost <- Tohost, fromhost <- Fromhost, turn <- Turn, halting <- (brk = 1)

ImplementsPort == Port!Spec

(***************************************************************************)
(* A request the loop finds is answered or ends the run; no outcome of the *)
(* host's call, an error least of all, leaves the guest waiting.           *)
(***************************************************************************)
EveryRequestAnswered ==
  (at = "poll" /\ Requested) ~> ((Tohost = 0 /\ Fromhost = 1) \/ at \in Ended)

\* With a finite limit every run ends: no instruction escapes the count.
Terminates == <>(at \in Ended)

(***************************************************************************)
(* Claims of the repository that the code does not keep.                   *)
(***************************************************************************)

\* x0 is the register disassemble.cc:16 names "zero".
ZeroRegister == gpr[0] = 0

\* The toolchain of README.md is rv32im; funct7 1 is its M extension.  Each of its
\* eight functions has a result for every operand, so none makes the interpreter
\* give up, as mulhsu does, or kills it, as a division without a quotient may.
RunsRv32im == [][Executing("op") /\ I.special = 1 => at' = "loop"]_vars
=============================================================================
