--------------------------------- MODULE Log --------------------------------
(***************************************************************************)
(* What a run of Interp prints on stdout: the lines of --log, the report   *)
(* of an unknown opcode, and what the guest writes to descriptor 1.  The   *)
(* interpreter's own text goes through the buffer of stdio, the guest's    *)
(* through write(2), past it; a run that is killed loses the buffer.       *)
(***************************************************************************)
EXTENDS Interp, SequencesExt

CONSTANTS
  Logging,   \* globals::log
  Known      \* the instruction words capstone disassembles

VARIABLE stdout   \* the buffer, what left through descriptor 1, whether text was lost

logVars == <<vars, stdout>>

LogInit == Init /\ stdout = [held |-> <<>>, sent |-> <<>>, lost |-> FALSE]

-----------------------------------------------------------------------------
(* stdio: c is a value of stdout, open the descriptors open as it prints.   *)

Sent(c, open, text) ==
  IF 1 \in open THEN [c EXCEPT !.sent = @ \o text] ELSE [c EXCEPT !.lost = TRUE]

Flush(c, open) ==
  IF c.held = <<>> THEN c ELSE [Sent(c, open, c.held) EXCEPT !.held = <<>>]

Held(c, entry) == [c EXCEPT !.held = Append(@, entry)]

\* The buffer is written out when it is full, and by line to a terminal.
Puts(c, open, entry) == {Held(c, entry), Flush(Held(c, entry), open)}

-----------------------------------------------------------------------------
(* The entries.                                                            *)

\* The instruction in the text; none in "huh?", for a word capstone does not know.
GetAsmString(word) == {word} \cap Known

Line(kind) == [kind |-> kind, pc |-> pc, asm |-> GetAsmString(inst), icnt |-> icnt]

regNames ==
  <<"zero", "ra", "sp", "gp", "tp", "t0", "t1", "t2", "s0", "s1", "a0", "a1", "a2",
    "a3", "a4", "a5", "a6", "a7", "s2", "s3", "s4", "s5", "s6", "s7", "s8", "s9",
    "s10", "s11", "t3", "t4", "t5", "t6">>

GetGPRName(r) == regNames[(r % 32) + 1]

\* operator<<: the pc printed is last_pc; a register is known by its name.
Dump ==
  [kind |-> "state", pc |-> last_pc, icnt |-> icnt,
   regs |-> {<<GetGPRName(r), gpr[r]>> : r \in Reg}]

\* No line for the instruction an exit request comes with.
LoggedUnlessHalted(c) ==
  IF Logging /\ brk' = 0 THEN Puts(c, fds', Line("line")) ELSE {c}

\* A system call may have closed the descriptor the line would leave through.
Logged(c) == IF Logging THEN Puts(c, fds', Line("line")) ELSE {c}

-----------------------------------------------------------------------------
(* The steps of Interp, with what they print.                              *)

Silently ==
  /\ Fetch \/ FetchFault \/ Return
  /\ UNCHANGED stdout

\* The line comes after the look at tohost and before the instruction.
LogPoll ==
  /\ \/ PollIdle \/ PollExit
     \/ SysOpen \/ SysClose \/ SysRead \/ SysLseek \/ SysFstat \/ SysStat
     \/ SysGettimeofday \/ SysTimes
  /\ stdout' \in Logged(stdout)

FlushesStderr(v) == Arg(v, 1) = 2

\* The 64 bits of the argument are compared, not the int write takes.
FlushesStdout(v) == Arg(v, 1) = 1

Text(v) == <<[kind |-> "guest", wide |-> Arg(v, 1) >= WordSize, icnt |-> icnt]>>

\* write goes past the buffer, and the buffer is flushed behind it.
LogWrite ==
  \E v \in Asking(SYS_write) :
    \E r \in Transferred(Fd(v), Arg(v, 3)) :
      LET written == IF Fd(v) = 1 /\ r > 0 THEN Sent(stdout, fds, Text(v)) ELSE stdout
          flushed == IF FlushesStdout(v) THEN Flush(written, fds) ELSE written IN
      /\ Complete(Reply(mem, r), fds)
      /\ stdout' \in Logged(flushed)

\* The result of a write that took place cannot be stored: no flush any more.
LogSysFault ==
  /\ SysFault
  /\ \/ UNCHANGED stdout
     \/ \E v \in Buf :
          /\ Arg(v, 0) = SYS_write /\ Fd(v) = 1 /\ Arg(v, 3) > 0
          /\ stdout' = Sent(stdout, fds, <<[kind |-> "cut", icnt |-> icnt]>>)

LogUnsupported ==
  /\ SysUnsupported
  /\ stdout' = Flush(Held(stdout, [kind |-> "unsupported", icnt |-> icnt]), fds)

LogExecute ==
  /\ \/ ExecLoad \/ ExecFence \/ ExecOpImm \/ ExecStore \/ ExecLui \/ ExecAuipc
     \/ ExecJalr \/ ExecJal \/ ExecOp \/ ExecBranch \/ ExecEcall \/ ExecCsr
     \/ ExecFault
  /\ UNCHANGED stdout

\* Loads and stores say nothing before their assertion, the others what they lack;
\* abort flushes nothing.
LogAbort ==
  /\ ExecAbort
  /\ stdout' \in IF I.op \in {"load", "store"} THEN {stdout}
                 ELSE Puts(stdout, fds, [kind |-> "implement", icnt |-> icnt])

\* With or without --log, and exit flushes.
LogUnknown ==
  /\ ExecUnknown
  /\ stdout' = Flush(Held(Held(stdout, Line("unknown")), Dump), fds)

LogNext ==
  \/ Silently \/ LogPoll \/ LogWrite \/ LogSysFault \/ LogUnsupported
  \/ LogExecute \/ LogAbort \/ LogUnknown

LogSpec == LogInit /\ [][LogNext]_logVars

-----------------------------------------------------------------------------
(* Properties.                                                             *)

Printed == stdout.sent \o stdout.held

LinesOf(s) == {e \in ToSet(s) : e.kind = "line"}

InOrder(s) ==
  \A j, k \in DOMAIN s :
    j < k /\ s[j].kind = "line" /\ s[k].kind = "line" => s[j].icnt < s[k].icnt

\* How many instructions have begun; one that ends the run may have or not.
Begun ==
  CASE at = "exec"                         -> {icnt + 1}
    [] at \in {"loop", "poll", "returned"} -> {icnt}
    [] OTHER                               -> {icnt, icnt + 1}

(***************************************************************************)
(* The log of a run has one line for each instruction begun, in order, and *)
(* none for an instruction a system call has kept from beginning; while an *)
(* instruction executes, the last line is its own, with the word that was  *)
(* fetched, whatever the call in between has stored there (interpret.cc:44 *)
(* and 63-70).                                                             *)
(***************************************************************************)
OneLineEach ==
  Logging /\ ~stdout.lost =>
    /\ InOrder(Printed)
    /\ \E n \in Begun : {e.icnt : e \in LinesOf(Printed)} = 0 .. n - 1
    /\ at = "exec" =>
         \A e \in LinesOf(Printed) :
           e.icnt = icnt => e.pc = pc /\ e.asm = GetAsmString(inst)

(***************************************************************************)
(* After a guest has printed, no older text of the interpreter is left in  *)
(* the buffer: a run that is killed later has shown it all.  It may stand  *)
(* behind the guest's own text, and a print that itself kills the run, or  *)
(* one through a descriptor wider than an int, leaves it where it was      *)
(* (interpret.cc:516-522).                                                 *)
(***************************************************************************)
ShownByPrint ==
  \A e \in ToSet(stdout.sent), h \in ToSet(stdout.held) :
    e.kind = "guest" /\ ~e.wide => h.icnt >= e.icnt

(***************************************************************************)
(* A run that ends with exit(-1) has nothing in the buffer, and its last   *)
(* words name the culprit: for an unknown opcode the pc of that very       *)
(* instruction, although the report prints last_pc, and every register by  *)
(* a name of its own (interpret.cc:471-481).                               *)
(***************************************************************************)
LastWords ==
  at = "exited" /\ ~stdout.lost =>
    /\ stdout.held = <<>>
    /\ LET last == Last(stdout.sent) IN
       \/ last.kind = "unsupported"
       \/ /\ last.kind = "state" /\ last.pc = pc
          /\ Cardinality(last.regs) = Cardinality(Reg)
=============================================================================
