----------------------------- MODULE MainProgram -----------------------------
(***************************************************************************)
(* main of main.cc: one process from its command line to its exit status.  *)
(* What it calls is seen from here by how it ends: load_elf (LoadElf), the *)
(* instructions of runRiscv (Interp), dumpState (SaveState), and the life  *)
(* of the disassembler's handle (disassemble.cc), which the log and the    *)
(* message about an unknown opcode use.                                    *)
(***************************************************************************)
EXTENDS Integers, FiniteSetsExt

CONSTANTS
  MARGS,     \* 20: the most arguments taken from --args
  Commands   \* the command lines

\* args is the number of words of --args; the limits' default is ~0UL.
CommandLines ==
  [parses : BOOLEAN, help : BOOLEAN, file : STRING, args : Nat, hash : BOOLEAN,
   maxicnt : Nat, dumpicnt : Nat, silent : BOOLEAN, log : BOOLEAN]

ASSUME Lines == MARGS \in Nat /\ Commands \subseteq CommandLines

VARIABLES
  cmd,          \* the options
  at,           \* what main does next, or how the process has ended
  held,         \* what has been acquired and not released
  sysArgc,      \* globals::sysArgc
  icnt, brk,    \* of state_t
  asked,        \* the guest has asked for its arguments
  dumped,       \* the counts at which a snapshot was written
  out           \* what was printed

vars == <<cmd, at, held, sysArgc, icnt, brk, asked, dumped, out>>

Run == <<icnt, brk, asked, dumped>>

Points ==
  {"parse", "argv", "state", "map", "load", "capstone", "run", "dump", "hash",
   "stats", "munmap", "delete", "free", "stop"}

Ended == {"done", "failed", "aborted", "faulted"}

Messages == {"command-line error", "banner", "no file", "capstone error",
             "instructions", "crc32", "statistics"}

Init ==
  /\ cmd \in Commands
  /\ at = "parse"
  /\ held = {}
  /\ sysArgc = 0
  /\ icnt = 0 /\ brk = 0
  /\ asked = FALSE
  /\ dumped = {}
  /\ out = {}

Goto(here, there) == at = here /\ at' = there /\ UNCHANGED cmd

Say(condition, message) == out' = IF condition THEN out \cup {message} ELSE out

\* The process ends here, without main's own cleaning up.
EndsAt(here, how) ==
  Goto(here, how) /\ UNCHANGED <<held, sysArgc, Run, out>>

-----------------------------------------------------------------------------
(* The command line.                                                       *)

ParseError ==
  /\ ~cmd.parses
  /\ Goto("parse", "failed")
  /\ Say(TRUE, "command-line error")
  /\ UNCHANGED <<held, sysArgc, Run>>

\* --help is known to the parser, and nobody asks whether it was given.
Parse ==
  /\ cmd.parses
  /\ IF cmd.file = ""
     THEN Goto("parse", "failed") /\ out' = out \cup {"no file"}
                                      \cup (IF cmd.silent THEN {} ELSE {"banner"})
     ELSE Goto("parse", "argv") /\ Say(~cmd.silent, "banner")
  /\ UNCHANGED <<held, sysArgc, Run>>

\* cnt <= MARGS.
BuildArgcArgvInclusive ==
  /\ Goto("argv", "state")
  /\ sysArgc' = 1 + Min({cmd.args, MARGS + 1})
  /\ held' = held \cup {"argv"}
  /\ UNCHANGED <<Run, out>>

\* The file's name, and the first MARGS words.
BuildArgcArgv ==
  /\ Goto("argv", "state")
  /\ sysArgc' = 1 + Min({cmd.args, MARGS})
  /\ held' = held \cup {"argv"}
  /\ UNCHANGED <<Run, out>>

-----------------------------------------------------------------------------
(* What the run needs.                                                     *)

Acquire(here, there, resource) ==
  /\ Goto(here, there)
  /\ held' = held \cup {resource}
  /\ UNCHANGED <<sysArgc, Run, out>>

Release(here, there, resource) ==
  /\ Goto(here, there)
  /\ held' = held \ {resource}
  /\ UNCHANGED <<sysArgc, Run, out>>

\* posix_memalign's answer is not looked at: initState clears what is at null.
AllocateState == Acquire("state", "map", "state")
AllocateFails == EndsAt("state", "faulted")

MapMemory == Acquire("map", "load", "memory")
MapFails  == EndsAt("map", "aborted")

LoadFile  == EndsAt("load", "capstone")
LoadFails == \E how \in {"failed", "aborted", "faulted"} : EndsAt("load", how)

\* Only for the log: the message about an unknown opcode is forgotten.
InitCapstoneForLog ==
  IF cmd.log THEN Acquire("capstone", "run", "capstone") ELSE EndsAt("capstone", "run")

InitCapstone == Acquire("capstone", "run", "capstone")

CapstoneFails ==
  /\ Goto("capstone", "failed")
  /\ Say(TRUE, "capstone error")
  /\ UNCHANGED <<held, sysArgc, Run>>

-----------------------------------------------------------------------------
(* runRiscv, from main's point of view.                                    *)

Running == brk = 0 /\ icnt < cmd.maxicnt /\ icnt < cmd.dumpicnt

\* One iteration; ecall and an exit request set brk and are counted too.
Instruction ==
  /\ at = "run" /\ Running
  /\ icnt' = icnt + 1
  /\ brk' \in {0, 1}
  /\ Say(cmd.log, "instructions")
  /\ UNCHANGED <<cmd, at, held, sysArgc, asked, dumped>>

\* An unknown opcode, which is disassembled; an assertion; a signal.
GuestFails ==
  /\ Running
  /\ \E how \in {"failed", "aborted", "faulted"} : Goto("run", how)
  /\ Say(TRUE, "instructions")
  /\ UNCHANGED <<held, sysArgc, Run>>

\* SYS_getmainvars is a number without a case: exit(-1).
AskForArguments ==
  /\ Running
  /\ Goto("run", "failed")
  /\ asked' = TRUE
  /\ UNCHANGED <<held, sysArgc, icnt, brk, dumped, out>>

RunEnds == ~Running /\ EndsAt("run", "dump")

-----------------------------------------------------------------------------
(* What is done with the machine the run has left, and the way out.        *)

\* The other limit was reached, or the guest has stopped: no dump then.
DumpPointUnlessStopped == brk = 0 /\ icnt >= cmd.dumpicnt

DumpPoint == icnt >= cmd.dumpicnt

Dump ==
  /\ DumpPoint
  /\ Goto("dump", "hash")
  /\ dumped' = dumped \cup {icnt}
  /\ UNCHANGED <<held, sysArgc, icnt, brk, asked, out>>

NoDump    == ~DumpPoint /\ EndsAt("dump", "hash")
DumpFails == DumpPoint /\ EndsAt("dump", "aborted")

Hash ==
  /\ Goto("hash", "stats")
  /\ Say(cmd.hash, "crc32")
  /\ UNCHANGED <<held, sysArgc, Run>>

Statistics ==
  /\ Goto("stats", "munmap")
  /\ Say(~cmd.silent, "statistics")
  /\ UNCHANGED <<held, sysArgc, Run>>

Unmap == Release("munmap", "delete", "memory")

DeleteArgv   == Release("delete", "free", "argv")
FreeState    == Release("free", "stop", "state")
StopCapstone == Release("stop", "done", "capstone")

Next ==
  \/ ParseError \/ Parse \/ BuildArgcArgv
  \/ AllocateState \/ AllocateFails \/ MapMemory \/ MapFails
  \/ LoadFile \/ LoadFails \/ InitCapstone \/ CapstoneFails
  \/ Instruction \/ GuestFails \/ AskForArguments \/ RunEnds
  \/ Dump \/ NoDump \/ DumpFails \/ Hash \/ Statistics
  \/ Unmap \/ DeleteArgv \/ FreeState \/ StopCapstone

Spec == Init /\ [][Next]_vars

-----------------------------------------------------------------------------
(* Properties.                                                             *)

\* The types of the code's variables, and what main prints.
TypeOK ==
  /\ cmd \in Commands
  /\ at \in Points \cup Ended
  /\ held \subseteq {"argv", "state", "memory", "capstone"}
  /\ sysArgc \in 0 .. MARGS + 1
  /\ icnt \in Nat /\ brk \in {0, 1}
  /\ asked \in BOOLEAN
  /\ dumped \subseteq Nat
  /\ out \subseteq Messages

\* What the code at a point touches.
Needs ==
  [p \in Points |->
     CASE p = "load"   -> {"state", "memory"}
       [] p = "run"    -> {"state", "memory", "capstone"}
       [] p = "dump"   -> {"state", "memory"}
       [] p = "hash"   -> {"state", "memory"}
       [] p = "stats"  -> {"state"}
       [] p = "munmap" -> {"memory"}
       [] p = "delete" -> {"argv"}
       [] p = "free"   -> {"state"}
       [] p = "stop"   -> {"capstone"}
       [] OTHER        -> {}]

\* Nothing is used before it is there or after it was given back, on no path of
\* options and failures, the disassembler of the message about an unknown opcode
\* included; and a process that returns 0 has given everything back.
Owned ==
  /\ at \in Points => Needs[at] \subseteq held
  /\ at = "done" => held = {}

\* A process that returns 0 leaves a snapshot exactly if its guest has executed
\* dumpicnt instructions, and then of the machine at that very count, whether
\* the dump limit, --maxicnt, or the guest itself with its last instruction
\* stopped the run there; so with --dumpicnt 0 it is the machine as loaded.
DumpsAtThePoint ==
  /\ dumped \subseteq {cmd.dumpicnt}
  /\ at = "done" => (dumped # {} <=> icnt = cmd.dumpicnt)

\* main.cc:79: --args are "arguments to rv32 binary", so a binary that asks for
\* its arguments does not end the process for it.
ArgumentsReachGuest == asked => at # "failed"
=============================================================================
