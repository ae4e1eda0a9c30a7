------------------------------ MODULE Program -------------------------------
(***************************************************************************)
(* The parts put together as main does (main.cc:132-136): load_elf fills   *)
(* the memory and says where the mailbox is, initCapstone is called, and   *)
(* runRiscv executes what was loaded.  The loader works on image, which is *)
(* the guest's memory while it works and afterwards remembers what it      *)
(* left.                                                                   *)
(*                                                                         *)
(* Interp takes the mailbox, the protected bytes and the first pc as       *)
(* constants.  They are those of the file loaded: where load_elf finds     *)
(* others, the run is another instance of this module, and this one ends.  *)
(* It ends too where load_elf has protected memory behind the mapping: what*)
(* becomes of a process that may not write to its own memory is open.      *)
(***************************************************************************)
EXTENDS Interp, Sequences

CONSTANTS
  Page, HostPage, ShSize, Stray, Ends, Files,   \* LoadElf's
  Switches                                      \* the options hash, silent and log

VARIABLES
  elf, stage, index, image, shield,       \* file, at, i, mem and prot of LoadElf
  strtabidx, symtabidx, symtab, tohost_addr, fromhost_addr, start

\* load_elf, with what is proved about it.
Loader == INSTANCE LoadElfProofs WITH
            MapSize <- WordSize, file <- elf, at <- stage, i <- index, mem <- image,
            prot <- shield, pc <- start

loaderVars ==
  <<elf, stage, index, image, shield, strtabidx, symtabidx, symtab, tohost_addr,
    fromhost_addr, start>>

wholeVars == <<vars, loaderVars>>

\* initState has cleared the state; nothing runs yet.
WholeInit ==
  /\ Loader!Init
  /\ at = "off"
  /\ pc = 0 /\ last_pc = 0 /\ inst = 0
  /\ gpr = [r \in Reg |-> 0]
  /\ mem = image
  /\ brk = 0 /\ icnt = 0
  /\ maxicnt \in MaxIcnts /\ dumpIcnt \in DumpIcnts
  /\ fds = StdFds

Load ==
  /\ at = "off"
  /\ Loader!Next
  /\ UNCHANGED vars

\* The constants of Interp are those of the file.
Described ==
  /\ image \in Images
  /\ start = ResetPc
  /\ shield = ReadOnly
  /\ tohost_addr = TohostAddr /\ fromhost_addr = FromhostAddr

\* load_elf has returned: the interpreter starts on what it left.
Enter ==
  /\ at = "off" /\ stage = "loaded"
  /\ Described
  /\ at' = "loop"
  /\ mem' = image /\ pc' = start
  /\ UNCHANGED <<last_pc, gpr, brk, icnt, Options, inst, fds, loaderVars>>

Interpret ==
  /\ at # "off"
  /\ Next
  /\ UNCHANGED loaderVars

WholeNext == Load \/ Enter \/ Interpret

WholeSpec == WholeInit /\ [][WholeNext]_wholeVars

-----------------------------------------------------------------------------
(* What main sees of it.                                                   *)

CommandLine ==
  [parses |-> TRUE, help |-> FALSE, file |-> "program", args |-> 0,
   hash |-> Switches.hash, silent |-> Switches.silent, log |-> Switches.log,
   maxicnt |-> maxicnt, dumpicnt |-> dumpIcnt]

\* What main does next when load_elf or runRiscv is over.
Sequel ==
  [loaded |-> "capstone", returned |-> "dump",
   exited |-> "failed", aborted |-> "aborted", faulted |-> "faulted"]

MainPoint ==
  LET reached == IF at = "off" THEN stage ELSE at
  IN  IF reached \in DOMAIN Sequel THEN Sequel[reached]
      ELSE IF at = "off" THEN "load" ELSE "run"

\* An exit request counts with the instruction executed after it.
Stopped == IF at \in {"loop", "returned"} THEN brk ELSE 0

Output ==
  (IF Switches.silent THEN {} ELSE {"banner"}) \cup
  (IF (Switches.log /\ icnt > 0) \/ at \in {"exited", "aborted", "faulted"}
   THEN {"instructions"} ELSE {})

Main == INSTANCE MainProgram WITH
          MARGS <- 0, Commands <- {}, cmd <- CommandLine, at <- MainPoint,
          held <- {"argv", "state", "memory"} \cup (IF at = "off" THEN {} ELSE {"capstone"}),
          sysArgc <- 1, icnt <- icnt, brk <- Stopped, asked <- FALSE, dumped <- {},
          out <- Output

-----------------------------------------------------------------------------
(* Properties.                                                             *)

\* The instructions of a page that belongs as a whole to an executable section are
\* those of the file for as long as the guest runs: load_elf puts them there
\* (loadelf.cc:120-131) and protects them (loadelf.cc:136-149), the boot ROM does
\* not lie over them, and nothing handle_syscall or a store does gets past that.
TextAsLinked ==
  at # "off" /\ HostPage = Page =>
    \A n \in 0 .. Len(elf.shs) - 1 :
      Loader!Executable(Loader!Section(n)) /\ Loader!Section(n).addr % Page = 0 =>
        \A a \in Loader!Extent(n) \cap Word :
          Loader!Whole(a) \subseteq Loader!Extent(n) =>
            mem[a] = Loader!ImageByte(Len(elf.phs), a)

\* From the call of load_elf to the end of runRiscv, main's view of the two by how
\* they end, of an iteration by what it counts, is right (MainProgram's actions
\* at "load", "capstone" and "run").
MainSeesIt ==
  /\ MainPoint = "load" /\ icnt = 0 /\ Stopped = 0
  /\ [][Main!Next]_(Main!vars)
=============================================================================
