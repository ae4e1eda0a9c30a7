----------------------------- MODULE HtifGuest -----------------------------
(***************************************************************************)
(* A guest at the mailbox of HtifPort: the system call stub of libgloss,   *)
(* from which interpret.hh takes its numbers.  On a 32-bit machine the     *)
(* 64-bit tohost takes two stores, in the order the compiler likes, and    *)
(* the host looks at it in between; then the stub spins on fromhost and    *)
(* clears it.  The stub is not in the repository: the numbers, the shape   *)
(* of a request and the two cells are those handle_syscall expects.        *)
(***************************************************************************)
EXTENDS Naturals, Functions

CONSTANTS
  Buffer,   \* where the stub builds a request: the low word of tohost
  Upper,    \* the upper word of a request: zero, or a device and a command
  Halted,   \* the odd value that ends the run
  Calls,    \* the numbers the guest asks for
  Served    \* the numbers handle_syscall has a case for

\* The numbers of libgloss-htif that interpret.hh lists.
SYS ==
  [getcwd |-> 17, fcntl |-> 25, mkdirat |-> 34, unlinkat |-> 35, linkat |-> 37,
   renameat |-> 38, ftruncate |-> 46, faccessat |-> 48, chdir |-> 49, open |-> 55,
   openat |-> 56, close |-> 57, lseek |-> 62, read |-> 63, write |-> 64,
   pread |-> 67, pwrite |-> 68, stat |-> 78, fstatat |-> 79, fstat |-> 80,
   exit |-> 93, gettimeofday |-> 94, times |-> 95, lstat |-> 1039,
   getmainvars |-> 2011]

ASSUME Stub ==
  /\ Buffer \in Nat \ {0} /\ Buffer % 2 = 0
  /\ Upper \in Nat
  /\ Halted \in Nat /\ Halted % 2 = 1
  /\ Served \subseteq Range(SYS)

VARIABLES
  tohost, fromhost, turn, halting,   \* HtifPort's
  upper,     \* the upper word of tohost, which the host masks off
  number,    \* buf[0] of the request under way
  cp,        \* the instruction the guest executes next
  seen       \* the register fromhost is loaded into

vars == <<tohost, fromhost, turn, halting, upper, number, cp, seen>>

Port == INSTANCE HtifPort WITH
          Requests <- {0, Buffer, Halted}, Replies <- {0, 1}, Done <- 1

Init ==
  /\ Port!Init
  /\ tohost = 0 /\ fromhost = 0
  /\ upper = 0
  /\ number \in Calls
  /\ cp = "work"
  /\ seen = 0

-----------------------------------------------------------------------------
(* The guest, one instruction at a time.                                   *)

Step(here, there) == Port!Instruction /\ UNCHANGED halting /\ cp = here /\ cp' = there

\* Anything that has nothing to do with the mailbox, the building of the
\* next request included.
Work ==
  /\ number' \in Calls
  /\ UNCHANGED <<tohost, fromhost, upper, seen>>
  /\ Step("work", "work")

PostLow(here, there) ==
  /\ tohost' = Buffer
  /\ UNCHANGED <<fromhost, upper, number, seen>>
  /\ Step(here, there)

PostUpper(here, there) ==
  /\ upper' = Upper
  /\ UNCHANGED <<tohost, fromhost, number, seen>>
  /\ Step(here, there)

LowFirst == PostLow("work", "upper") \/ PostUpper("upper", "load")

UpperFirst == PostUpper("work", "low") \/ PostLow("low", "load")

Load ==
  /\ seen' = fromhost
  /\ UNCHANGED <<tohost, fromhost, upper, number>>
  /\ Step("load", "test")

Test ==
  /\ UNCHANGED <<tohost, fromhost, upper, number, seen>>
  /\ IF seen = 0 THEN Step("test", "load") ELSE Step("test", "clear")

Clear ==
  /\ fromhost' = 0
  /\ UNCHANGED <<tohost, upper, number, seen>>
  /\ Step("clear", "work")

\* _exit: an odd tohost, and a loop that nothing in the guest ends.
Exit ==
  /\ tohost' = Halted
  /\ UNCHANGED <<fromhost, upper, number, seen>>
  /\ Step("work", "exit") \/ Step("exit", "exit")

Guest == Work \/ LowFirst \/ UpperFirst \/ Load \/ Test \/ Clear \/ Exit

-----------------------------------------------------------------------------
(* The host.                                                               *)

Client == <<number, cp, seen>>

Look == (Port!Idle \/ Port!Halt) /\ UNCHANGED <<upper, Client>>

\* Both words of tohost are cleared.
Serve ==
  /\ Port!Answer
  /\ number \in Served
  /\ upper' = 0
  /\ UNCHANGED Client

\* A number without a case, a halt, a limit, or the death of the interpreter.
End ==
  /\ turn # "off"
  /\ Port!Off
  /\ UNCHANGED <<upper, Client>>

Next == Guest \/ Look \/ Serve \/ End

Spec == Init /\ [][Next]_vars

\* The interpreter is one thread that never waits: as long as a step is possible,
\* one is taken.
FairSpec == Spec /\ WF_vars(Next)

-----------------------------------------------------------------------------
(* Properties.                                                             *)

TypeOK ==
  /\ tohost \in {0, Buffer, Halted} /\ fromhost \in {0, 1}
  /\ turn \in {"host", "guest", "off"} /\ halting \in BOOLEAN
  /\ upper \in {0, Upper}
  /\ number \in Calls
  /\ cp \in {"work", "low", "upper", "load", "test", "clear", "exit"}
  /\ seen \in {0, 1}

Pending  == tohost = Buffer /\ fromhost = 0
Answered == tohost = 0 /\ fromhost = 1 /\ number \in Served
Quiet    == tohost = 0 /\ fromhost = 0

(***************************************************************************)
(* From its low word on, whatever the order of the stores and wherever the *)
(* looks fall, a request is either pending or answered, never both and     *)
(* never neither; before it and after it the mailbox is empty.  So no      *)
(* request is lost, none is answered twice, and no answer is taken for the *)
(* next request's; and a number without a case is never acknowledged       *)
(* (interpret.cc:56-60 and 589-595).                                       *)
(***************************************************************************)
OneAnswer ==
  /\ cp \in {"work", "low"} => Quiet
  /\ cp \in {"upper", "load", "test"} => Pending \/ Answered
  /\ cp = "test" /\ seen # 0 => Answered
  /\ cp = "clear" => Answered

\* The stub returns from every call the host has a case for, unless the run
\* ends: an answer that comes before the second store is not missed.  And a guest
\* that exits has a loop behind its last store; the run ends all the same.
StubReturns ==
  /\ cp # "work" ~> (cp = "work" \/ cp = "exit" \/ turn = "off")
  /\ cp = "exit" ~> turn = "off"
=============================================================================
