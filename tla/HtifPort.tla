------------------------------ MODULE HtifPort ------------------------------
(***************************************************************************)
(* What execRiscv promises a guest about the host-target interface: two    *)
(* memory cells, tohost and fromhost, and a host that looks at tohost      *)
(* exactly once before every guest instruction.  A request (an even,       *)
(* nonzero tohost) is answered in that one look, so no guest instruction   *)
(* ever runs while a request is pending; an odd tohost halts the machine   *)
(* and is neither cleared nor acknowledged.  Between two looks the guest   *)
(* executes one instruction, which may leave anything in the cells.        *)
(***************************************************************************)
EXTENDS Naturals

CONSTANTS
  Requests,   \* the values of the low word of tohost
  Replies,    \* the values of fromhost
  Done        \* the value of fromhost that acknowledges a request

VARIABLES
  tohost, fromhost,
  turn,       \* "host" looks at the cells, "guest" executes, "off" is over
  halting     \* the loop will not run another instruction after this one

portVars == <<tohost, fromhost, turn, halting>>

Init ==
  /\ tohost \in Requests
  /\ fromhost \in Replies
  /\ turn = "host"
  /\ halting = FALSE

Host == turn = "host" /\ ~halting /\ turn' = "guest"

IdleThoughAsked == Host /\ UNCHANGED <<tohost, fromhost, halting>>

Idle ==
  /\ Host
  /\ tohost = 0
  /\ UNCHANGED <<tohost, fromhost, halting>>

AnswerKeepingTohost ==
  /\ Host
  /\ tohost # 0
  /\ tohost % 2 = 0
  /\ fromhost' = Done
  /\ UNCHANGED <<tohost, halting>>

Answer ==
  /\ Host
  /\ tohost # 0
  /\ tohost % 2 = 0
  /\ tohost' = 0
  /\ fromhost' = Done
  /\ UNCHANGED halting

Halt ==
  /\ Host
  /\ tohost % 2 = 1
  /\ halting' = TRUE
  /\ UNCHANGED <<tohost, fromhost>>

Instruction ==
  /\ turn = "guest"
  /\ turn' = "host"
  /\ tohost' \in Requests
  /\ fromhost' \in Replies
  /\ halting' \in {halting, TRUE}

\* The run ends: a limit, a halt, or the death of the interpreter.
Off ==
  /\ turn' = "off"
  /\ UNCHANGED <<tohost, fromhost, halting>>

Next == Idle \/ Answer \/ Halt \/ Instruction \/ Off

Spec == Init /\ [][Next]_portVars
=============================================================================
