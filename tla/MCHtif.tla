------------------------------- MODULE MCHtif -------------------------------
(***************************************************************************)
(* Guests at the mailbox of Interp: the ones of HtifImages, which keep to  *)
(* no protocol, and the stub of HtifGuest as a program, two calls, with    *)
(* the two stores in either order, and an exit.                            *)
(***************************************************************************)
EXTENDS MCInterp, HtifStub

Again     == Insn("branch", 0, 5, 0, 0, 0, -4)           \* beq x5, x0, Await
LowWord   == Post                                        \* sw x1, tohost
UpperWord == Insn("store", 0, 0, 2, 2, 0, MCTohost + 4)  \* sw x2, tohost + 4
Number(o) == Insn("store", 0, 0, IF o = 0 THEN 3 ELSE 0, 2, 0, Request + o)

Stores(upperFirst) ==
  IF upperFirst THEN <<UpperWord, LowWord>> ELSE <<LowWord, UpperWord>>

\* One call: the number into buf, the request, the wait for the answer.
StubCall(upperFirst, n) ==
  <<Li(3, n), Number(0), Number(4)>> \o Stores(upperFirst) \o <<Await, Again, Clear>>

Program(upperFirst, n1, n2) ==
  <<Li(1, Request), Li(2, 1)>> \o StubCall(upperFirst, n1) \o StubCall(upperFirst, n2)
    \o <<Li(1, 1), LowWord, Spin>>

NumberList == <<SYS_write, SYS_read, SYS_close, SYS_open, SYS_stat, 17>>

Numbers == Range(NumberList)

\* The instructions of all of them.
GuestTable ==
  Table
  \o <<Li(2, 1), Number(0), Number(4), UpperWord, Again>>
  \o [k \in 1 .. Len(NumberList) |-> Li(3, NumberList[k])]

GuestDecode ==
  LET t == GuestTable IN [w \in Word |-> IF w \in 1 .. Len(t) THEN t[w] ELSE Unknown]

ClientImages ==
  LET t == GuestTable IN
  {WithRequest(WithCode(t, Blank, Program(order, n1, n2)), <<0, fd, 112, 2>>) :
     order \in BOOLEAN, n1 \in Numbers, n2 \in {SYS_write, SYS_stat}, fd \in {1, 7}}

GuestImages == HtifImages \cup ClientImages

\* Where the programs have their two calls and the exit.
Calls1 == {MCResetPc + 4 * k : k \in {5, 13}}
Exit1  == MCResetPc + 4 * 19

StubRoles == <<"first", "second", "load", "test", "clear">>

MCRole ==
  [a \in {s + 4 * k : s \in Calls1, k \in 0 .. 4} \cup {Exit1, Exit1 + 4} |->
     IF a = Exit1 THEN "last" ELSE IF a = Exit1 + 4 THEN "spin"
     ELSE LET s == CHOOSE c \in Calls1 : a - c \in 0 .. 16
          IN  StubRoles[((a - s) \div 4) + 1]]

\* Five instructions for the ones.  For the stub more than it needs, so that its exit
\* ends the run, or so few that --maxicnt does, between its two calls.
GuestInit ==
  /\ Init
  /\ IF Linked THEN maxicnt \in {12, 60} /\ dumpIcnt = 70
              ELSE maxicnt = 5 /\ dumpIcnt = 9

GuestSpec == GuestInit /\ [][Next]_vars /\ WF_vars(Next)
=============================================================================
