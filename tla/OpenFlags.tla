----------------------------- MODULE OpenFlags ------------------------------
(***************************************************************************)
(* remapIOFlags of helper.cc: the flags of a guest's open, which are       *)
(* newlib's, become the host's, name by name.  Flags are the set of the    *)
(* bits that are 1; Host is what the host's fcntl.h gives each name, and   *)
(* the only bits both sides agree on by number are the access mode's.      *)
(***************************************************************************)
EXTENDS Integers, Sequences

CONSTANTS
  Host,      \* the host's bits of every name
  Requests   \* the third words of an open request

VARIABLES
  word,      \* buf[2], 64 bits
  flags,     \* the parameter, an int32_t
  i, nflags  \* loop counter and result

vars == <<word, flags, i, nflags>>

\* Bit numbers of _SIM_F...: 0x0008, 0x0200, ...
Sim ==
  [O_RDONLY |-> {},   O_WRONLY |-> {0},  O_RDWR |-> {1},      O_APPEND |-> {3},
   O_CREAT  |-> {9},  O_TRUNC  |-> {10}, O_EXCL |-> {11},     O_SYNC   |-> {13},
   O_NONBLOCK |-> {14}, O_NOCTTY |-> {15}]

simIOFlags ==
  <<Sim.O_RDONLY, Sim.O_WRONLY, Sim.O_RDWR, Sim.O_APPEND, Sim.O_CREAT,
    Sim.O_TRUNC, Sim.O_EXCL, Sim.O_SYNC, Sim.O_NONBLOCK, Sim.O_NOCTTY>>

\* Two lines of the table the other way round.
hostIOFlagsSwapped ==
  <<Host.O_RDONLY, Host.O_WRONLY, Host.O_RDWR, Host.O_APPEND, Host.O_CREAT,
    Host.O_EXCL, Host.O_TRUNC, Host.O_SYNC, Host.O_NONBLOCK, Host.O_NOCTTY>>

hostIOFlags ==
  <<Host.O_RDONLY, Host.O_WRONLY, Host.O_RDWR, Host.O_APPEND, Host.O_CREAT,
    Host.O_TRUNC, Host.O_EXCL, Host.O_SYNC, Host.O_NONBLOCK, Host.O_NOCTTY>>

Init ==
  /\ word \in Requests
  /\ flags = word \cap 0 .. 31
  /\ i = 1 /\ nflags = {}

Step ==
  /\ i <= Len(simIOFlags)
  /\ i' = i + 1
  /\ nflags' = IF flags \cap simIOFlags[i] # {} THEN nflags \cup hostIOFlags[i] ELSE nflags
  /\ UNCHANGED <<word, flags>>

Spec == Init /\ [][Step]_vars

-----------------------------------------------------------------------------
(* Properties.                                                             *)

Names == DOMAIN Sim

Returned == i > Len(simIOFlags)

\* The file is opened as the guest asked: the access mode is the same number, and
\* every other name of newlib's is there for the host if the guest gave it, and
\* no bit that belongs to none of the names it gave; a guest that did not ask to
\* truncate a file keeps it.
OpensAsAsked ==
  Returned =>
    LET given == {name \in Names : Sim[name] # {} /\ Sim[name] \subseteq flags}
    IN  /\ nflags \cap {0, 1} = word \cap {0, 1}
        /\ \A name \in Names :
             Host[name] # {} => (Host[name] \subseteq nflags <=> name \in given)
        /\ nflags \subseteq UNION {Host[name] : name \in given}
=============================================================================
