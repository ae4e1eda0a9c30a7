--------------------------- MODULE SnapshotStore ---------------------------
(***************************************************************************)
(* What dumpState and loadState promise together: a place that holds one   *)
(* machine or none.  A dump empties the place and then fills it in one     *)
(* step with the machine as it is; a load puts the machine of the place    *)
(* onto the running one, or is the end of the process.  A process may die  *)
(* at any time, and whatever it was doing, the place then holds the        *)
(* machine of the last dump, all of it, or nothing.                        *)
(***************************************************************************)
CONSTANTS
  Pages, Contents,   \* the pages of the mapping, what a page may hold
  Zero,              \* the content of a page nobody wrote
  Cpus,              \* the values of pc, gpr and icnt together
  None

VARIABLES
  machine,   \* the running machine, None while no process has one to show
  stored,    \* the machine in the place, None if it holds none
  phase      \* "run", "save", "load", "off"

storeVars == <<machine, stored, phase>>

Machine == [cpu : Cpus, mem : [Pages -> Contents]]

\* The machine m as it is after the machine s has been loaded onto it: the
\* pages that are zero in s are not in the place, and stay.
Onto(s, m) ==
  [cpu |-> s.cpu,
   mem |-> [p \in Pages |-> IF s.mem[p] # Zero THEN s.mem[p] ELSE m.mem[p]]]

\* A new process: a fresh mapping.
Fresh == {m \in Machine : m.mem = [p \in Pages |-> Zero]}

Init ==
  /\ machine \in Fresh
  /\ stored = None
  /\ phase = "run"

Compute ==
  /\ phase = "run"
  /\ machine' \in Machine
  /\ UNCHANGED <<stored, phase>>

BeginSave ==
  /\ phase = "run"
  /\ phase' = "save"
  /\ stored' = None
  /\ UNCHANGED machine

Save ==
  /\ phase = "save"
  /\ stored = None
  /\ stored' = machine
  /\ UNCHANGED <<machine, phase>>

EndSave ==
  /\ phase = "save"
  /\ stored = machine
  /\ phase' = "run"
  /\ UNCHANGED <<machine, stored>>

Load ==
  /\ phase = "run"
  /\ stored # None
  /\ phase' = "load"
  /\ machine' = Onto(stored, machine)
  /\ UNCHANGED stored

EndLoad ==
  /\ phase = "load"
  /\ phase' = "run"
  /\ UNCHANGED <<machine, stored>>

Die ==
  /\ phase' = "off"
  /\ machine' = None
  /\ UNCHANGED stored

Start ==
  /\ phase = "off"
  /\ phase' = "run"
  /\ machine' \in Fresh
  /\ UNCHANGED stored

Next ==
  Compute \/ BeginSave \/ Save \/ EndSave \/ Load \/ EndLoad \/ Die \/ Start

Spec == Init /\ [][Next]_storeVars
=============================================================================
