------------------------------ MODULE DumpRace ------------------------------
(***************************************************************************)
(* Several interpreters that dump under one name at once.  The name is the *)
(* program's and the instruction count (main.cc), so it is the same for    *)
(* two runs of one program with one --dumpicnt, and also for "prog" at 12  *)
(* and "prog1" at 2.  Each process has its own offset into the one file,   *)
(* and each truncates it when it opens it.                                 *)
(*                                                                         *)
(* A dump is its sequence of records, as SaveState makes it; the header is *)
(* the first and all pages have one size, so the k-th records of two dumps *)
(* lie at one place, the k-th slot of the file.                            *)
(***************************************************************************)
EXTENDS Integers, Sequences, FiniteSetsExt

CONSTANTS
  Procs,      \* the processes
  Records,    \* headers and pages, Hole and Torn apart
  Hole,       \* zeroes, where a file was extended past its end
  Torn,       \* a slot of which a part was written
  Scenarios   \* the dump each process makes

ASSUME Dumps ==
  /\ Scenarios \subseteq [Procs -> Seq(Records)]
  /\ Hole \notin Records /\ Torn \notin Records

VARIABLES
  dump,    \* the records each process will write
  file,    \* the slots of the file
  st,      \* "ready", "writing", "closed" or "dead"
  pos,     \* records written: the offset of the descriptor
  last,    \* who opened the file last
  alone    \* nobody was writing then, and nobody has opened it since

vars == <<dump, file, st, pos, last, alone>>

Init ==
  /\ dump \in Scenarios
  /\ file = <<>>
  /\ st = [p \in Procs |-> "ready"]
  /\ pos = [p \in Procs |-> 0]
  /\ last \in Procs
  /\ alone = TRUE

\* Record r in slot k, the gap before it filled with zeroes.
Put(k, r) ==
  [j \in 1 .. Max({k, Len(file)}) |->
     IF j = k THEN r ELSE IF j \in DOMAIN file THEN file[j] ELSE Hole]

\* O_TRUNC forgotten.
OpenKeeping(p) ==
  /\ st[p] = "ready"
  /\ st' = [st EXCEPT ![p] = "writing"]
  /\ last' = p
  /\ alone' = \A q \in Procs : st[q] # "writing"
  /\ UNCHANGED <<dump, file, pos>>

Open(p) ==
  /\ st[p] = "ready"
  /\ st' = [st EXCEPT ![p] = "writing"]
  /\ file' = <<>>
  /\ last' = p
  /\ alone' = \A q \in Procs : st[q] # "writing"
  /\ UNCHANGED <<dump, pos>>

\* A loop that goes back over the record it has just written.
WriteAgain(p) ==
  /\ st[p] = "writing"
  /\ pos[p] < Len(dump[p])
  /\ file' = Put(pos[p] + 1, dump[p][pos[p] + 1])
  /\ UNCHANGED <<dump, st, pos, last, alone>>

Write(p) ==
  /\ st[p] = "writing"
  /\ pos[p] < Len(dump[p])
  /\ file' = Put(pos[p] + 1, dump[p][pos[p] + 1])
  /\ pos' = [pos EXCEPT ![p] = pos[p] + 1]
  /\ UNCHANGED <<dump, st, last, alone>>

\* A part of the record, and the assertion on what write returned; a part of the
\* same record over it changes nothing.
WriteShort(p) ==
  /\ st[p] = "writing"
  /\ pos[p] < Len(dump[p])
  /\ LET k == pos[p] + 1
         r == dump[p][k]
     IN  file' = Put(k, IF k \in DOMAIN file /\ file[k] = r THEN r ELSE Torn)
  /\ st' = [st EXCEPT ![p] = "dead"]
  /\ UNCHANGED <<dump, pos, last, alone>>

Close(p) ==
  /\ st[p] = "writing"
  /\ pos[p] = Len(dump[p])
  /\ st' = [st EXCEPT ![p] = "closed"]
  /\ UNCHANGED <<dump, file, pos, last, alone>>

Die(p) ==
  /\ st[p] \in {"ready", "writing"}
  /\ st' = [st EXCEPT ![p] = "dead"]
  /\ UNCHANGED <<dump, file, pos, last, alone>>

Step(p) == Open(p) \/ Write(p) \/ Close(p)

Next == \E p \in Procs : Step(p) \/ WriteShort(p) \/ Die(p)

Spec == Init /\ [][Next]_vars

FairSpec == Spec /\ \A p \in Procs : WF_vars(Step(p))

-----------------------------------------------------------------------------
(* Properties.                                                             *)

SameMachine == \A p, q \in Procs : dump[p] = dump[q]

\* Once the process that opened the file last has closed it, the file is the
\* dump of that process, all of it and nothing else: if no two dumps overlapped
\* since, whatever the dumps are, and if they are dumps of one machine, even
\* while the others go on writing, tear a record or die.
LastDumpWins ==
  st[last] = "closed" /\ (alone \/ SameMachine) => file = dump[last]

\* Interpreters that dump one machine and do not die leave its dump for good.
Settles ==
  SameMachine /\ [](\A p \in Procs : st[p] # "dead") => <>[](file = dump[last])

=============================================================================
