----------------------------- MODULE SaveState -----------------------------
(***************************************************************************)
(* saveState.cc: dumpState writes a header and the pages that are not zero *)
(* into a file, one write each; loadState reads them back onto a machine.  *)
(* Processes come one after the other and use one file name.  A process    *)
(* may die between any two calls of the kernel or inside one, and a write  *)
(* may be cut short (a full disk), which the assertion after it turns into *)
(* the end of the process.  What is in the file outlives it.               *)
(*                                                                         *)
(* The file is a sequence of records; only its last one can be torn.  An   *)
(* absent file is an empty one: both end a load in an assertion.           *)
(***************************************************************************)
EXTENDS Integers, Sequences, FiniteSets, FiniteSetsExt

CONSTANTS
  NPages,     \* n_pages
  Contents,   \* what a page may hold
  Zero,       \* 4096 zero bytes
  Cpus,       \* the values of pc, gpr and icnt together
  None        \* no machine

ASSUME Mapping == NPages \in Nat \ {0} /\ Zero \in Contents
ASSUME NoneApart == None \notin [cpu : Cpus, mem : [0..NPages-1 -> Contents]]

VARIABLES
  cpu, mem,   \* the fields of state_t that a snapshot holds
  file,       \* the file, as a sequence of records
  at,         \* the control point
  page,       \* dumpState: i, the next page to write (NPages: npos)
  left,       \* loadState: h.num_nz_pages - i, the pages still to read
  pos         \* the offset of fd: the index of the record it stands at

vars == <<cpu, mem, file, at, page, left, pos>>

Pages == 0..NPages-1
Blank == [p \in Pages |-> Zero]

Header(c, n) == [cpu |-> c, count |-> n]
PageRec(p, x) == [va |-> p, data |-> x]
Torn == [torn |-> TRUE]

Headers  == {Header(c, n) : c \in Cpus, n \in 0..NPages}
PageRecs == {PageRec(p, x) : p \in Pages, x \in Contents}
Records  == Headers \cup PageRecs \cup {Torn}

Dumping == {"header", "pages"}
Loading == {"loadheader", "loadpages"}
Points  == {"run", "dead"} \cup Dumping \cup Loading

NonZero == {p \in Pages : mem[p] # Zero}

\* nz_pages.find_first() and find_next(i): the first bit in i..NPages-1.
FirstFrom(i) ==
  CHOOSE n \in i..NPages :
    /\ n = NPages \/ n \in NonZero
    /\ \A p \in i..n-1 : p \notin NonZero
FindFirst   == FirstFrom(0)
FindSame(i) == FirstFrom(i)
FindNext(i) == FirstFrom(i + 1)

-----------------------------------------------------------------------------
Init ==
  /\ cpu \in Cpus
  /\ mem = Blank
  /\ file = <<>>
  /\ at = "run"
  /\ page = NPages
  /\ left = 0
  /\ pos = 1

\* The interpreter runs between a load and a dump: any page, any registers.
Run ==
  /\ at = "run"
  /\ cpu' \in Cpus
  /\ \E p \in Pages, x \in Contents : mem' = [mem EXCEPT ![p] = x]
  /\ UNCHANGED <<file, at, page, left, pos>>

\* O_TRUNC: whatever was there is gone before the header is written.
NotTruncated(f) == f
Truncated(f) == <<>>

\* write at the offset of fd, over what the file holds there.
Write(r) ==
  /\ file' = [i \in 1..(IF pos > Len(file) THEN pos ELSE Len(file)) |->
                IF i = pos THEN r ELSE file[i]]
  /\ pos' = pos + 1

DumpOpen ==
  /\ at = "run"
  /\ file' = Truncated(file)
  /\ pos' = 1
  /\ at' = "header"
  /\ UNCHANGED <<cpu, mem, page, left>>

DumpHeader ==
  /\ at = "header"
  /\ Write(Header(cpu, Cardinality(NonZero)))
  /\ page' = FindFirst
  /\ at' = "pages"
  /\ UNCHANGED <<cpu, mem, left>>

DumpPage ==
  /\ at = "pages"
  /\ page # NPages
  /\ Write(PageRec(page, mem[page]))
  /\ page' = FindNext(page)
  /\ UNCHANGED <<cpu, mem, at, left>>

DumpClose ==
  /\ at = "pages"
  /\ page = NPages
  /\ at' = "run"
  /\ UNCHANGED <<cpu, mem, file, page, left, pos>>

WriteShortGoesOn ==
  /\ at = "pages"
  /\ page # NPages
  /\ Write(Torn)
  /\ page' = FindNext(page)
  /\ UNCHANGED <<cpu, mem, at, left>>

\* A write that transfers a part of its record, or a death inside it.
WriteShort ==
  /\ at = "header" \/ (at = "pages" /\ page # NPages)
  /\ Write(Torn)
  /\ at' = "dead"
  /\ UNCHANGED <<cpu, mem, page, left>>

-----------------------------------------------------------------------------
\* A read at the offset of fd returns a whole record.
Whole == pos \in 1..Len(file) /\ file[pos] # Torn

LoadOpen ==
  /\ at = "run"
  /\ pos' = 1
  /\ at' = "loadheader"
  /\ UNCHANGED <<cpu, mem, file, page, left>>

\* The magic number is not looked at.
LoadHeader ==
  /\ at = "loadheader"
  /\ Whole
  /\ cpu' = file[pos].cpu
  /\ left' = file[pos].count
  /\ pos' = pos + 1
  /\ at' = "loadpages"
  /\ UNCHANGED <<mem, file, page>>

LoadPage ==
  /\ at = "loadpages"
  /\ left > 0
  /\ Whole
  /\ mem' = [mem EXCEPT ![file[pos].va] = file[pos].data]
  /\ left' = left - 1
  /\ pos' = pos + 1
  /\ UNCHANGED <<cpu, file, at, page>>

LoadClose ==
  /\ at = "loadpages"
  /\ left = 0
  /\ at' = "run"
  /\ UNCHANGED <<cpu, mem, file, page, left, pos>>

ReadShortAgain ==
  /\ at = "loadheader" \/ (at = "loadpages" /\ left > 0)
  /\ ~Whole
  /\ UNCHANGED vars

ReadShort ==
  /\ at = "loadheader" \/ (at = "loadpages" /\ left > 0)
  /\ ~Whole
  /\ at' = "dead"
  /\ UNCHANGED <<cpu, mem, file, page, left, pos>>

-----------------------------------------------------------------------------
\* A signal, the machine's end, a call of the kernel that fails: the open, a
\* write or a read that returns -1, each with its assertion.
Die ==
  /\ at # "dead"
  /\ at' = "dead"
  /\ UNCHANGED <<cpu, mem, file, page, left, pos>>

\* A new process: initState, and a mapping of zeroes.
Start ==
  /\ at = "dead"
  /\ cpu' \in Cpus
  /\ mem' = Blank
  /\ at' = "run"
  /\ UNCHANGED <<file, page, left, pos>>

DumpStep == DumpHeader \/ DumpPage \/ DumpClose \/ WriteShort
LoadStep == LoadHeader \/ LoadPage \/ LoadClose \/ ReadShort

Next == Run \/ DumpOpen \/ DumpStep \/ LoadOpen \/ LoadStep \/ Die \/ Start

Spec == Init /\ [][Next]_vars

FairSpec == Spec /\ WF_vars(DumpStep \/ LoadStep)

-----------------------------------------------------------------------------
(* What the file says.                                                     *)

\* The file holds the pages its header announces.
Complete ==
  /\ file # <<>>
  /\ file[1] # Torn
  /\ \A i \in 2..file[1].count+1 : i \in DOMAIN file /\ file[i] # Torn

\* The mapping m once the records from first on have been copied into it.
Copied(first, m) ==
  [p \in Pages |->
     LET I == {i \in first..file[1].count+1 : file[i].va = p}
     IN  IF I = {} THEN m[p] ELSE file[Max(I)].data]

\* What a load that is under way will leave: it has read the records before pos.
Loaded ==
  [cpu |-> file[1].cpu,
   mem |-> Copied(IF at = "loadheader" THEN 2 ELSE pos, mem)]

-----------------------------------------------------------------------------
(* Properties.                                                             *)

\* The state has the types of the code's variables; a file is no longer than
\* a header and one record for each page of the mapping.
TypeOK ==
  /\ cpu \in Cpus
  /\ mem \in [Pages -> Contents]
  /\ file \in Seq(Records)
  /\ Len(file) <= NPages + 1
  /\ at \in Points
  /\ page \in 0..NPages
  /\ left \in 0..NPages
  /\ pos \in 1..NPages+2

\* Whatever deaths and short writes there were, the file is the beginning of a
\* dump (dumpState): one header, then pages in ascending order, none of them
\* zero and none twice, never more than announced, and only the end is torn.
FileIsPrefix ==
  \A i \in DOMAIN file :
    /\ file[i] = Torn => i = Len(file)
    /\ i > 1 /\ file[i] # Torn =>
         file[i] \in PageRecs /\ file[i].data # Zero
    /\ i > 1 => file[1] \in Headers /\ i <= file[1].count + 1
    /\ \A j \in 2..i-1 : file[i] # Torn => file[j].va < file[i].va

\* The machine in the file, the step of the program and its machine, as the
\* abstract store sees them.
Saved ==
  IF Complete THEN [cpu |-> file[1].cpu, mem |-> Copied(2, Blank)] ELSE None
Phase ==
  CASE at = "run" -> "run"
    [] at \in Dumping -> "save"
    [] at \in Loading /\ Complete -> "load"
    [] OTHER -> "off"
Shown ==
  CASE at \in {"run"} \cup Dumping -> [cpu |-> cpu, mem |-> mem]
    [] at \in Loading /\ Complete -> Loaded
    [] OTHER -> None

Store == INSTANCE SnapshotStore WITH
  stored <- Saved, phase <- Phase, machine <- Shown

\* dumpState and loadState implement a place that holds a machine or nothing:
\* a dump takes effect with its last page, a load with its open, and a load of
\* a file that is not complete is the end of the process.
ImplementsStore == Store!Spec

\* Every dump and every load ends, in the process going on or in its death,
\* whatever the file holds (FairSpec: the one thread keeps running).
Finishes == at \in Dumping \cup Loading ~> at \in {"run", "dead"}

=============================================================================
