---------------------------- MODULE DumpRaceProofs ----------------------------
(***************************************************************************)
(* Theorems about DumpRace, for any processes and any dumps.               *)
(***************************************************************************)
EXTENDS DumpRace, TLAPS

Slots == Records \cup {Hole, Torn}

Types ==
  /\ dump \in [Procs -> Seq(Records)]
  /\ file \in Seq(Slots)
  /\ st \in [Procs -> {"ready", "writing", "closed", "dead"}]
  /\ pos \in [Procs -> Nat]
  /\ last \in Procs
  /\ alone \in BOOLEAN

\* How far a process has come.
Progress ==
  \A p \in Procs :
    /\ pos[p] <= Len(dump[p])
    /\ st[p] = "ready" => pos[p] = 0
    /\ st[p] = "closed" => pos[p] = Len(dump[p])

\* Nobody but the last opener writes, as long as it has had the file for itself.
Undisturbed == alone => \A p \in Procs : st[p] = "writing" => p = last

\* What the last opener has written is there, and nothing is behind its dump.
WrittenStays ==
  alone \/ SameMachine =>
    /\ Len(file) <= Len(dump[last])
    /\ pos[last] <= Len(file)
    /\ \A k \in 1 .. pos[last] : file[k] = dump[last][k]

\* The inductive invariant.
IInv == Types /\ Progress /\ Undisturbed /\ WrittenStays

\* What a write of a record into a slot leaves: the record, and every other slot.
LEMMA Slot ==
  ASSUME file \in Seq(Slots), NEW k \in Nat \ {0}, NEW r \in Slots
  PROVE  /\ Put(k, r) \in Seq(Slots)
         /\ Len(Put(k, r)) = IF k > Len(file) THEN k ELSE Len(file)
         /\ Put(k, r)[k] = r
         /\ \A j \in 1 .. Len(file) : j # k => Put(k, r)[j] = file[j]
<1> DEFINE n == IF k > Len(file) THEN k ELSE Len(file)
           g == [j \in 1 .. n |->
                   IF j = k THEN r ELSE IF j \in DOMAIN file THEN file[j] ELSE Hole]
<1>1. Len(file) \in Nat /\ DOMAIN file = 1 .. Len(file)
  OBVIOUS
<1>2. Max({k, Len(file)}) = n
  <2>1. \E x \in {k, Len(file)} : \A y \in {k, Len(file)} : x >= y
    BY <1>1
  <2>2. /\ Max({k, Len(file)}) \in {k, Len(file)}
        /\ \A y \in {k, Len(file)} : Max({k, Len(file)}) >= y
    BY <2>1, Zenon DEF Max
  <2>3. Max({k, Len(file)}) >= k /\ Max({k, Len(file)}) >= Len(file)
    BY <2>2
  <2> QED BY <1>1, <2>2, <2>3
<1>3. Put(k, r) = g
  BY <1>2 DEF Put
<1>4. n \in Nat /\ k \in 1 .. n /\ 1 .. Len(file) \subseteq 1 .. n
  BY <1>1
<1>5. \A j \in 1 .. n : g[j] \in Slots
  BY <1>1 DEF Slots
<1>6. g \in Seq(Slots) /\ Len(g) = n
  <2>1. g \in [1 .. n -> Slots] /\ DOMAIN g = 1 .. n
    BY <1>5
  <2> HIDE DEF g
  <2> QED BY <1>4, <2>1
<1>7. g[k] = r /\ \A j \in 1 .. Len(file) : j # k => g[j] = file[j]
  BY <1>1, <1>4
<1> QED BY <1>3, <1>6, <1>7

\* A process begins with an empty file and nothing written.
LEMMA Begins == Init => IInv
<1> SUFFICES ASSUME Init PROVE IInv
  OBVIOUS
<1>1. Types
  BY Dumps DEF Init, Types
<1>2. \A p \in Procs : Len(dump[p]) \in Nat
  BY <1>1 DEF Types
<1>3. Progress
  BY <1>1, <1>2 DEF Init, Progress
<1>4. Undisturbed
  BY DEF Init, Undisturbed
<1>5. Len(file) = 0 /\ pos[last] = 0
  BY <1>1 DEF Init, Types
<1>6. WrittenStays
  BY <1>1, <1>2, <1>5 DEF WrittenStays, Types
<1> QED BY <1>1, <1>3, <1>4, <1>6 DEF IInv

\* The file is emptied for the one who opens it.
LEMMA Opened == ASSUME IInv, NEW p \in Procs, Open(p) PROVE IInv'
<1> USE DEF IInv
<1>1. Types'
  BY DEF Open, Types
<1>2. Progress'
  BY DEF Open, Types, Progress
<1>3. Undisturbed'
  BY DEF Open, Types, Undisturbed
<1>4. pos[p] = 0 /\ Len(dump[p]) \in Nat
  BY DEF Open, Progress, Types
<1>5. last' = p /\ pos' = pos /\ dump' = dump /\ file' = <<>>
  BY DEF Open
<1>6. WrittenStays'
  BY <1>4, <1>5 DEF WrittenStays
<1> QED BY <1>1, <1>2, <1>3, <1>6

\* A record that goes to its slot, in a file that is the last opener's own or
\* everyone's, leaves what is there.
LEMMA Recorded ==
  ASSUME IInv, NEW p \in Procs, st[p] = "writing", pos[p] < Len(dump[p]),
         NEW r \in Slots, alone \/ SameMachine,
         r = dump[last][pos[p] + 1] \/ pos[p] + 1 > pos[last],
         file' = Put(pos[p] + 1, r)
  PROVE  /\ Len(file') <= Len(dump[last])
         /\ pos[last] <= Len(file')
         /\ \A k \in 1 .. pos[last] : file'[k] = dump[last][k]
         /\ file'[pos[p] + 1] = r
         /\ pos[p] + 1 <= Len(file')
<1> DEFINE k == pos[p] + 1
<1> USE DEF IInv, Types
<1>1. pos[p] \in Nat /\ pos[last] \in Nat /\ Len(dump[last]) \in Nat /\ Len(dump[p]) \in Nat
  OBVIOUS
<1>2. k \in Nat \ {0} /\ Len(file) \in Nat
  BY <1>1
<1>3. /\ Len(Put(k, r)) = IF k > Len(file) THEN k ELSE Len(file)
      /\ Put(k, r)[k] = r
      /\ \A j \in 1 .. Len(file) : j # k => Put(k, r)[j] = file[j]
  BY <1>2, Slot
<1>4. Len(dump[p]) = Len(dump[last])
  BY DEF Undisturbed, SameMachine
<1>5. /\ Len(file) <= Len(dump[last]) /\ pos[last] <= Len(file)
      /\ \A j \in 1 .. pos[last] : file[j] = dump[last][j]
  BY DEF WrittenStays
<1> HIDE DEF IInv, Types
<1>6. \A j \in 1 .. pos[last] : Put(k, r)[j] = dump[last][j]
  <2> SUFFICES ASSUME NEW j \in 1 .. pos[last] PROVE Put(k, r)[j] = dump[last][j]
    OBVIOUS
  <2>1. CASE j = k
    BY <2>1, <1>1, <1>2, <1>3
  <2>2. CASE j # k
    <3>1. j \in 1 .. Len(file)
      BY <1>1, <1>2, <1>5
    <3> QED BY <2>2, <3>1, <1>3, <1>5
  <2> QED BY <2>1, <2>2
<1>7. Len(Put(k, r)) <= Len(dump[last]) /\ pos[last] <= Len(Put(k, r)) /\ k <= Len(Put(k, r))
  BY <1>1, <1>2, <1>3, <1>4, <1>5
<1> QED BY <1>3, <1>6, <1>7

\* The record due is the one the last opener has for that slot.
LEMMA Due ==
  ASSUME IInv, NEW p \in Procs, st[p] = "writing", pos[p] < Len(dump[p])
  PROVE  /\ pos[p] + 1 \in Nat \ {0} /\ dump[p][pos[p] + 1] \in Slots
         /\ alone \/ SameMachine => dump[p][pos[p] + 1] = dump[last][pos[p] + 1]
<1>1. dump[p] \in Seq(Records) /\ pos[p] \in Nat /\ last \in Procs
  BY DEF IInv, Types
<1>2. pos[p] + 1 \in 1 .. Len(dump[p])
  BY <1>1
<1>3. dump[p][pos[p] + 1] \in Records
  BY <1>1, <1>2
<1>4. alone \/ SameMachine => dump[p] = dump[last]
  BY <1>1 DEF IInv, Undisturbed, SameMachine
<1> QED BY <1>1, <1>3, <1>4 DEF Slots

\* A whole record.
LEMMA Written == ASSUME IInv, NEW p \in Procs, Write(p) PROVE IInv'
<1> DEFINE k == pos[p] + 1
           r == dump[p][k]
<1>1. st[p] = "writing" /\ pos[p] < Len(dump[p]) /\ file' = Put(k, r)
  BY DEF Write
<1>2. k \in Nat \ {0} /\ r \in Slots /\ (alone \/ SameMachine => r = dump[last][k])
  BY <1>1, Due
<1>3. Types'
  <2>1. file' \in Seq(Slots)
    BY <1>1, <1>2, Slot DEF IInv, Types
  <2>2. pos' \in [Procs -> Nat]
    BY DEF IInv, Types, Write
  <2> QED BY <2>1, <2>2 DEF IInv, Types, Write
<1>4. Progress'
  BY <1>2 DEF IInv, Types, Progress, Write
<1>5. Undisturbed'
  BY DEF IInv, Undisturbed, Write
<1>6. ASSUME alone \/ SameMachine
      PROVE  /\ Len(file') <= Len(dump[last])
             /\ pos[last] <= Len(file')
             /\ \A j \in 1 .. pos[last] : file'[j] = dump[last][j]
             /\ file'[k] = dump[last][k]
             /\ k <= Len(file')
  BY <1>1, <1>2, <1>6, Recorded
<1>7. UNCHANGED <<dump, last, alone>> /\ pos' = [pos EXCEPT ![p] = k]
  BY DEF Write
<1>8. last \in Procs /\ pos \in [Procs -> Nat]
  BY DEF IInv, Types
<1>9. SameMachine' <=> SameMachine
  BY <1>7 DEF SameMachine
<1>10. WrittenStays'
  <2> SUFFICES ASSUME alone \/ SameMachine
               PROVE  /\ Len(file') <= Len(dump[last])
                      /\ pos'[last] <= Len(file')
                      /\ \A j \in 1 .. pos'[last] : file'[j] = dump[last][j]
    BY <1>7, <1>9 DEF WrittenStays
  <2>1. pos'[last] = IF last = p THEN k ELSE pos[last]
    BY <1>7, <1>8
  <2>2. CASE last = p
    <3>1. \A j \in 1 .. k : j \in 1 .. pos[last] \/ j = k
      BY <1>8, <2>2
    <3> QED BY <1>6, <2>1, <2>2, <3>1
  <2>3. CASE last # p
    BY <1>6, <2>1, <2>3
  <2> QED BY <2>2, <2>3
<1> QED BY <1>3, <1>4, <1>5, <1>10 DEF IInv

\* A part of one.
LEMMA Cut == ASSUME IInv, NEW p \in Procs, WriteShort(p) PROVE IInv'
<1> DEFINE k == pos[p] + 1
           r == IF k \in DOMAIN file /\ file[k] = dump[p][k] THEN dump[p][k] ELSE Torn
<1>1. st[p] = "writing" /\ pos[p] < Len(dump[p]) /\ file' = Put(k, r)
  BY DEF WriteShort
<1>2. /\ k \in Nat \ {0} /\ dump[p][k] \in Slots
      /\ (alone \/ SameMachine => dump[p][k] = dump[last][k])
  BY <1>1, Due
<1>3. r \in Slots
  BY <1>2 DEF Slots
<1>4. UNCHANGED <<dump, last, alone, pos>> /\ st' = [st EXCEPT ![p] = "dead"]
  BY DEF WriteShort
<1>5. Types'
  <2>1. file' \in Seq(Slots)
    BY <1>1, <1>2, <1>3, Slot DEF IInv, Types
  <2> QED BY <1>4, <2>1 DEF IInv, Types
<1>6. Progress'
  BY <1>4 DEF IInv, Types, Progress
<1>7. Undisturbed'
  BY <1>4 DEF IInv, Types, Undisturbed
<1>8. ASSUME alone \/ SameMachine
      PROVE  r = dump[last][k] \/ k > pos[last]
  <2>1. /\ pos[last] <= Len(file) /\ pos[last] \in Nat /\ Len(file) \in Nat
        /\ \A j \in 1 .. pos[last] : file[j] = dump[last][j]
        /\ DOMAIN file = 1 .. Len(file)
    BY <1>8 DEF IInv, Types, WrittenStays
  <2>2. CASE k <= pos[last]
    <3>1. k \in 1 .. pos[last] /\ k \in DOMAIN file
      BY <1>2, <2>1, <2>2
    <3> QED BY <1>2, <1>8, <2>1, <3>1
  <2>3. CASE ~(k <= pos[last])
    BY <1>2, <2>1, <2>3
  <2> QED BY <2>2, <2>3
<1>9. ASSUME alone \/ SameMachine
      PROVE  /\ Len(file') <= Len(dump[last])
             /\ pos[last] <= Len(file')
             /\ \A j \in 1 .. pos[last] : file'[j] = dump[last][j]
  BY <1>1, <1>3, <1>8, <1>9, Recorded
<1>10. SameMachine' <=> SameMachine
  BY <1>4 DEF SameMachine
<1>11. WrittenStays'
  BY <1>4, <1>9, <1>10 DEF WrittenStays
<1> QED BY <1>5, <1>6, <1>7, <1>11 DEF IInv

\* The end of a process changes nothing in the file.
LEMMA Left == ASSUME IInv, NEW p \in Procs, Close(p) \/ Die(p) PROVE IInv'
<1>1. UNCHANGED <<dump, file, pos, last, alone>>
  BY DEF Close, Die
<1>2. Types'
  BY DEF IInv, Types, Close, Die
<1>3. Progress'
  BY DEF IInv, Types, Progress, Close, Die
<1>4. Undisturbed'
  BY DEF IInv, Types, Undisturbed, Close, Die
<1>5. WrittenStays'
  BY <1>1 DEF IInv, WrittenStays, SameMachine
<1> QED BY <1>2, <1>3, <1>4, <1>5 DEF IInv

\* The inductive invariant holds, whoever writes when.
THEOREM RaceInvariance == Spec => []IInv
<1>1. IInv /\ [Next]_vars => IInv'
  <2> SUFFICES ASSUME IInv, [Next]_vars PROVE IInv'
    OBVIOUS
  <2>1. CASE UNCHANGED vars
    BY <2>1 DEF vars, IInv, Types, Progress, Undisturbed, WrittenStays, SameMachine
  <2>2. CASE Next
    BY <2>2, Opened, Written, Cut, Left DEF Next, Step
  <2> QED BY <2>1, <2>2
<1> QED BY Begins, <1>1, PTL DEF Spec

\* The file of the last opener that closed it is its whole dump.
THEOREM LastDumpWhole == Spec => []LastDumpWins
<1>1. IInv => LastDumpWins
  <2> SUFFICES ASSUME IInv, st[last] = "closed", alone \/ SameMachine
               PROVE  file = dump[last]
    BY DEF LastDumpWins
  <2>1. file \in Seq(Slots) /\ dump[last] \in Seq(Records)
    BY DEF IInv, Types
  <2>2. pos[last] = Len(dump[last]) /\ Len(file) <= Len(dump[last]) /\ pos[last] <= Len(file)
    BY DEF IInv, Types, Progress, WrittenStays
  <2>3. Len(file) = Len(dump[last])
    BY <2>1, <2>2
  <2>4. \A j \in 1 .. Len(file) : file[j] = dump[last][j]
    BY <2>2, <2>3 DEF IInv, WrittenStays
  <2> QED BY <2>1, <2>3, <2>4
<1> QED BY RaceInvariance, <1>1, PTL

-----------------------------------------------------------------------------
(* How long the processes take.                                            *)

\* Steps process p has left at most: it opens the file, writes each record, closes it.
TurnsLeft(p) ==
  CASE st[p] = "ready"   -> Len(dump[p]) + 2
    [] st[p] = "writing" -> Len(dump[p]) - pos[p] + 1
    [] OTHER             -> 0

OneTurn ==
  \E p \in Procs :
    /\ TurnsLeft(p) \in Nat /\ TurnsLeft(p)' \in Nat /\ TurnsLeft(p)' < TurnsLeft(p)
    /\ \A q \in Procs \ {p} : TurnsLeft(q)' = TurnsLeft(q)

LEMMA NextOneTurn ==
  ASSUME IInv, Next
  PROVE  OneTurn
<1>1. PICK p \in Procs : Open(p) \/ Write(p) \/ Close(p) \/ WriteShort(p) \/ Die(p)
  BY DEF Next, Step
<1>2. /\ dump[p] \in Seq(Records) /\ pos[p] \in Nat /\ pos[p] <= Len(dump[p])
      /\ st[p] = "ready" => pos[p] = 0
      /\ st \in [Procs -> {"ready", "writing", "closed", "dead"}]
      /\ pos \in [Procs -> Nat]
  BY DEF IInv, Types, Progress
<1>3. Len(dump[p]) \in Nat
  BY <1>2
<1>4. dump' = dump
  BY <1>1 DEF Open, Write, Close, WriteShort, Die
<1>5. \A q \in Procs \ {p} : st'[q] = st[q] /\ pos'[q] = pos[q]
  BY <1>1, <1>2 DEF Open, Write, Close, WriteShort, Die
<1>6. \A q \in Procs \ {p} : TurnsLeft(q)' = TurnsLeft(q)
  BY <1>4, <1>5 DEF TurnsLeft
<1>7. TurnsLeft(p) \in Nat /\ TurnsLeft(p)' \in Nat /\ TurnsLeft(p)' < TurnsLeft(p)
  <2>1. CASE Open(p)
    BY <1>2, <1>3, <2>1 DEF Open, TurnsLeft
  <2>2. CASE Write(p)
    BY <1>2, <1>3, <2>2 DEF Write, TurnsLeft
  <2>3. CASE Close(p)
    BY <1>2, <1>3, <2>3 DEF Close, TurnsLeft
  <2>4. CASE WriteShort(p) \/ Die(p)
    BY <1>2, <1>3, <2>4 DEF WriteShort, Die, TurnsLeft
  <2> QED
    BY <1>1, <2>1, <2>2, <2>3, <2>4
<1> QED
  BY <1>6, <1>7 DEF OneTurn

\* A step of one process brings its own end nearer and takes nothing from the way the
\* others have to go: truncating the file under a writer does not set it back.
THEOREM RacesAreBounded == Spec => [][OneTurn]_vars
<1>1. IInv /\ [Next]_vars => [OneTurn]_vars
  BY NextOneTurn
<1> QED
  BY <1>1, RaceInvariance, PTL DEF Spec
=============================================================================
