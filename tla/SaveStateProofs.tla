-------------------------- MODULE SaveStateProofs --------------------------
(***************************************************************************)
(* Proofs about SaveState, for every number of pages and whatever a page   *)
(* may hold: its invariants, and that it implements SnapshotStore.         *)
(***************************************************************************)
EXTENDS SaveState, FiniteSetTheorems, WellFoundedInduction, TLAPS

\* The pages the dump has written when it is about to write page i.
Written(i) == {p \in NonZero : p < i}

\* What dumpState has put in the file so far.
DumpShape ==
  /\ at = "header" => file = <<>> /\ pos = 1
  /\ at = "pages" =>
       /\ page = NPages \/ page \in NonZero
       /\ pos = Len(file) + 1
       /\ Len(file) = Cardinality(Written(page)) + 1
       /\ file[1] = Header(cpu, Cardinality(NonZero))
       /\ \A i \in 2..Len(file) :
            file[i].va \in Written(page) /\ file[i] = PageRec(file[i].va, mem[file[i].va])
       /\ \A p \in Written(page) : \E i \in 2..Len(file) : file[i].va = p

\* What loadState has taken from it.
LoadShape ==
  /\ at = "loadheader" => pos = 1
  /\ at = "loadpages" =>
       /\ file # <<>>
       /\ file[1] \in Headers
       /\ cpu = file[1].cpu
       /\ pos >= 2
       /\ left = file[1].count + 2 - pos
       /\ \A i \in 1..pos-1 : i \in DOMAIN file /\ file[i] # Torn

\* A file begins with a header, or with what is left of one.
HeaderFirst == file # <<>> => file[1] \in Headers \cup {Torn}

IInv == TypeOK /\ FileIsPrefix /\ HeaderFirst /\ DumpShape /\ LoadShape

-----------------------------------------------------------------------------
(* Records, the scan of the page bits, the file.                           *)

\* The three kinds of record are told apart by their length.
LEMMA Kinds ==
  /\ \A h \in Headers : h # Torn /\ h \notin PageRecs
                        /\ h.cpu \in Cpus /\ h.count \in 0..NPages
                        /\ h = Header(h.cpu, h.count)
  /\ \A r \in PageRecs : r # Torn /\ r.va \in Pages /\ r.data \in Contents
                         /\ r = PageRec(r.va, r.data)
  BY DEF Headers, PageRecs, Header, PageRec, Torn

\* find_first and find_next return the first bit from i on, or npos.
LEMMA Scan ==
  ASSUME NEW i \in 0..NPages
  PROVE  /\ FirstFrom(i) \in i..NPages
         /\ FirstFrom(i) = NPages \/ FirstFrom(i) \in NonZero
         /\ \A p \in NonZero : p < FirstFrom(i) => p < i
<1> DEFINE Hits == {n \in i..NPages : n = NPages \/ n \in NonZero}
<1>1. Hits \in SUBSET Nat /\ NPages \in Hits
  BY Mapping
<1>2. PICK n \in Hits : \A k \in Hits : n <= k
  <2>1. PICK n \in Hits : \A k \in Hits : <<k, n>> \notin OpToRel(<, Nat)
    BY <1>1, WFMin, NatLessThanWellFounded, Zenon
  <2>2. \A k \in Hits : ~(k < n)
    BY <1>1, <2>1, Zenon DEF OpToRel
  <2> QED
    BY <1>1, <2>2
<1>3. /\ n \in i..NPages
      /\ n = NPages \/ n \in NonZero
      /\ \A p \in i..n-1 : p \notin NonZero
  BY <1>2, Mapping
<1>4. /\ FirstFrom(i) \in i..NPages
      /\ FirstFrom(i) = NPages \/ FirstFrom(i) \in NonZero
      /\ \A p \in i..FirstFrom(i)-1 : p \notin NonZero
  BY <1>3, Zenon DEF FirstFrom
<1> QED
  BY <1>4, Mapping DEF NonZero, Pages

\* Before the first page nothing is written, at npos everything is.
LEMMA WrittenEnds ==
  /\ Written(FindFirst) = {}
  /\ Written(NPages) = NonZero
<1>1. 0 \in 0..NPages
  BY Mapping
<1> QED
  BY <1>1, Scan, Mapping DEF Written, FindFirst, NonZero, Pages

\* One page is written between a page and the next.
LEMMA WrittenNext ==
  ASSUME NEW i \in NonZero
  PROVE  /\ i \notin Written(i)
         /\ Written(FindNext(i)) = Written(i) \cup {i}
<1>1. i + 1 \in 0..NPages /\ i \in Nat
  BY Mapping DEF NonZero, Pages
<1> QED
  BY <1>1, Scan, Mapping DEF Written, FindNext, NonZero, Pages

LEMMA Counts ==
  /\ IsFiniteSet(NonZero)
  /\ Cardinality(NonZero) \in 0..NPages
  /\ \A S \in SUBSET NonZero :
       /\ IsFiniteSet(S)
       /\ Cardinality(S) \in 0..Cardinality(NonZero)
       /\ Cardinality(S) = Cardinality(NonZero) => S = NonZero
<1>1. IsFiniteSet(Pages) /\ Cardinality(Pages) = NPages
  BY Mapping, FS_Interval, SMT DEF Pages
<1>2. NonZero \in SUBSET Pages
  BY DEF NonZero
<1>3. IsFiniteSet(NonZero) /\ Cardinality(NonZero) <= NPages
  BY <1>1, <1>2, FS_Subset, Zenon
<1>4. Cardinality(NonZero) \in Nat
  BY <1>3, FS_CardinalityType
<1>5. ASSUME NEW S \in SUBSET NonZero
      PROVE  /\ IsFiniteSet(S)
             /\ Cardinality(S) \in Nat
             /\ Cardinality(S) <= Cardinality(NonZero)
             /\ Cardinality(S) = Cardinality(NonZero) => S = NonZero
  BY <1>3, FS_Subset, FS_CardinalityType
<1> QED
  BY <1>3, <1>4, <1>5, Mapping

\* A write at the end of the file appends its record.
LEMMA WriteAppends ==
  ASSUME file \in Seq(Records), pos = Len(file) + 1,
         NEW r \in Records, Write(r)
  PROVE  /\ file' \in Seq(Records)
         /\ Len(file') = Len(file) + 1
         /\ file'[Len(file) + 1] = r
         /\ \A i \in 1..Len(file) : file'[i] = file[i]
         /\ pos' = Len(file') + 1
<1> DEFINE n == Len(file) + 1
           f == [i \in 1..n |-> IF i = pos THEN r ELSE file[i]]
<1>1. n \in Nat /\ file' = f /\ pos' = n + 1
  BY DEF Write
<1>2. f \in [1..n -> Records]
  OBVIOUS
<1>3. f \in Seq(Records) /\ Len(f) = n
  BY <1>1, <1>2
<1> QED
  BY <1>1, <1>3

-----------------------------------------------------------------------------
(* The invariant.                                                          *)

\* While a dump has pages to write the file is whole, and has room for them.
LEMMA Room ==
  ASSUME IInv, at = "pages", page # NPages
  PROVE  /\ page \in NonZero
         /\ page \notin Written(page)
         /\ pos = Len(file) + 1
         /\ file # <<>>
         /\ file[1] = Header(cpu, Cardinality(NonZero))
         /\ file[1] \in Headers
         /\ Len(file) = Cardinality(Written(page)) + 1
         /\ Len(file) <= file[1].count
         /\ \A i \in DOMAIN file : file[i] # Torn
         /\ \A j \in 2..Len(file) : file[j].va < page
<1>1. /\ page \in NonZero
      /\ pos = Len(file) + 1
      /\ file \in Seq(Records)
      /\ file[1] = Header(cpu, Cardinality(NonZero))
      /\ Len(file) = Cardinality(Written(page)) + 1
      /\ \A i \in 2..Len(file) :
           file[i].va \in Written(page) /\ file[i] = PageRec(file[i].va, mem[file[i].va])
      /\ cpu \in Cpus /\ mem \in [Pages -> Contents]
  BY DEF IInv, DumpShape, TypeOK
<1>2. Written(page) \in SUBSET NonZero /\ page \notin Written(page)
  BY <1>1, Mapping DEF Written, NonZero, Pages
<1>3. /\ Cardinality(Written(page)) \in 0..Cardinality(NonZero)-1
      /\ Cardinality(NonZero) \in 0..NPages
  BY <1>1, <1>2, Counts, Mapping
<1>4. file[1] \in Headers /\ file[1].count = Cardinality(NonZero)
  BY <1>1, <1>3 DEF Headers, Header
<1>5. \A i \in 2..Len(file) : file[i] \in PageRecs
  BY <1>1 DEF PageRecs, Written, NonZero
<1>6. \A i \in DOMAIN file : file[i] # Torn
  <2> SUFFICES ASSUME NEW i \in DOMAIN file PROVE file[i] # Torn
    OBVIOUS
  <2>1. i = 1 \/ i \in 2..Len(file)
    BY <1>1
  <2> QED
    BY <2>1, <1>4, <1>5, Kinds
<1>7. file # <<>>
  BY <1>1, <1>3
<1>8. Len(file) <= file[1].count
  BY <1>1, <1>3, <1>4, Mapping
<1> QED
  BY <1>1, <1>2, <1>4, <1>6, <1>7, <1>8 DEF Written

\* A page record of the next page, or a torn one, keeps the file a prefix.
LEMMA PrefixGrows ==
  ASSUME IInv, at = "pages", page # NPages,
         NEW r \in PageRecs \cup {Torn}, Write(r),
         r # Torn => r.data # Zero /\ r.va = page
  PROVE  /\ file' \in Seq(Records) /\ Len(file') <= NPages + 1
         /\ pos' \in 1..NPages+2
         /\ FileIsPrefix' /\ HeaderFirst'
<1>1. /\ file \in Seq(Records)
      /\ Len(file) \in Nat /\ Len(file) >= 1
      /\ pos = Len(file) + 1
      /\ file[1] \in Headers
      /\ Len(file) <= file[1].count
      /\ file[1].count \in 0..NPages
      /\ \A i \in DOMAIN file : file[i] # Torn
      /\ \A j \in 2..Len(file) : file[j].va < page
  <2>1. file \in Seq(Records)
    BY DEF IInv, TypeOK
  <2>2. Len(file) >= 1
    BY <2>1, Room
  <2> QED
    BY <2>1, <2>2, Room, Kinds
<1>2. /\ file' \in Seq(Records)
      /\ Len(file') = Len(file) + 1
      /\ file'[Len(file) + 1] = r
      /\ \A i \in 1..Len(file) : file'[i] = file[i]
      /\ pos' = Len(file') + 1
  BY <1>1, WriteAppends DEF Records
<1>3. Len(file') <= NPages + 1 /\ pos' \in 1..NPages+2
  BY <1>1, <1>2, Mapping
<1>4. HeaderFirst'
  BY <1>1, <1>2 DEF HeaderFirst
<1>5. ASSUME NEW i \in DOMAIN file'
      PROVE  /\ file'[i] = Torn => i = Len(file')
             /\ i > 1 /\ file'[i] # Torn =>
                  file'[i] \in PageRecs /\ file'[i].data # Zero
             /\ i > 1 => file'[1] \in Headers /\ i <= file'[1].count + 1
             /\ \A j \in 2..i-1 : file'[i] # Torn => file'[j].va < file'[i].va
  <2>1. i \in 1..Len(file) \/ i = Len(file) + 1
    BY <1>1, <1>2
  <2>2. CASE i = Len(file) + 1
    <3>1. \A j \in 2..i-1 : j \in 1..Len(file) /\ j \in 2..Len(file)
      BY <2>2, <1>1
    <3> QED
      BY <3>1, <2>2, <1>1, <1>2
  <2>3. CASE i \in 1..Len(file)
    <3>1. i \in DOMAIN file /\ file'[i] = file[i] /\ file'[1] = file[1]
      BY <2>3, <1>1, <1>2
    <3>2. /\ i > 1 => file[i] \in PageRecs /\ file[i].data # Zero
          /\ \A j \in 2..i-1 : file[j].va < file[i].va
      BY <3>1, <1>1 DEF IInv, FileIsPrefix
    <3>3. \A j \in 2..i-1 : file'[j] = file[j]
      BY <2>3, <1>1, <1>2
    <3> QED
      BY <3>1, <3>2, <3>3, <1>1, <2>3
  <2> QED
    BY <2>1, <2>2, <2>3
<1> QED
  BY <1>2, <1>3, <1>4, <1>5 DEF FileIsPrefix

LEMMA InitIInv == Init => IInv
<1> SUFFICES ASSUME Init PROVE IInv
  OBVIOUS
<1>1. file = <<>> /\ Len(file) = 0 /\ DOMAIN file = {} /\ file \in Seq(Records)
  BY DEF Init
<1>2. TypeOK
  BY <1>1, Mapping DEF Init, TypeOK, Blank, Points
<1>3. FileIsPrefix /\ HeaderFirst /\ DumpShape /\ LoadShape
  BY <1>1 DEF Init, FileIsPrefix, HeaderFirst, DumpShape, LoadShape
<1> QED
  BY <1>2, <1>3 DEF IInv

\* A step after which no file is open leaves nothing to show of the shapes.
LEMMA Ashore ==
  ASSUME at' \in {"run", "dead"}
  PROVE  DumpShape' /\ LoadShape'
BY DEF DumpShape, LoadShape

LEMMA DumpOpenInv == IInv /\ DumpOpen => IInv'
<1> SUFFICES ASSUME IInv, DumpOpen PROVE IInv'
  OBVIOUS
<1>1. /\ file' = <<>> /\ Len(file') = 0 /\ DOMAIN file' = {}
      /\ file' \in Seq(Records)
  BY DEF DumpOpen, Truncated
<1>2. TypeOK'
  BY <1>1, Mapping DEF IInv, DumpOpen, TypeOK, Points, Dumping
<1>3. FileIsPrefix' /\ HeaderFirst' /\ DumpShape' /\ LoadShape'
  BY <1>1 DEF DumpOpen, FileIsPrefix, HeaderFirst, DumpShape, LoadShape
<1> QED
  BY <1>2, <1>3 DEF IInv

LEMMA FirstRecord ==
  ASSUME IInv, at = "header", NEW r \in Headers \cup {Torn}, Write(r)
  PROVE  /\ file' \in Seq(Records) /\ Len(file') = 1 /\ file'[1] = r
         /\ pos' = 2
         /\ FileIsPrefix' /\ HeaderFirst'
<1>1. file = <<>> /\ pos = 1 /\ Len(file) = 0 /\ file \in Seq(Records)
  BY DEF IInv, DumpShape
<1>2. file' \in Seq(Records) /\ Len(file') = 1 /\ file'[1] = r /\ pos' = 2
  <2>1. r \in Records /\ pos = Len(file) + 1
    BY <1>1 DEF Records
  <2>2. /\ file' \in Seq(Records)
        /\ Len(file') = Len(file) + 1
        /\ file'[Len(file) + 1] = r
        /\ pos' = Len(file') + 1
    BY <1>1, <2>1, WriteAppends, Zenon
  <2> QED
    BY <1>1, <2>2
<1> QED
  BY <1>2 DEF FileIsPrefix, HeaderFirst

LEMMA DumpHeaderInv == IInv /\ DumpHeader => IInv'
<1> SUFFICES ASSUME IInv, DumpHeader PROVE IInv'
  OBVIOUS
<1> DEFINE h == Header(cpu, Cardinality(NonZero))
<1>1. h \in Headers
  BY Counts DEF IInv, TypeOK, Headers
<1>2. /\ file' \in Seq(Records) /\ Len(file') = 1 /\ file'[1] = h
      /\ pos' = 2
      /\ FileIsPrefix' /\ HeaderFirst'
  BY <1>1, FirstRecord DEF DumpHeader
<1>3. /\ FindFirst \in 0..NPages
      /\ FindFirst = NPages \/ FindFirst \in NonZero
  <2>1. 0 \in 0..NPages
    BY Mapping
  <2> QED
    BY <2>1, Scan DEF FindFirst
<1>4. TypeOK'
  BY <1>2, <1>3, Mapping DEF IInv, DumpHeader, TypeOK, Points, Dumping
<1>5. Written(page)' = {} /\ NonZero' = NonZero
  BY WrittenEnds DEF DumpHeader, Written, NonZero
<1>6. DumpShape'
  <2>1. /\ at' = "pages" /\ page' = FindFirst /\ cpu' = cpu
    BY DEF DumpHeader
  <2>2. Cardinality(Written(page)') = 0
    BY <1>5, FS_EmptySet
  <2>3. page' = NPages \/ page' \in NonZero'
    BY <2>1, <1>3, <1>5
  <2>4. file'[1] = Header(cpu', Cardinality(NonZero'))
    BY <1>2, <1>5, <2>1
  <2>5. 2..Len(file') = {}
    BY <1>2
  <2> QED
    BY <1>2, <1>5, <2>1, <2>2, <2>3, <2>4, <2>5 DEF DumpShape
<1>7. LoadShape'
  BY DEF DumpHeader, LoadShape
<1> QED
  BY <1>2, <1>4, <1>6, <1>7 DEF IInv

LEMMA DumpPageInv == IInv /\ DumpPage => IInv'
<1> SUFFICES ASSUME IInv, DumpPage PROVE IInv'
  OBVIOUS
<1> DEFINE r == PageRec(page, mem[page])
<1>1. /\ at = "pages" /\ page # NPages /\ Write(r)
      /\ page' = FindNext(page)
      /\ at' = "pages" /\ cpu' = cpu /\ mem' = mem /\ left' = left
  BY DEF DumpPage
<1>2. page \in NonZero /\ page \in Pages /\ mem[page] \in Contents
      /\ mem[page] # Zero
  BY <1>1, Room DEF IInv, TypeOK, NonZero
<1>3. r \in PageRecs /\ r.va = page /\ r.data = mem[page]
  BY <1>2 DEF PageRecs, PageRec
<1>4. /\ file' \in Seq(Records) /\ Len(file') <= NPages + 1
      /\ pos' \in 1..NPages+2
      /\ FileIsPrefix' /\ HeaderFirst'
  BY <1>1, <1>2, <1>3, PrefixGrows
<1>5. /\ page + 1 \in 0..NPages
      /\ FindNext(page) \in 0..NPages
      /\ FindNext(page) = NPages \/ FindNext(page) \in NonZero
  <2>1. page + 1 \in 0..NPages
    BY <1>2, Mapping DEF Pages
  <2>2. FindNext(page) \in page+1..NPages
        /\ (FindNext(page) = NPages \/ FindNext(page) \in NonZero)
    BY <2>1, Scan DEF FindNext
  <2> QED
    BY <2>1, <2>2, <1>2 DEF Pages
<1>6. TypeOK'
  BY <1>1, <1>4, <1>5 DEF IInv, TypeOK, Points, Dumping
<1>7. /\ NonZero' = NonZero
      /\ Written(page)' = Written(page) \cup {page}
      /\ Cardinality(Written(page)') = Cardinality(Written(page)) + 1
  <2>1. NonZero' = NonZero
    BY <1>1 DEF NonZero
  <2>2. Written(page)' = Written(FindNext(page))
    BY <1>1, <2>1 DEF Written
  <2>3. IsFiniteSet(Written(page))
    BY Counts DEF Written
  <2>4. Written(page)' = Written(page) \cup {page} /\ page \notin Written(page)
    BY <1>2, <2>2, WrittenNext
  <2> QED
    BY <2>1, <2>3, <2>4, FS_AddElement
<1>8. /\ file \in Seq(Records)
      /\ pos = Len(file) + 1
      /\ Len(file) \in Nat /\ Len(file) >= 1
      /\ Len(file) = Cardinality(Written(page)) + 1
      /\ file[1] = Header(cpu, Cardinality(NonZero))
      /\ \A i \in 2..Len(file) :
           file[i].va \in Written(page) /\ file[i] = PageRec(file[i].va, mem[file[i].va])
      /\ \A p \in Written(page) : \E i \in 2..Len(file) : file[i].va = p
  <2>1. file \in Seq(Records)
    BY DEF IInv, TypeOK
  <2>2. Len(file) >= 1 /\ Len(file) \in Nat
    BY <2>1, <1>1, Room
  <2> QED
    BY <2>1, <2>2, <1>1 DEF IInv, DumpShape
<1>9. /\ Len(file') = Len(file) + 1
      /\ file'[Len(file) + 1] = r
      /\ \A i \in 1..Len(file) : file'[i] = file[i]
      /\ pos' = Len(file') + 1
  BY <1>1, <1>3, <1>8, WriteAppends DEF Records
<1>10. DumpShape'
  <2>1. page' = NPages \/ page' \in NonZero'
    BY <1>1, <1>5, <1>7
  <2>2. Len(file') = Cardinality(Written(page)') + 1
    BY <1>7, <1>8, <1>9
  <2>3. file'[1] = Header(cpu', Cardinality(NonZero'))
    BY <1>1, <1>7, <1>8, <1>9
  <2>4. ASSUME NEW i \in 2..Len(file')
        PROVE  /\ file'[i].va \in Written(page)'
               /\ file'[i] = PageRec(file'[i].va, mem'[file'[i].va])
    <3>1. CASE i = Len(file) + 1
      BY <3>1, <1>1, <1>3, <1>7, <1>9
    <3>2. CASE i \in 2..Len(file)
      <4>1. file'[i] = file[i]
        BY <3>2, <1>9, <1>8
      <4> QED
        BY <4>1, <3>2, <1>1, <1>7, <1>8
    <3> QED
      BY <3>1, <3>2, <1>8, <1>9
  <2>5. ASSUME NEW p \in Written(page)'
        PROVE  \E i \in 2..Len(file') : file'[i].va = p
    <3>1. CASE p = page
      <4>1. Len(file) + 1 \in 2..Len(file')
        BY <1>8, <1>9
      <4> QED
        BY <4>1, <3>1, <1>3, <1>9
    <3>2. CASE p \in Written(page)
      <4>1. PICK i \in 2..Len(file) : file[i].va = p
        BY <3>2, <1>8
      <4>2. i \in 2..Len(file') /\ file'[i] = file[i]
        BY <1>8, <1>9
      <4> QED
        BY <4>1, <4>2
    <3> QED
      BY <3>1, <3>2, <1>7
  <2> QED
    BY <1>1, <1>9, <2>1, <2>2, <2>3, <2>4, <2>5 DEF DumpShape
<1>11. LoadShape'
  BY <1>1 DEF LoadShape
<1> QED
  BY <1>4, <1>6, <1>10, <1>11 DEF IInv

LEMMA WriteShortInv == IInv /\ WriteShort => IInv'
<1> SUFFICES ASSUME IInv, WriteShort PROVE IInv'
  OBVIOUS
<1>1. /\ file' \in Seq(Records) /\ Len(file') <= NPages + 1
      /\ pos' \in 1..NPages+2
      /\ FileIsPrefix' /\ HeaderFirst'
  <2>1. CASE at = "header"
    <3>1. Torn \in Headers \cup {Torn} /\ Write(Torn)
      BY DEF WriteShort
    <3>2. /\ file' \in Seq(Records) /\ Len(file') = 1 /\ pos' = 2
          /\ FileIsPrefix' /\ HeaderFirst'
      BY <2>1, <3>1, FirstRecord, Zenon
    <3> QED
      BY <3>2, Mapping
  <2>2. CASE at = "pages" /\ page # NPages
    BY <2>2, PrefixGrows DEF WriteShort
  <2> QED
    BY <2>1, <2>2 DEF WriteShort
<1>2. TypeOK'
  BY <1>1 DEF IInv, WriteShort, TypeOK, Points
<1>3. DumpShape' /\ LoadShape'
  BY Ashore DEF WriteShort
<1> QED
  BY <1>1, <1>2, <1>3 DEF IInv

LEMMA LoadOpenInv == IInv /\ LoadOpen => IInv'
<1> SUFFICES ASSUME IInv, LoadOpen PROVE IInv'
  OBVIOUS
<1>1. TypeOK'
  BY Mapping DEF IInv, LoadOpen, TypeOK, Points, Loading
<1>2. FileIsPrefix' /\ HeaderFirst'
  BY DEF IInv, LoadOpen, FileIsPrefix, HeaderFirst
<1>3. DumpShape' /\ LoadShape'
  BY DEF LoadOpen, DumpShape, LoadShape
<1> QED
  BY <1>1, <1>2, <1>3 DEF IInv

LEMMA LoadHeaderInv == IInv /\ LoadHeader => IInv'
<1> SUFFICES ASSUME IInv, LoadHeader PROVE IInv'
  OBVIOUS
<1>1. /\ pos = 1 /\ file # <<>> /\ file[1] \in Headers
      /\ file[1].cpu \in Cpus /\ file[1].count \in 0..NPages
      /\ 1 \in DOMAIN file /\ file[1] # Torn
  <2>1. pos = 1 /\ file # <<>> /\ file[1] # Torn /\ 1 \in DOMAIN file
    BY DEF IInv, LoadShape, LoadHeader, Whole, TypeOK
  <2> QED
    BY <2>1, Kinds DEF IInv, HeaderFirst
<1>2. /\ at' = "loadpages" /\ pos' = 2
      /\ cpu' = file[1].cpu /\ left' = file[1].count
      /\ mem' = mem /\ file' = file /\ page' = page
  BY <1>1 DEF LoadHeader
<1>3. TypeOK'
  BY <1>1, <1>2, Mapping DEF IInv, TypeOK, Points, Loading
<1>4. FileIsPrefix' /\ HeaderFirst'
  BY <1>2 DEF IInv, FileIsPrefix, HeaderFirst
<1>5. DumpShape' /\ LoadShape'
  BY <1>1, <1>2 DEF DumpShape, LoadShape
<1> QED
  BY <1>3, <1>4, <1>5 DEF IInv

\* The record a page is read from.
LEMMA ReadRecord ==
  ASSUME IInv, at = "loadpages", Whole
  PROVE  /\ pos \in 2..Len(file) /\ pos \in DOMAIN file
         /\ file[pos] \in PageRecs
         /\ file[pos].va \in Pages /\ file[pos].data \in Contents
         /\ file[pos].data # Zero
<1>1. pos >= 2 /\ pos \in 1..Len(file) /\ file[pos] # Torn /\ file \in Seq(Records)
  BY DEF IInv, LoadShape, Whole, TypeOK
<1>2. file[pos] \in PageRecs /\ file[pos].data # Zero
  BY <1>1 DEF IInv, FileIsPrefix
<1> QED
  BY <1>1, <1>2, Kinds

LEMMA LoadPageInv == IInv /\ LoadPage => IInv'
<1> SUFFICES ASSUME IInv, LoadPage PROVE IInv'
  OBVIOUS
<1>1. /\ at = "loadpages" /\ at' = "loadpages" /\ left > 0 /\ Whole
      /\ mem' = [mem EXCEPT ![file[pos].va] = file[pos].data]
      /\ left' = left - 1 /\ pos' = pos + 1
      /\ cpu' = cpu /\ file' = file /\ page' = page
  BY DEF LoadPage
<1>2. /\ pos \in 2..Len(file)
      /\ file[pos].va \in Pages /\ file[pos].data \in Contents
  BY <1>1, ReadRecord
<1>3. TypeOK'
  <2>1. mem' \in [Pages -> Contents]
    BY <1>1, <1>2 DEF IInv, TypeOK
  <2>2. left' \in 0..NPages /\ pos' \in 1..NPages+2
    BY <1>1, <1>2, Mapping DEF IInv, TypeOK
  <2> QED
    BY <1>1, <2>1, <2>2 DEF IInv, TypeOK
<1>4. FileIsPrefix' /\ HeaderFirst'
  BY <1>1 DEF IInv, FileIsPrefix, HeaderFirst
<1>5. DumpShape'
  BY <1>1 DEF DumpShape
<1>6. LoadShape'
  <2>1. file # <<>> /\ file[1] \in Headers /\ cpu = file[1].cpu /\ pos >= 2
        /\ left = file[1].count + 2 - pos /\ pos \in Nat
        /\ file[1].count \in 0..NPages
        /\ \A i \in 1..pos-1 : i \in DOMAIN file /\ file[i] # Torn
    <3>1. file # <<>> /\ file[1] \in Headers /\ cpu = file[1].cpu /\ pos >= 2
          /\ left = file[1].count + 2 - pos
          /\ \A i \in 1..pos-1 : i \in DOMAIN file /\ file[i] # Torn
      BY <1>1 DEF IInv, LoadShape
    <3>2. pos \in Nat
      BY DEF IInv, TypeOK
    <3>3. file[1].count \in 0..NPages
      BY <3>1, Kinds
    <3> QED
      BY <3>1, <3>2, <3>3
  <2>2. \A i \in 1..pos'-1 : i \in DOMAIN file' /\ file'[i] # Torn
    <3>1. pos \in DOMAIN file /\ file[pos] # Torn
      BY <1>1, ReadRecord DEF Whole
    <3>2. \A i \in 1..pos'-1 : i = pos \/ i \in 1..pos-1
      BY <1>1, <2>1
    <3> QED
      BY <1>1, <2>1, <3>1, <3>2
  <2> QED
    BY <1>1, <2>1, <2>2, Mapping DEF LoadShape
<1> QED
  BY <1>3, <1>4, <1>5, <1>6 DEF IInv

\* The steps that leave the file and end in "run" or "dead".
LEMMA AshoreInv ==
  ASSUME IInv, Run \/ DumpClose \/ LoadClose \/ ReadShort \/ Die \/ Start
  PROVE  IInv'
<1>1. file' = file /\ page' = page /\ left' = left /\ pos' = pos
      /\ at' \in {"run", "dead"}
  BY DEF Run, DumpClose, LoadClose, ReadShort, Die, Start
<1>2. cpu' \in Cpus /\ mem' \in [Pages -> Contents]
  <2>1. CASE Run
    BY <2>1 DEF Run, IInv, TypeOK
  <2>2. CASE Start
    BY <2>2, Mapping DEF Start, Blank
  <2>3. CASE DumpClose \/ LoadClose \/ ReadShort \/ Die
    BY <2>3 DEF IInv, TypeOK, DumpClose, LoadClose, ReadShort, Die
  <2> QED
    BY <2>1, <2>2, <2>3
<1>3. TypeOK'
  BY <1>1, <1>2 DEF IInv, TypeOK, Points
<1>4. FileIsPrefix' /\ HeaderFirst'
  BY <1>1 DEF IInv, FileIsPrefix, HeaderFirst
<1> QED
  BY <1>1, <1>3, <1>4, Ashore DEF IInv

LEMMA NextIInv == IInv /\ [Next]_vars => IInv'
<1> SUFFICES ASSUME IInv, [Next]_vars PROVE IInv'
  OBVIOUS
<1>1. CASE DumpOpen
  BY <1>1, DumpOpenInv
<1>2. CASE DumpHeader
  BY <1>2, DumpHeaderInv
<1>3. CASE DumpPage
  BY <1>3, DumpPageInv
<1>4. CASE WriteShort
  BY <1>4, WriteShortInv
<1>5. CASE LoadOpen
  BY <1>5, LoadOpenInv
<1>6. CASE LoadHeader
  BY <1>6, LoadHeaderInv
<1>7. CASE LoadPage
  BY <1>7, LoadPageInv
<1>8. CASE Run \/ DumpClose \/ LoadClose \/ ReadShort \/ Die \/ Start
  BY <1>8, AshoreInv
<1>9. CASE UNCHANGED vars
  BY <1>9 DEF vars, IInv, TypeOK, FileIsPrefix, HeaderFirst, DumpShape, LoadShape,
              Written, NonZero
<1> QED
  BY <1>1, <1>2, <1>3, <1>4, <1>5, <1>6, <1>7, <1>8, <1>9
     DEF Next, DumpStep, LoadStep

\* The inductive invariant of dumps and loads.
THEOREM SnapshotInvariance == Spec => []IInv
  BY InitIInv, NextIInv, PTL DEF Spec

\* Every variable keeps the type of its counterpart in saveState.cc, and the
\* file never outgrows a header and one record for each page.
THEOREM SnapshotTypes == Spec => []TypeOK
  BY SnapshotInvariance, PTL DEF IInv

\* Through every death and every short write the file stays the beginning of
\* a dump: ascending pages, none zero, only its end torn.
THEOREM PrefixAlways == Spec => []FileIsPrefix
  BY SnapshotInvariance, PTL DEF IInv

-----------------------------------------------------------------------------
(* What a file holds.                                                      *)

LEMMA CompleteFile ==
  ASSUME IInv, Complete
  PROVE  /\ file[1] \in Headers /\ file[1].cpu \in Cpus
         /\ file[1].count \in 0..NPages
         /\ \A i \in 2..file[1].count+1 :
              /\ i \in DOMAIN file /\ file[i] \in PageRecs
              /\ file[i].va \in Pages
              /\ file[i].data \in Contents /\ file[i].data # Zero
         /\ \A i, j \in 2..file[1].count+1 : file[i].va = file[j].va => i = j
<1>1. file[1] \in Headers /\ file[1].cpu \in Cpus /\ file[1].count \in 0..NPages
  BY Kinds DEF IInv, HeaderFirst, Complete
<1>2. ASSUME NEW i \in 2..file[1].count+1
      PROVE  /\ i \in DOMAIN file /\ file[i] \in PageRecs
             /\ file[i].va \in Pages
             /\ file[i].data \in Contents /\ file[i].data # Zero
             /\ \A j \in 2..i-1 : file[j].va < file[i].va
  <2>1. i \in DOMAIN file /\ file[i] # Torn /\ i > 1
    BY <1>1 DEF Complete
  <2>2. /\ file[i] \in PageRecs /\ file[i].data # Zero
        /\ \A j \in 2..i-1 : file[j].va < file[i].va
    BY <2>1 DEF IInv, FileIsPrefix
  <2> QED
    BY <2>1, <2>2, Kinds
<1>3. ASSUME NEW i \in 2..file[1].count+1, NEW j \in 2..file[1].count+1,
             file[i].va = file[j].va
      PROVE  i = j
  <2>1. i < j \/ j < i \/ i = j
    BY <1>1
  <2>2. CASE i < j
    BY <2>2, <1>1, <1>2, <1>3, Mapping DEF Pages
  <2>3. CASE j < i
    BY <2>3, <1>1, <1>2, <1>3, Mapping DEF Pages
  <2> QED
    BY <2>1, <2>2, <2>3
<1> QED
  BY <1>1, <1>2, <1>3

\* A copied page is its record's, any other is what it was.
LEMMA CopiedPage ==
  ASSUME IInv, Complete, NEW first \in 2..file[1].count+2, NEW m
  PROVE  /\ \A i \in first..file[1].count+1 :
              Copied(first, m)[file[i].va] = file[i].data
         /\ \A p \in Pages :
              (\A i \in first..file[1].count+1 : file[i].va # p)
                => Copied(first, m)[p] = m[p]
<1> DEFINE I(p) == {i \in first..file[1].count+1 : file[i].va = p}
<1>1. \A p \in Pages :
        Copied(first, m)[p] = IF I(p) = {} THEN m[p] ELSE file[Max(I(p))].data
  BY DEF Copied
<1>2. ASSUME NEW i \in first..file[1].count+1
      PROVE  Copied(first, m)[file[i].va] = file[i].data
  <2>1. file[1].count \in Nat /\ i \in 2..file[1].count+1 /\ file[i].va \in Pages
    BY CompleteFile
  <2>2. I(file[i].va) = {i}
    BY <2>1, CompleteFile
  <2>3. Max({i}) = i
    BY <2>1 DEF Max
  <2> QED
    BY <1>1, <2>1, <2>2, <2>3
<1> QED
  BY <1>1, <1>2

\* A dump is complete exactly when no page is left to write.
LEMMA WholeDump ==
  ASSUME IInv, at = "pages"
  PROVE  /\ Complete <=> page = NPages
         /\ page = NPages => Saved = [cpu |-> cpu, mem |-> mem]
<1>1. /\ page = NPages \/ page \in NonZero
      /\ file \in Seq(Records)
      /\ Len(file) = Cardinality(Written(page)) + 1
      /\ file[1] = Header(cpu, Cardinality(NonZero))
      /\ \A i \in 2..Len(file) :
           file[i].va \in Written(page) /\ file[i] = PageRec(file[i].va, mem[file[i].va])
      /\ \A p \in Written(page) : \E i \in 2..Len(file) : file[i].va = p
      /\ cpu \in Cpus /\ mem \in [Pages -> Contents]
  BY DEF IInv, DumpShape, TypeOK
<1>2. /\ file[1] \in Headers
      /\ file[1].cpu = cpu /\ file[1].count = Cardinality(NonZero)
      /\ Cardinality(NonZero) \in 0..NPages
  BY <1>1, Counts DEF Headers, Header
<1>3. ASSUME page # NPages PROVE ~Complete
  <2>1. Len(file) <= file[1].count
    BY <1>3, Room
  <2>2. Len(file) + 1 \in 2..file[1].count+1 /\ Len(file) + 1 \notin DOMAIN file
    BY <2>1, <1>1, <1>2, Room, <1>3
  <2> QED
    BY <2>2 DEF Complete
<1>4. ASSUME page = NPages
      PROVE  Complete /\ Saved = [cpu |-> cpu, mem |-> mem]
  <2>1. Written(page) = NonZero /\ Len(file) = file[1].count + 1
    BY <1>1, <1>2, <1>4, WrittenEnds
  <2>2. Complete
    <3>1. \A i \in 2..file[1].count+1 : i \in DOMAIN file /\ file[i] \in PageRecs
      BY <1>1, <1>2, <2>1 DEF PageRecs, NonZero
    <3>2. file # <<>>
      BY <2>1, <1>2
    <3> QED
      BY <3>1, <3>2, <1>2, Kinds DEF Complete
  <2>3. ASSUME NEW p \in Pages PROVE Copied(2, Blank)[p] = mem[p]
    <3>1. 2 \in 2..file[1].count+2
      BY <1>2
    <3>2. CASE p \in NonZero
      <4>1. PICK i \in 2..Len(file) : file[i].va = p
        BY <3>2, <2>1, <1>1
      <4>2. i \in 2..file[1].count+1 /\ file[i].data = mem[p]
        <5>1. i \in 2..file[1].count+1
          BY <2>1
        <5>2. file[i] = PageRec(p, mem[p])
          BY <4>1, <1>1
        <5>3. PageRec(p, mem[p]).data = mem[p]
          BY DEF PageRec
        <5> QED
          BY <5>1, <5>2, <5>3
      <4> QED
        BY <4>1, <4>2, <3>1, <2>2, CopiedPage
    <3>3. CASE p \notin NonZero
      <4>1. \A i \in 2..file[1].count+1 : file[i].va # p
        BY <3>3, <2>1, <1>1
      <4>2. mem[p] = Zero /\ Blank[p] = Zero
        BY <3>3 DEF NonZero, Blank
      <4> QED
        BY <4>1, <4>2, <3>1, <2>2, CopiedPage
    <3> QED
      BY <3>2, <3>3
  <2>4. Copied(2, Blank) = mem
    <3>1. Copied(2, Blank) = [p \in Pages |-> Copied(2, Blank)[p]]
      BY DEF Copied
    <3> QED
      BY <3>1, <2>3, <1>1
  <2> QED
    BY <2>2, <2>4, <1>2 DEF Saved
<1> QED
  BY <1>3, <1>4

-----------------------------------------------------------------------------
(* The abstract store.                                                     *)

\* What the abstract store sees at each point of the program.
AsSeen ==
  /\ at = "run" => Phase = "run" /\ Shown = [cpu |-> cpu, mem |-> mem]
  /\ at \in Dumping => Phase = "save" /\ Shown = [cpu |-> cpu, mem |-> mem]
  /\ at \in Loading /\ Complete => Phase = "load" /\ Shown = Loaded
  /\ at \in Loading /\ ~Complete => Phase = "off" /\ Shown = None
  /\ at = "dead" => Phase = "off" /\ Shown = None
  /\ ~Complete => Saved = None

LEMMA Views == AsSeen
BY DEF AsSeen, Phase, Shown, Dumping, Loading, Saved

LEMMA ViewsNext == AsSeen'
BY Views, PTL

\* A dump with no page left is complete, and its file holds the machine.
DumpEnds ==
  /\ Complete <=> page = NPages
  /\ page = NPages => Saved = [cpu |-> cpu, mem |-> mem]

LEMMA EndOfDump == IInv /\ at = "pages" => DumpEnds
BY WholeDump DEF DumpEnds

LEMMA EndOfDumpNext == (IInv /\ at = "pages" => DumpEnds)'
BY EndOfDump, PTL

\* What is in the file depends on the file alone.
LEMMA SameFile ==
  ASSUME file' = file
  PROVE  (Complete' <=> Complete) /\ Saved' = Saved
BY DEF Complete, Saved, Copied

LEMMA NothingYet == file = <<>> => ~Complete /\ Saved = None
BY DEF Complete, Saved

LEMMA InitStore == Init => Store!Init
<1> SUFFICES ASSUME Init PROVE Store!Init
  OBVIOUS
<1>1. Phase = "run" /\ Shown = [cpu |-> cpu, mem |-> mem]
  BY Views DEF AsSeen, Init
<1>2. Saved = None
  BY NothingYet DEF Init
<1>3. [cpu |-> cpu, mem |-> mem] \in Store!Fresh
  BY Mapping DEF Init, Store!Fresh, Store!Machine, Blank
<1> QED
  BY <1>1, <1>2, <1>3 DEF Store!Init

LEMMA RunStore == IInv /\ IInv' /\ Run => Store!Compute
<1> SUFFICES ASSUME IInv, IInv', Run PROVE Store!Compute
  OBVIOUS
<1>1. at = "run" /\ at' = "run" /\ file' = file
  BY DEF Run
<1>2. /\ Phase = "run" /\ Phase' = "run" /\ Saved' = Saved
      /\ Shown' = [cpu |-> cpu', mem |-> mem']
  BY <1>1, Views, ViewsNext, SameFile DEF AsSeen
<1>3. Shown' \in Store!Machine
  BY <1>2 DEF IInv, TypeOK, Store!Machine
<1> QED
  BY <1>2, <1>3 DEF Store!Compute

LEMMA DumpOpenStore == DumpOpen => Store!BeginSave
<1> SUFFICES ASSUME DumpOpen PROVE Store!BeginSave
  OBVIOUS
<1>1. /\ at = "run" /\ at' = "header" /\ at' \in Dumping /\ file' = <<>>
      /\ cpu' = cpu /\ mem' = mem
  BY DEF DumpOpen, Truncated, Dumping
<1>2. (file = <<>> => ~Complete /\ Saved = None)'
  BY NothingYet, PTL
<1>3. /\ Phase = "run" /\ Phase' = "save" /\ Saved' = None
      /\ Shown' = Shown
  BY <1>1, <1>2, Views, ViewsNext DEF AsSeen
<1> QED
  BY <1>3 DEF Store!BeginSave

\* A write takes effect in the store when it is the last one.
LEMMA WriteStore ==
  ASSUME IInv, IInv', DumpHeader \/ DumpPage
  PROVE  Store!Save \/ UNCHANGED Store!storeVars
<1>1. /\ at \in Dumping /\ at' \in Dumping /\ at' = "pages"
      /\ cpu' = cpu /\ mem' = mem
  BY DEF DumpHeader, DumpPage, Dumping
<1>2. /\ Phase = "save" /\ Phase' = "save"
      /\ Shown = [cpu |-> cpu, mem |-> mem] /\ Shown' = Shown
  BY <1>1, Views, ViewsNext DEF AsSeen
<1>3. ~Complete /\ Saved = None
  <2>1. CASE DumpHeader
    BY <2>1, NothingYet DEF DumpHeader, IInv, DumpShape
  <2>2. CASE DumpPage
    BY <2>2, EndOfDump, Views DEF DumpPage, DumpEnds, AsSeen
  <2> QED
    BY <2>1, <2>2
<1>4. Complete' => Saved' = Shown
  BY <1>1, <1>2, EndOfDumpNext DEF DumpEnds
<1>5. ~Complete' => Saved' = None
  BY ViewsNext DEF AsSeen
<1> QED
  BY <1>2, <1>3, <1>4, <1>5 DEF Store!Save, Store!storeVars

LEMMA DumpCloseStore == IInv /\ DumpClose => Store!EndSave
<1> SUFFICES ASSUME IInv, DumpClose PROVE Store!EndSave
  OBVIOUS
<1>1. /\ at = "pages" /\ at \in Dumping /\ page = NPages /\ at' = "run"
      /\ file' = file /\ cpu' = cpu /\ mem' = mem
  BY DEF DumpClose, Dumping
<1>2. /\ Phase = "save" /\ Phase' = "run" /\ Shown' = Shown
      /\ Saved' = Saved /\ Saved = Shown
  BY <1>1, Views, ViewsNext, SameFile, EndOfDump DEF AsSeen, DumpEnds
<1> QED
  BY <1>2 DEF Store!EndSave

LEMMA WriteShortStore == IInv /\ WriteShort => Store!Die
<1> SUFFICES ASSUME IInv, WriteShort PROVE Store!Die
  OBVIOUS
<1>1. Phase' = "off" /\ Shown' = None
  BY ViewsNext DEF AsSeen, WriteShort
<1>2. ~Complete /\ Saved = None
  <2>1. CASE at = "header"
    BY <2>1, NothingYet DEF IInv, DumpShape
  <2>2. CASE at = "pages" /\ page # NPages
    BY <2>2, EndOfDump, Views DEF DumpEnds, AsSeen
  <2> QED
    BY <2>1, <2>2 DEF WriteShort
<1>3. ~Complete'
  <2>1. CASE at = "header"
    <3>1. Torn \in Headers \cup {Torn} /\ Write(Torn)
      BY DEF WriteShort
    <3>2. file'[1] = Torn
      BY <2>1, <3>1, FirstRecord, Zenon
    <3> QED
      BY <3>2 DEF Complete
  <2>2. CASE at = "pages" /\ page # NPages
    <3>1. /\ file \in Seq(Records) /\ pos = Len(file) + 1 /\ Write(Torn)
          /\ Len(file) <= file[1].count /\ Len(file) >= 1
          /\ file[1].count \in 0..NPages
      BY <2>2, Room, Kinds DEF WriteShort, IInv, TypeOK
    <3>2. file'[1] = file[1] /\ file'[Len(file) + 1] = Torn
      BY <3>1, WriteAppends DEF Records
    <3>3. Len(file) + 1 \in 2..file'[1].count+1
      BY <3>1, <3>2
    <3> QED
      BY <3>2, <3>3 DEF Complete
  <2> QED
    BY <2>1, <2>2 DEF WriteShort
<1>4. Saved' = None
  BY <1>3, ViewsNext DEF AsSeen
<1> QED
  BY <1>1, <1>2, <1>4 DEF Store!Die

\* A load of a complete file shows at once what it will leave.
LEMMA LoadOpenStore == IInv /\ LoadOpen => Store!Load \/ Store!Die
<1> SUFFICES ASSUME IInv, LoadOpen PROVE Store!Load \/ Store!Die
  OBVIOUS
<1>1. /\ at = "run" /\ at' = "loadheader" /\ at' \in Loading
      /\ file' = file /\ mem' = mem /\ cpu' = cpu
  BY DEF LoadOpen, Loading
<1>2. /\ Phase = "run" /\ Shown = [cpu |-> cpu, mem |-> mem]
      /\ Saved' = Saved /\ (Complete' <=> Complete)
  BY <1>1, Views, SameFile DEF AsSeen
<1>3. CASE ~Complete
  <2>1. Phase' = "off" /\ Shown' = None
    BY <1>1, <1>2, <1>3, ViewsNext DEF AsSeen
  <2> QED
    BY <1>2, <2>1 DEF Store!Die
<1>4. CASE Complete
  <2>1. /\ Phase' = "load"
        /\ Shown' = [cpu |-> file[1].cpu, mem |-> Copied(2, mem)]
    <3>1. Phase' = "load" /\ Shown' = Loaded'
      BY <1>1, <1>2, <1>4, ViewsNext DEF AsSeen
    <3>2. Loaded' = [cpu |-> file[1].cpu, mem |-> Copied(2, mem)]
      BY <1>1 DEF Loaded, Copied
    <3> QED
      BY <3>1, <3>2
  <2>2. Saved = [cpu |-> file[1].cpu, mem |-> Copied(2, Blank)]
    BY <1>4 DEF Saved
  <2>3. ASSUME NEW p \in Pages
        PROVE  Copied(2, mem)[p]
                 = IF Copied(2, Blank)[p] # Zero THEN Copied(2, Blank)[p] ELSE mem[p]
    <3>1. 2 \in 2..file[1].count+2
      BY <1>4, CompleteFile
    <3>2. CASE \A i \in 2..file[1].count+1 : file[i].va # p
      <4>1. Copied(2, mem)[p] = mem[p] /\ Copied(2, Blank)[p] = Blank[p]
        BY <1>4, <3>1, <3>2, CopiedPage
      <4> QED
        BY <4>1 DEF Blank
    <3>3. CASE \E i \in 2..file[1].count+1 : file[i].va = p
      <4>1. PICK i \in 2..file[1].count+1 : file[i].va = p
        BY <3>3
      <4>2. /\ Copied(2, mem)[p] = file[i].data
            /\ Copied(2, Blank)[p] = file[i].data
            /\ file[i].data # Zero
        BY <1>4, <3>1, <4>1, CopiedPage, CompleteFile
      <4> QED
        BY <4>2
    <3> QED
      BY <3>2, <3>3
  <2>4. Copied(2, mem) =
          [p \in Pages |->
             IF Copied(2, Blank)[p] # Zero THEN Copied(2, Blank)[p] ELSE mem[p]]
    <3>1. Copied(2, mem) = [p \in Pages |-> Copied(2, mem)[p]]
      BY DEF Copied
    <3> QED
      BY <3>1, <2>3
  <2>5. Shown' = Store!Onto(Saved, Shown)
    BY <1>2, <2>1, <2>2, <2>4 DEF Store!Onto
  <2>6. Saved # None
    <3>1. cpu \in Cpus /\ file[1].cpu \in Cpus /\ Blank \in [Pages -> Contents]
      BY <1>4, CompleteFile, Mapping DEF IInv, TypeOK, Blank
    <3>2. ASSUME NEW p \in Pages PROVE Copied(2, Blank)[p] \in Contents
      <4>1. 2 \in 2..file[1].count+2
        BY <1>4, CompleteFile
      <4>2. CASE \A i \in 2..file[1].count+1 : file[i].va # p
        BY <1>4, <3>1, <4>1, <4>2, CopiedPage
      <4>3. CASE \E i \in 2..file[1].count+1 : file[i].va = p
        BY <1>4, <4>1, <4>3, CopiedPage, CompleteFile
      <4> QED
        BY <4>2, <4>3
    <3>3. Copied(2, Blank) \in [Pages -> Contents]
      BY <3>2 DEF Copied
    <3> QED
      BY <2>2, <3>1, <3>3, NoneApart DEF Pages
  <2> QED
    BY <1>2, <2>1, <2>5, <2>6 DEF Store!Load
<1> QED
  BY <1>3, <1>4

\* Reading the header changes nothing the store sees.
LEMMA LoadHeaderStore == IInv /\ LoadHeader => UNCHANGED Store!storeVars
<1> SUFFICES ASSUME IInv, LoadHeader PROVE UNCHANGED Store!storeVars
  OBVIOUS
<1>1. /\ at = "loadheader" /\ at \in Loading /\ at' = "loadpages" /\ at' \in Loading
      /\ file' = file /\ mem' = mem /\ pos' = 2
  BY DEF LoadHeader, Loading, IInv, LoadShape
<1>2. Saved' = Saved /\ (Complete' <=> Complete)
  BY <1>1, SameFile
<1>3. Loaded' = Loaded
  BY <1>1 DEF Loaded, Copied
<1> QED
  BY <1>1, <1>2, <1>3, Views, ViewsNext DEF AsSeen, Store!storeVars

\* Nor does a page: what it copies was to be copied.
LEMMA LoadPageStore == IInv /\ IInv' /\ LoadPage => UNCHANGED Store!storeVars
<1> SUFFICES ASSUME IInv, IInv', LoadPage PROVE UNCHANGED Store!storeVars
  OBVIOUS
<1>1. /\ at = "loadpages" /\ at \in Loading /\ at' = "loadpages"
      /\ file' = file /\ left > 0 /\ pos' = pos + 1 /\ Whole
      /\ mem' = [mem EXCEPT ![file[pos].va] = file[pos].data]
  BY DEF LoadPage, Loading
<1>2. Saved' = Saved /\ (Complete' <=> Complete)
  BY <1>1, SameFile
<1>3. ASSUME Complete PROVE Loaded' = Loaded
  <2>1. /\ file[1].count \in Nat /\ pos \in 2..file[1].count+1
        /\ mem \in [Pages -> Contents]
    BY <1>1, <1>3, CompleteFile DEF IInv, LoadShape, TypeOK
  <2>2. /\ pos \in 2..file[1].count+2 /\ pos+1 \in 2..file[1].count+2
    BY <2>1
  <2>3. /\ file[pos].va \in Pages
        /\ \A i \in pos+1..file[1].count+1 : file[i].va # file[pos].va
    BY <2>1, <1>3, CompleteFile
  <2>4. ASSUME NEW p \in Pages
        PROVE  Copied(pos+1, mem')[p] = Copied(pos, mem)[p]
    <3>1. CASE p = file[pos].va
      <4>1. Copied(pos, mem)[p] = file[pos].data
        BY <1>3, <2>1, <2>2, <3>1, CopiedPage
      <4>2. Copied(pos+1, mem')[p] = mem'[p]
        BY <1>3, <2>2, <2>3, <3>1, CopiedPage
      <4> QED
        BY <4>1, <4>2, <3>1, <1>1, <2>1
    <3>2. CASE \E i \in pos+1..file[1].count+1 : file[i].va = p
      <4>1. PICK i \in pos+1..file[1].count+1 : file[i].va = p
        BY <3>2
      <4>2. i \in pos..file[1].count+1
        BY <2>1
      <4> QED
        BY <4>1, <4>2, <1>3, <2>2, CopiedPage
    <3>3. CASE p # file[pos].va /\ \A i \in pos+1..file[1].count+1 : file[i].va # p
      <4>1. \A i \in pos..file[1].count+1 : file[i].va # p
        BY <3>3, <2>1
      <4>2. Copied(pos, mem)[p] = mem[p] /\ Copied(pos+1, mem')[p] = mem'[p]
        BY <1>3, <2>2, <3>3, <4>1, CopiedPage
      <4> QED
        BY <4>2, <3>3, <1>1, <2>1
    <3> QED
      BY <3>1, <3>2, <3>3
  <2>5. Copied(pos+1, mem') = Copied(pos, mem)
    BY <2>4 DEF Copied
  <2>6. Loaded' = [cpu |-> file[1].cpu, mem |-> Copied(pos+1, mem')]
    BY <1>1 DEF Loaded, Copied
  <2>7. Loaded = [cpu |-> file[1].cpu, mem |-> Copied(pos, mem)]
    BY <1>1 DEF Loaded
  <2> QED
    BY <2>5, <2>6, <2>7
<1> QED
  BY <1>1, <1>2, <1>3, Views, ViewsNext DEF AsSeen, Store!storeVars

\* A load that has read its last page found all of them.
LEMMA LoadCloseStore == IInv /\ LoadClose => Store!EndLoad
<1> SUFFICES ASSUME IInv, LoadClose PROVE Store!EndLoad
  OBVIOUS
<1>1. /\ at = "loadpages" /\ at \in Loading /\ left = 0 /\ at' = "run"
      /\ file' = file /\ cpu' = cpu /\ mem' = mem
  BY DEF LoadClose, Loading
<1>2. /\ file # <<>> /\ file[1] \in Headers /\ file[1].count \in Nat
      /\ cpu = file[1].cpu /\ pos = file[1].count + 2
      /\ \A i \in 1..pos-1 : i \in DOMAIN file /\ file[i] # Torn
      /\ mem \in [Pages -> Contents]
  BY <1>1, Kinds DEF IInv, LoadShape, TypeOK
<1>3. Complete
  BY <1>2 DEF Complete
<1>4. Loaded = [cpu |-> cpu, mem |-> mem]
  <2>1. pos \in 2..file[1].count+2 /\ pos..file[1].count+1 = {}
    BY <1>2
  <2>2. ASSUME NEW p \in Pages PROVE Copied(pos, mem)[p] = mem[p]
    BY <1>3, <2>1, CopiedPage
  <2>3. Copied(pos, mem) = [p \in Pages |-> Copied(pos, mem)[p]]
    BY DEF Copied
  <2>4. Copied(pos, mem) = mem
    BY <2>2, <2>3, <1>2
  <2> QED
    BY <2>4, <1>1, <1>2 DEF Loaded
<1>5. /\ Phase = "load" /\ Phase' = "run"
      /\ Shown' = Shown /\ Saved' = Saved
  BY <1>1, <1>3, <1>4, Views, ViewsNext, SameFile DEF AsSeen
<1> QED
  BY <1>5 DEF Store!EndLoad

LEMMA DieStore == Die \/ ReadShort => Store!Die
<1> SUFFICES ASSUME Die \/ ReadShort PROVE Store!Die
  OBVIOUS
<1>1. at' = "dead" /\ file' = file
  BY DEF Die, ReadShort
<1>2. Phase' = "off" /\ Shown' = None /\ Saved' = Saved
  BY <1>1, ViewsNext, SameFile DEF AsSeen
<1> QED
  BY <1>2 DEF Store!Die

LEMMA StartStore == Start => Store!Start
<1> SUFFICES ASSUME Start PROVE Store!Start
  OBVIOUS
<1>1. at = "dead" /\ at' = "run" /\ file' = file /\ cpu' \in Cpus /\ mem' = Blank
  BY DEF Start
<1>2. /\ Phase = "off" /\ Phase' = "run" /\ Saved' = Saved
      /\ Shown' = [cpu |-> cpu', mem |-> mem']
  BY <1>1, Views, ViewsNext, SameFile DEF AsSeen
<1>3. Shown' \in Store!Fresh
  BY <1>1, <1>2, Mapping DEF Store!Fresh, Store!Machine, Blank
<1> QED
  BY <1>2, <1>3 DEF Store!Start

LEMMA NextStore == IInv /\ IInv' /\ [Next]_vars => [Store!Next]_(Store!storeVars)
<1> SUFFICES ASSUME IInv, IInv', [Next]_vars
             PROVE  Store!Next \/ UNCHANGED Store!storeVars
  OBVIOUS
<1>1. CASE Run
  BY <1>1, RunStore DEF Store!Next
<1>2. CASE DumpOpen
  BY <1>2, DumpOpenStore DEF Store!Next
<1>3. CASE DumpHeader \/ DumpPage
  BY <1>3, WriteStore DEF Store!Next
<1>4. CASE DumpClose
  BY <1>4, DumpCloseStore DEF Store!Next
<1>5. CASE WriteShort
  BY <1>5, WriteShortStore DEF Store!Next
<1>6. CASE LoadOpen
  BY <1>6, LoadOpenStore DEF Store!Next
<1>7. CASE LoadHeader
  BY <1>7, LoadHeaderStore
<1>8. CASE LoadPage
  BY <1>8, LoadPageStore
<1>9. CASE LoadClose
  BY <1>9, LoadCloseStore DEF Store!Next
<1>10. CASE Die \/ ReadShort
  BY <1>10, DieStore DEF Store!Next
<1>11. CASE Start
  BY <1>11, StartStore DEF Store!Next
<1>12. CASE UNCHANGED vars
  BY <1>12 DEF vars, Store!storeVars, Saved, Phase, Shown, Loaded, Copied, Complete,
               Loading, Dumping
<1> QED
  BY <1>1, <1>2, <1>3, <1>4, <1>5, <1>6, <1>7, <1>8, <1>9, <1>10, <1>11, <1>12
     DEF Next, DumpStep, LoadStep

\* dumpState and loadState implement a place that holds a whole machine or
\* nothing, whatever deaths and short writes come between their calls.
THEOREM SnapshotRefinement == Spec => ImplementsStore
  BY InitStore, NextStore, SnapshotInvariance, PTL
     DEF Spec, ImplementsStore, Store!Spec

-----------------------------------------------------------------------------
(* How long a dump or a load can be.                                       *)

\* Steps dumpState or loadState has left at most.
WorkLeft ==
  CASE at \in {"header", "loadheader"} -> NPages + 2
    [] at = "pages"                    -> NPages - page + 1
    [] at = "loadpages"                -> left + 1
    [] OTHER                           -> 0

Shorter ==
  at \in Dumping \cup Loading => WorkLeft \in Nat /\ WorkLeft' \in Nat /\ WorkLeft' < WorkLeft

LEMMA NextShorter ==
  ASSUME IInv, IInv', Next
  PROVE  Shorter
<1> USE DEF Dumping, Loading, Shorter
<1> SUFFICES ASSUME at \in Dumping \cup Loading
             PROVE  WorkLeft \in Nat /\ WorkLeft' \in Nat /\ WorkLeft' < WorkLeft
  OBVIOUS
<1>1. /\ NPages \in Nat \ {0}
      /\ page \in 0 .. NPages /\ left \in 0 .. NPages
      /\ page' \in 0 .. NPages /\ left' \in 0 .. NPages
  BY Mapping DEF IInv, TypeOK
<1>2. WorkLeft \in Nat /\ WorkLeft > 0
  BY <1>1 DEF WorkLeft
<1>3. CASE DumpHeader
  BY <1>1, <1>3 DEF DumpHeader, WorkLeft
<1>4. CASE DumpPage
  <2>1. page + 1 \in 0 .. NPages
    BY <1>1, <1>4 DEF DumpPage
  <2>2. page' > page
    BY <1>1, <1>4, <2>1, Scan DEF DumpPage, FindNext
  <2> QED
    BY <1>1, <1>4, <2>2 DEF DumpPage, WorkLeft
<1>5. CASE LoadHeader
  BY <1>1, <1>5 DEF LoadHeader, WorkLeft
<1>6. CASE LoadPage
  BY <1>1, <1>6 DEF LoadPage, WorkLeft
<1>7. CASE DumpClose \/ WriteShort \/ LoadClose \/ ReadShort \/ Die
  <2>1. at' \in {"run", "dead"}
    BY <1>7 DEF DumpClose, WriteShort, LoadClose, ReadShort, Die
  <2>2. WorkLeft' = 0
    BY <2>1 DEF WorkLeft
  <2> QED
    BY <1>2, <2>2
<1>8. ~(Run \/ DumpOpen \/ LoadOpen \/ Start)
  BY DEF Run, DumpOpen, LoadOpen, Start
<1> QED
  BY <1>3, <1>4, <1>5, <1>6, <1>7, <1>8 DEF Next, DumpStep, LoadStep

\* Every step of a dump and of a load brings its end nearer, whatever the file holds: a
\* scan of the page bits never comes back to a page, a count read from the file is never
\* above the number of pages, and a short write or read is not tried again.
THEOREM DumpsAreBounded == Spec => [][Shorter]_vars
<1>1. IInv /\ IInv' /\ [Next]_vars => [Shorter]_vars
  BY NextShorter
<1> QED
  BY <1>1, SnapshotInvariance, PTL DEF Spec
=============================================================================
