--------------------------- MODULE LoadElfProofs ---------------------------
(***************************************************************************)
(* Proofs about LoadElf, for every file, page size and mapping: types, the *)
(* image a guest starts with, what is write-protected, and the mailbox.    *)
(***************************************************************************)
EXTENDS LoadElf, WellFoundedInduction, TLAPS

\* A set of positions of a sequence that is not empty has a greatest one.
LEMMA Greatest ==
  ASSUME NEW n \in Nat, NEW S \in SUBSET (1 .. n), S # {}
  PROVE  Max(S) \in S /\ \A x \in S : x <= Max(S)
<1> DEFINE D == {n - x : x \in S}
<1>1. D \in SUBSET Nat /\ D # {}
  OBVIOUS
<1>2. PICK d \in D : \A e \in D : <<e, d>> \notin OpToRel(<, Nat)
  BY <1>1, WFMin, NatLessThanWellFounded, Zenon
<1>3. \A e \in D : ~(e < d)
  BY <1>1, <1>2, Zenon DEF OpToRel
<1>4. \E m \in S : \A x \in S : m >= x
  <2>1. PICK m \in S : d = n - m
    OBVIOUS
  <2>2. ASSUME NEW x \in S PROVE m >= x
    <3>1. n - x \in D /\ ~(n - x < n - m)
      BY <1>3, <2>1
    <3>2. x \in Int /\ m \in Int
      OBVIOUS
    <3> QED
      BY <3>1, <3>2
  <2> QED
    BY <2>2
<1>5. Max(S) \in S /\ \A x \in S : Max(S) >= x
  BY <1>4, Zenon DEF Max
<1>6. \A x \in S : x \in Int
  OBVIOUS
<1> QED
  BY <1>5, <1>6

\* A set with a greatest element has no other maximum.
LEMMA TheGreatest ==
  ASSUME NEW S \in SUBSET Int, NEW m \in S, \A x \in S : x <= m
  PROVE  Max(S) = m
<1>1. \E y \in S : \A x \in S : y >= x
  OBVIOUS
<1>2. Max(S) \in S /\ \A x \in S : Max(S) >= x
  BY <1>1, Zenon DEF Max
<1>3. Max(S) >= m /\ Max(S) <= m /\ Max(S) \in Int /\ m \in Int
  BY <1>2
<1> QED
  BY <1>3

-----------------------------------------------------------------------------
(* The image.                                                              *)

\* The numbers that the proofs need.
LEMMA Addresses == 0 \in Addr /\ Page \in Addr /\ 0 \in Byte /\ Addr \subseteq Int
  BY Sizes DEF Addr, RomLen

Image(n) == [a \in Addr |-> ImageByte(n, a)]

\* What the file's fields are.
LEMMA FileFields ==
  ASSUME file \in Files
  PROVE  /\ file.data \in Seq(Byte) /\ file.entry \in Addr /\ file.shoff \in Nat
         /\ file.phs \in Seq(Segments) /\ file.shs \in Seq(Sections)
  BY FileTypes DEF Elves

LEMMA FileByteType ==
  ASSUME file \in Files, NEW o \in Int
  PROVE  FileByte(o) \in Byte
<1>1. file.data \in Seq(Byte) /\ Stray \in Byte
  BY FileFields, Sizes
<1>2. ASSUME o \in 0 .. Len(file.data) - 1 PROVE file.data[o + 1] \in Byte
  <2>1. o + 1 \in 1 .. Len(file.data)
    BY <1>1, <1>2
  <2> QED
    BY <1>1, <2>1
<1> QED
  BY <1>1, <1>2 DEF FileByte

LEMMA SegmentFields ==
  ASSUME NEW ph \in Segments
  PROVE  ph.vaddr \in Addr /\ ph.vaddr \in Int /\ ph.offset \in Int
         /\ ph.filesz \in Int /\ ph.memsz \in Int
<1>1. ph.vaddr \in Addr /\ ph.offset \in Int /\ ph.filesz \in Int /\ ph.memsz \in Int
  BY DEF Segments
<1> QED
  BY <1>1 DEF Addr

\* A loadable segment, by the code's comparison, is one of type PT_LOAD.
LEMMA LoadsPtLoad ==
  ASSUME NEW ph, NEW a
  PROVE  (ph.type = PT.load /\ a \in Covered(ph)) <=> a \in Written(ph)
<1>1. PT.load = 1 /\ SHT.progbits = 1
  BY DEF PT, SHT
<1> QED
  BY <1>1, Zenon DEF Written, Loadable, Covered

\* The segments over a byte, as the code chooses them.
LEMMA Covers ==
  ASSUME NEW n, NEW a
  PROVE  {k \in 1 .. n : file.phs[k].type = PT.load /\ a \in Covered(file.phs[k])}
           = {k \in 1 .. n : a \in Written(file.phs[k])}
  BY LoadsPtLoad

\* One more segment goes over the image of those before it.
LEMMA ImageStep ==
  ASSUME file \in Files, NEW n \in Nat, n < Len(file.phs), NEW a \in Addr
  PROVE  ImageByte(n + 1, a) =
           IF a \in Written(file.phs[n + 1]) THEN SegmentByte(file.phs[n + 1], a)
           ELSE ImageByte(n, a)
<1> DEFINE ph == file.phs[n + 1]
           Over(m) == {k \in 1 .. m : a \in Written(file.phs[k])}
<1>1. ph \in Segments
  BY FileFields
<1>2. CASE a \in Written(ph)
  <2>1. Over(n + 1) \in SUBSET Int /\ n + 1 \in Over(n + 1)
        /\ \A x \in Over(n + 1) : x <= n + 1
    BY <1>2
  <2>2. Max(Over(n + 1)) = n + 1 /\ Over(n + 1) # {}
    BY <2>1, TheGreatest
  <2>3. ImageByte(n + 1, a) =
          IF a - ph.vaddr >= ph.filesz THEN 0 ELSE FileByte(ph.offset + a - ph.vaddr)
    BY <2>2, Covers DEF ImageByte
  <2>4. /\ a \in Int /\ ph.vaddr \in Int /\ ph.filesz \in Int /\ ph.memsz \in Int
        /\ a \in Zeroed(ph) \/ a \in Copied(ph)
    <3>1. a \in Zeroed(ph) \/ a \in Copied(ph)
      BY <1>2, Zenon DEF Written
    <3>2. a \in Int
      BY DEF Addr
    <3> QED
      BY <1>1, <3>1, <3>2, SegmentFields
  <2>5. a \in Copied(ph) <=> ~(a - ph.vaddr >= ph.filesz)
    BY <2>4 DEF Zeroed, Copied
  <2> QED
    BY <1>2, <2>3, <2>5 DEF SegmentByte
<1>3. CASE a \notin Written(ph)
  <2>1. Over(n + 1) = Over(n)
    BY <1>3
  <2> QED
    BY <1>3, <2>1, Covers DEF ImageByte
<1> QED
  BY <1>2, <1>3

LEMMA ImageStart == \A a \in Addr : ImageByte(0, a) = 0
  BY DEF ImageByte

LEMMA SegmentByteType ==
  ASSUME file \in Files, NEW n \in Nat, n < Len(file.phs), NEW a \in Addr
  PROVE  SegmentByte(file.phs[n + 1], a) \in Byte
<1>1. file.phs[n + 1] \in Segments
  BY FileFields
<1>2. file.phs[n + 1].offset + a - file.phs[n + 1].vaddr \in Int
  <2>1. a \in Int
    BY DEF Addr
  <2>2. file.phs[n + 1].offset \in Int /\ file.phs[n + 1].vaddr \in Int
    BY <1>1, SegmentFields
  <2> QED
    BY <2>1, <2>2
<1>3. 0 \in Byte
  BY Sizes
<1> QED
  BY <1>2, <1>3, FileByteType DEF SegmentByte

LEMMA RomByteType ==
  ASSUME NEW e \in Addr, NEW k \in 0 .. RomLen - 1
  PROVE  RomByte(e, k) \in Byte
<1>1. e \in Int
  BY Sizes DEF Addr
<1>2. \A w \in {1, 256, 65536, 16777216} : (e \div w) % 256 \in 0 .. 255
  BY <1>1
<1>3. k % 4 \in 0 .. 3
  BY DEF RomLen
<1>4. EntryByte(e, k % 4) \in 0 .. 255
  BY <1>2, <1>3 DEF EntryByte
<1>5. k < 20 => RomCode[k + 1] \in 0 .. 255
  BY DEF RomCode, RomLen
<1> QED
  BY <1>4, <1>5, Sizes DEF RomByte

-----------------------------------------------------------------------------
(* Sections and symbols.                                                   *)

LEMMA SectionType ==
  ASSUME file \in Files, NEW n \in Nat, n < Len(file.shs)
  PROVE  Section(n) \in Sections
<1>1. file.shs \in Seq(Sections) /\ n + 1 \in 1 .. Len(file.shs)
  BY FileFields
<1>2. file.shs[n + 1] \in Sections
  BY <1>1
<1>3. NoSection \in Sections
  <2>1. 0 \in Addr
    BY Addresses
  <2> QED
    BY <2>1 DEF NoSection, Sections
<1> QED
  BY <1>2, <1>3 DEF Section

\* A table that load_elf has chosen is one whose header was in the file.
LEMMA NamedInFile ==
  ASSUME NEW n, NEW name \in {".strtab", ".symtab"}, Named(Section(n), name)
  PROVE  HeaderInFile(n)
  BY DEF Named, Section, NoSection

LEMMA ElementType ==
  ASSUME NEW T, NEW s \in Seq(T), NEW k \in DOMAIN s
  PROVE  s[k] \in T
  OBVIOUS

\* What is entered under a name is the value of a symbol of that name.
LEMMA EnteredSymbol ==
  ASSUME NEW syms \in Seq(Syms), NEW name \in DOMAIN Entered(syms)
  PROVE  /\ Entered(syms)[name] \in Addr
         /\ \E m \in DOMAIN syms :
              /\ IsSymbol(syms[m], name, Entered(syms)[name])
              /\ \A s \in DOMAIN syms : syms[s].name = name => s <= m
<1> DEFINE S == {n \in DOMAIN syms : syms[n].name = name}
<1>1. S \in SUBSET (1 .. Len(syms)) /\ S # {} /\ Len(syms) \in Nat
  BY DEF Entered
<1>2. PICK m \in S : m = Max(S) /\ \A s \in S : s <= m
  BY <1>1, Greatest
<1>3. Entered(syms)[name] = syms[m].value
  BY <1>2 DEF Entered
<1>4. m \in DOMAIN syms /\ syms[m].name = name
  BY <1>2
<1>5. syms[m] \in Syms
  BY <1>4, ElementType, Zenon
<1>6. syms[m].value \in Addr
  BY <1>5 DEF Syms
<1>7. \A s \in DOMAIN syms : syms[s].name = name => s <= m
  BY <1>2
<1> QED
  BY <1>3, <1>4, <1>6, <1>7, Zenon DEF IsSymbol

-----------------------------------------------------------------------------
(* The inductive invariant.                                                *)

Before   == {"open", "map", "check"}
Finding  == {"mailbox", "rom", "loaded"}

\* The memory is the image of the segments read so far.
Placed ==
  /\ at \in Before => i = 0 /\ mem = Image(0)
  /\ at = "segments" => i \in 0 .. Len(file.phs) /\ mem = Image(i) /\ pc = file.entry
  /\ at \in {"sections", "mailbox", "rom"} =>
       mem = Image(Len(file.phs)) /\ pc = file.entry

ProtectedBy(n) == UNION {Protected(Section(k)) : k \in 0 .. n - 1}

\* In the mapping what the first n sections ask for is protected, behind it part of it.
Guarded(n) == prot \subseteq ProtectedBy(n) /\ ProtectedBy(n) \cap Addr \subseteq prot

Shielded ==
  /\ at \in Before \cup {"segments"} => prot = {}
  /\ at = "sections" => i \in 0 .. Len(file.shs) /\ Guarded(i)
  /\ at \in Finding => Guarded(Len(file.shs))

Symbols(n) == Entered(Section(n).syms)

\* Tables are sections of the file, symbols come from them.
Listed ==
  /\ symtabidx # 0 => symtabidx \in 1 .. Len(file.shs) - 1 /\ HeaderInFile(symtabidx)
  /\ symtab = <<>> \/ (symtabidx # 0 /\ symtab = Symbols(symtabidx))
  /\ at \in {"rom", "loaded"} =>
       /\ {"tohost", "fromhost"} \subseteq DOMAIN symtab
       /\ tohost_addr = symtab["tohost"]
       /\ fromhost_addr = symtab["fromhost"]
  /\ at \in Before \cup {"segments", "sections"} => symtab = <<>>

IInv == file \in Files /\ TypeOK /\ Placed /\ StartsAsLinked /\ Shielded /\ Listed

LEMMA InitInv == Init => IInv
<1> SUFFICES ASSUME Init PROVE IInv
  OBVIOUS
<1> USE DEF Init
<1>1. file \in Files
  OBVIOUS
<1>2. 0 \in Addr /\ 0 \in Byte
  BY Addresses
<1>3. TypeOK
  BY <1>2 DEF TypeOK
<1>4. Placed
  BY ImageStart DEF Placed, Image, Before
<1>5. StartsAsLinked
  BY DEF StartsAsLinked
<1>6. Shielded
  BY DEF Shielded, Before, Finding
<1>7. Listed
  BY DEF Listed, Before
<1> QED
  BY <1>1, <1>3, <1>4, <1>5, <1>6, <1>7 DEF IInv

LEMMA TypeNext ==
  ASSUME IInv, [Next]_vars
  PROVE  file' \in Files /\ TypeOK'
<1> USE DEF Goto, Tables, Globals, Ended
<1>0. file \in Files /\ TypeOK
  BY DEF IInv
<1>1. CASE Accept
  BY <1>0, <1>1, FileFields DEF Accept, TypeOK
<1>2. CASE Segment
  <2>1. i \in Nat /\ mem \in [Addr -> Byte] /\ i < Len(file.phs)
    BY <1>0, <1>2 DEF TypeOK, Segment
  <2>2. \A a \in Addr : SegmentByte(file.phs[i + 1], a) \in Byte
    BY <1>0, <2>1, SegmentByteType
  <2>3. mem' \in [Addr -> Byte]
    BY <1>2, <2>1, <2>2, Zenon DEF Segment
  <2> QED
    BY <1>0, <1>2, <2>3 DEF Segment, TypeOK
<1>3. CASE ReadSection
  <2>1. i \in Nat /\ i < Len(file.shs) /\ prot \subseteq Nat
    BY <1>0, <1>3 DEF ReadSection, TypeOK
  <2>2. Section(i).addr \in Nat
    BY <1>0, <2>1, SectionType DEF Sections, Addr
  <2>3. Protected(Section(i)) \subseteq Nat
    BY <2>2 DEF Protected
  <2>4. prot' \subseteq Nat
    BY <1>3, <2>1, <2>3 DEF ReadSection
  <2> QED
    BY <1>0, <1>3, <2>4 DEF ReadSection, TypeOK
<1>4. CASE Mailbox
  <2>1. symtabidx \in 1 .. Len(file.shs) - 1 /\ symtab = Entered(Section(symtabidx).syms)
    BY <1>4 DEF Mailbox, IInv, Listed, Symbols
  <2>2. Section(symtabidx) \in Sections
    BY <1>0, <2>1, SectionType DEF TypeOK
  <2>3. Section(symtabidx).syms \in Seq(Syms)
    BY <2>2 DEF Sections
  <2>4. tohost_addr' \in Addr /\ fromhost_addr' \in Addr
    BY <1>4, <2>1, <2>3, EnteredSymbol DEF Mailbox
  <2> QED
    BY <1>0, <1>4, <2>4 DEF Mailbox, TypeOK
<1>5. CASE WriteRom
  <2>1. \A a \in Rom : a - Page \in 0 .. RomLen - 1
    BY Sizes DEF Rom, RomLen
  <2>2. \A a \in Rom : RomByte(pc, a - Page) \in Byte
    BY <1>0, <2>1, RomByteType DEF TypeOK
  <2>3. mem \in [Addr -> Byte] /\ Page \in Addr
    BY <1>0, Addresses DEF TypeOK
  <2>4. mem' \in [Addr -> Byte]
    BY <1>5, <2>2, <2>3, Zenon DEF WriteRom
  <2> QED
    BY <1>0, <1>5, <2>3, <2>4 DEF WriteRom, TypeOK
<1>6. CASE SegmentsDone \/ SectionsDone
  <2>1. CASE SegmentsDone
    BY <1>0, <2>1 DEF SegmentsDone, TypeOK
  <2>2. CASE SectionsDone
    BY <1>0, <2>2 DEF SectionsDone, TypeOK
  <2> QED
    BY <1>6, <2>1, <2>2
<1>7. CASE Open \/ Map \/ CheckElf \/ CheckOrder \/ CheckTarget
  BY <1>0, <1>7 DEF Open, Map, CheckElf, CheckOrder, CheckTarget, TypeOK
<1>8. CASE SegmentFault \/ SectionFault \/ HostFault \/ NoMailbox \/ RomFault
  BY <1>0, <1>8 DEF SegmentFault, SectionFault, HostFault, NoMailbox, RomFault, TypeOK
<1>9. CASE UNCHANGED vars
  BY <1>0, <1>9 DEF vars, TypeOK
<1> QED
  BY <1>1, <1>2, <1>3, <1>4, <1>5, <1>6, <1>7, <1>8, <1>9 DEF Next

\* The file is not written, so what is read in it stays.
LEMMA SameFile ==
  ASSUME [Next]_vars
  PROVE  /\ file' = file
         /\ \A n : Image(n)' = Image(n)
<1>1. file' = file
  BY DEF Next, vars, Goto, Open, Map, CheckElf, CheckOrder, CheckTarget, Accept, Segment,
    SegmentFault, SegmentsDone, ReadSection, SectionFault, HostFault, SectionsDone, Mailbox,
    NoMailbox, WriteRom, RomFault
<1> QED
  BY <1>1 DEF Image, ImageByte, Written, Loadable, Covered, Zeroed, Copied,
    FileByte

LEMMA PlacedNext ==
  ASSUME IInv, [Next]_vars
  PROVE  Placed' /\ StartsAsLinked'
<1> USE DEF Goto, Tables, Globals, Before
<1>0. file \in Files /\ TypeOK /\ Placed /\ StartsAsLinked
  BY DEF IInv
<1>f. file' = file /\ \A n : Image(n)' = Image(n)
  BY SameFile
<1>1. CASE Accept
  BY <1>0, <1>1, <1>f, FileFields DEF Accept, Placed, StartsAsLinked
<1>2. CASE Segment
  <2>1. i \in 0 .. Len(file.phs) /\ i < Len(file.phs) /\ mem = Image(i) /\ pc = file.entry
    BY <1>0, <1>2 DEF Segment, Placed
  <2>2. mem' = [a \in Addr |->
                  IF a \in Written(file.phs[i + 1]) THEN SegmentByte(file.phs[i + 1], a)
                  ELSE Image(i)[a]]
    BY <1>2, <2>1 DEF Segment
  <2>3. \A a \in Addr : ImageByte(i + 1, a) =
          IF a \in Written(file.phs[i + 1]) THEN SegmentByte(file.phs[i + 1], a)
          ELSE ImageByte(i, a)
    BY <1>0, <2>1, ImageStep
  <2>4. mem' = Image(i + 1)
    BY <2>2, <2>3, Zenon DEF Image
  <2>5. i' = i + 1 /\ i' \in 0 .. Len(file.phs) /\ at' = "segments" /\ pc' = pc
    BY <1>2, <2>1 DEF Segment
  <2> QED
    BY <1>f, <2>1, <2>4, <2>5 DEF Placed, StartsAsLinked
<1>3. CASE SegmentsDone
  <2>1. i = Len(file.phs) /\ mem' = Image(i) /\ pc' = file.entry /\ at' = "sections"
    BY <1>0, <1>3 DEF SegmentsDone, Placed
  <2> QED
    BY <1>f, <2>1 DEF Placed, StartsAsLinked
<1>4. CASE ReadSection \/ SectionsDone \/ Mailbox
  BY <1>0, <1>4, <1>f DEF ReadSection, SectionsDone, Mailbox, Placed, StartsAsLinked
<1>5. CASE WriteRom
  <2>1. mem = Image(Len(file.phs)) /\ pc = file.entry
    BY <1>0, <1>5 DEF WriteRom, Placed
  <2>2. mem' = [a \in Addr |-> IF a \in Rom THEN RomByte(file.entry, a - Page)
                               ELSE Image(Len(file.phs))[a]]
    BY <1>5, <2>1 DEF WriteRom
  <2>3. \A a \in Addr : mem'[a] = IF a \in Rom THEN RomByte(file.entry, a - Page)
                                  ELSE ImageByte(Len(file.phs), a)
    BY <2>2, Zenon DEF Image
  <2>4. \A a \in Addr : ImageByte(Len(file.phs), a)' = ImageByte(Len(file.phs), a)
    BY <1>f DEF ImageByte, Written, Loadable, Covered, Zeroed, Copied,
    FileByte
  <2>5. at' = "loaded" /\ pc' = Page
    BY <1>5 DEF WriteRom
  <2>6. StartsAsLinked'
    <3>1. \A e, k : RomByte(e, k)' = RomByte(e, k)
      BY DEF RomByte, EntryByte, RomCode
    <3>2. \A a \in Addr : mem'[a] = IF a \in Rom THEN RomByte(file.entry, a - Page)'
                                    ELSE ImageByte(Len(file.phs), a)'
      BY <1>f, <2>3, <2>4, <3>1
    <3> QED
      BY <2>5, <3>2 DEF StartsAsLinked
  <2> QED
    BY <2>5, <2>6 DEF Placed
<1>6. CASE Open \/ Map \/ CheckElf \/ CheckOrder \/ CheckTarget
  BY <1>0, <1>6, <1>f DEF Open, Map, CheckElf, CheckOrder, CheckTarget, Placed, StartsAsLinked
<1>7. CASE SegmentFault \/ SectionFault \/ HostFault \/ NoMailbox \/ RomFault
  BY <1>0, <1>7, <1>f DEF SegmentFault, SectionFault, HostFault, NoMailbox, RomFault,
     Placed, StartsAsLinked
<1>8. CASE UNCHANGED vars
  <2>1. \A a \in Addr : ImageByte(Len(file.phs), a)' = ImageByte(Len(file.phs), a)
    BY <1>f DEF ImageByte, Written, Loadable, Covered, Zeroed, Copied,
    FileByte
  <2>2. StartsAsLinked'
    <3>1. \A e, k : RomByte(e, k)' = RomByte(e, k)
      BY DEF RomByte, EntryByte, RomCode
    <3>2. at' = at /\ mem' = mem /\ pc' = pc
      BY <1>8 DEF vars
    <3>3. ASSUME at = "loaded"
          PROVE  \A a \in Addr : mem'[a] = IF a \in Rom THEN RomByte(file.entry, a - Page)'
                                           ELSE ImageByte(Len(file.phs), a)'
      <4>1. \A a \in Addr : mem[a] = IF a \in Rom THEN RomByte(file.entry, a - Page)
                                     ELSE ImageByte(Len(file.phs), a)
        BY <1>0, <3>3 DEF StartsAsLinked
      <4> QED
        BY <1>f, <2>1, <3>1, <3>2, <4>1
    <3> QED
      BY <1>0, <3>2, <3>3 DEF StartsAsLinked
  <2> QED
    BY <1>0, <1>8, <1>f, <2>2 DEF vars, Placed
<1> QED
  BY <1>1, <1>2, <1>3, <1>4, <1>5, <1>6, <1>7, <1>8 DEF Next

LEMMA ShieldedNext ==
  ASSUME IInv, [Next]_vars
  PROVE  Shielded'
<1> USE DEF Goto, Tables, Globals, Before, Finding
<1>0. file \in Files /\ TypeOK /\ Shielded
  BY DEF IInv
<1>f. file' = file
  BY SameFile
<1>p. /\ \A n : ProtectedBy(n)' = ProtectedBy(n)
      /\ prot' = prot => \A n : Guarded(n)' <=> Guarded(n)
  BY <1>f DEF ProtectedBy, Protected, Section, HeaderInFile, NoSection, Rounded, Guarded, Addr
<1>1. CASE SegmentsDone
  <2>1. ProtectedBy(0) = {}
    BY DEF ProtectedBy
  <2>2. file.shs \in Seq(Sections)
    BY <1>0, FileFields
  <2>3. at' = "sections" /\ i' = 0 /\ prot' = {} /\ (i \in 0 .. Len(file.shs))'
    BY <1>0, <1>1, <1>f, <2>2 DEF SegmentsDone, Shielded
  <2>4. ProtectedBy(i)' = ProtectedBy(i')
    BY <1>f DEF ProtectedBy, Protected, Section, HeaderInFile, NoSection, Rounded
  <2>5. Guarded(i)'
    BY <2>1, <2>3, <2>4 DEF Guarded
  <2>6. (at \notin Before \cup {"segments"} /\ at \notin Finding)'
    BY <2>3
  <2> HIDE DEF Before, Finding
  <2> QED
    BY <2>3, <2>5, <2>6, Zenon DEF Shielded
<1>2. CASE ReadSection
  <2>1. i \in Nat /\ i < Len(file.shs) /\ Guarded(i) /\ Len(file.shs) \in Nat
    BY <1>0, <1>2, FileFields DEF ReadSection, Shielded, TypeOK
  <2>2. 0 .. (i + 1) - 1 = (0 .. i - 1) \cup {i}
    BY <2>1
  <2>3. ProtectedBy(i + 1) = ProtectedBy(i) \cup Protected(Section(i))
    BY <2>2 DEF ProtectedBy
  <2>4. i' = i + 1 /\ i' \in 0 .. Len(file.shs) /\ at' = "sections"
    BY <1>2, <2>1 DEF ReadSection
  <2>5. (i \in 0 .. Len(file.shs))'
    BY <1>f, <2>4
  <2>6. ProtectedBy(i)' = ProtectedBy(i')
    BY <1>f DEF ProtectedBy, Protected, Section, HeaderInFile, NoSection, Rounded
  <2>7. Guarded(i)'
    <3>1. PICK end \in Ends : prot' = prot \cup {a \in Protected(Section(i)) : a < end}
      BY <1>2 DEF ReadSection
    <3>2. \A a \in Addr : a < end
      BY Sizes DEF Addr
    <3>3. prot' \subseteq ProtectedBy(i + 1) /\ ProtectedBy(i + 1) \cap Addr \subseteq prot'
      BY <2>1, <2>3, <3>1, <3>2 DEF Guarded
    <3> QED
      BY <2>4, <2>6, <3>3 DEF Guarded, Addr
  <2>8. (at \notin Before \cup {"segments"} /\ at \notin Finding)'
    BY <2>4
  <2> HIDE DEF Before, Finding
  <2> QED
    BY <2>5, <2>7, <2>8, Zenon DEF Shielded
<1>3. CASE SectionsDone \/ Mailbox \/ WriteRom
  BY <1>0, <1>3, <1>f, <1>p DEF SectionsDone, Mailbox, WriteRom, Shielded
<1>4. CASE Accept \/ Segment
  BY <1>0, <1>4, <1>f DEF Accept, Segment, Shielded
<1>6. CASE Open \/ Map \/ CheckElf \/ CheckOrder \/ CheckTarget
  BY <1>0, <1>6, <1>f DEF Open, Map, CheckElf, CheckOrder, CheckTarget, Shielded
<1>7. CASE SegmentFault \/ SectionFault \/ HostFault \/ NoMailbox \/ RomFault
  BY <1>0, <1>7, <1>f DEF SegmentFault, SectionFault, HostFault, NoMailbox, RomFault, Shielded
<1>8. CASE UNCHANGED vars
  BY <1>0, <1>8, <1>f, <1>p DEF vars, Shielded
<1> QED
  BY <1>1, <1>2, <1>3, <1>4, <1>6, <1>7, <1>8 DEF Next

LEMMA ListedNext ==
  ASSUME IInv, [Next]_vars
  PROVE  Listed'
<1> USE DEF Goto, Tables, Globals, Before
<1>0. file \in Files /\ TypeOK /\ Listed
  BY DEF IInv
<1>f. file' = file
  BY SameFile
<1>p. \A n : Symbols(n)' = Symbols(n) /\ HeaderInFile(n)' = HeaderInFile(n)
  BY <1>f DEF Symbols, Entered, Section, HeaderInFile, NoSection
<1>1. CASE ReadSection
  <2>1. i \in Nat /\ i < Len(file.shs) /\ Len(file.shs) \in Nat
    BY <1>0, <1>1, FileFields DEF ReadSection, TypeOK
  <2>2. CASE Named(Section(i), ".symtab")
    <3>1. HeaderInFile(i)
      BY <2>2, NamedInFile
    <3> QED
      BY <1>0, <1>1, <1>f, <1>p, <2>1, <2>2, <3>1 DEF ReadSection, Listed
  <2>3. CASE ~Named(Section(i), ".symtab")
    BY <1>0, <1>1, <1>f, <1>p, <2>3 DEF ReadSection, Listed
  <2> QED
    BY <2>2, <2>3
<1>2. CASE SectionsDone
  BY <1>0, <1>2, <1>f, <1>p DEF SectionsDone, Listed, Symbols, HeaderInFile
<1>3. CASE Mailbox
  BY <1>0, <1>3, <1>f, <1>p DEF Mailbox, Listed
<1>4. CASE WriteRom
  BY <1>0, <1>4, <1>f, <1>p DEF WriteRom, Listed
<1>5. CASE Accept \/ Segment \/ SegmentsDone
  BY <1>0, <1>5, <1>f, <1>p DEF Accept, Segment, SegmentsDone, Listed
<1>6. CASE Open \/ Map \/ CheckElf \/ CheckOrder \/ CheckTarget
  BY <1>0, <1>6, <1>f, <1>p DEF Open, Map, CheckElf, CheckOrder, CheckTarget, Listed
<1>7. CASE SegmentFault \/ SectionFault \/ HostFault \/ NoMailbox \/ RomFault
  BY <1>0, <1>7, <1>f, <1>p DEF SegmentFault, SectionFault, HostFault, NoMailbox, RomFault, Listed
<1>8. CASE UNCHANGED vars
  BY <1>0, <1>8, <1>f, <1>p DEF vars, Listed
<1> QED
  BY <1>1, <1>2, <1>3, <1>4, <1>5, <1>6, <1>7, <1>8 DEF Next

\* The inductive invariant of load_elf holds whatever the file.
THEOREM LoadInvariance == Spec => []IInv
<1>1. IInv /\ [Next]_vars => IInv'
  BY TypeNext, PlacedNext, ShieldedNext, ListedNext, Zenon DEF IInv
<1> QED
  BY InitInv, <1>1, PTL DEF Spec

\* Whatever the file, memory, protection and mailbox keep their types.
THEOREM LoadTypes == Spec => []TypeOK
<1>1. IInv => TypeOK
  BY DEF IInv
<1> QED
  BY <1>1, LoadInvariance, PTL

\* The image a guest starts with is the file's segments, the last one on top,
\* zeroes, and the boot ROM with the entry point, for every list of segments.
THEOREM LinkedStart == Spec => []StartsAsLinked
<1>1. IInv => StartsAsLinked
  BY DEF IInv
<1> QED
  BY <1>1, LoadInvariance, PTL

-----------------------------------------------------------------------------
(* What is write-protected.                                                *)

\* The page of an address: a multiple of the page size, and less than one more.
LEMMA PageOf ==
  ASSUME NEW h \in Nat \ {0}, NEW x \in Int
  PROVE  /\ x \div h \in Int
         /\ h * (x \div h) <= x
         /\ x < h * (x \div h) + h
  OBVIOUS

LEMMA Multiples ==
  ASSUME NEW h \in Nat \ {0}, NEW x \in Int, NEW y \in Int
  PROVE  /\ x <= y => h * x <= h * y
         /\ h * (x + y) = h * x + h * y
         /\ h * (x + 1) = h * x + h
         /\ h * x \in Int /\ h * y \in Int
  OBVIOUS

\* An address in a run of whole pages that starts with a page: so is its page.
LEMMA WholePages ==
  ASSUME NEW h \in Nat \ {0}, NEW q \in Int, NEW r \in Int,
         NEW a \in Int, h * q <= a, a < h * (q + r)
  PROVE  h * q <= h * (a \div h) /\ h * (a \div h) + h <= h * (q + r)
<1> DEFINE x == a \div h
<1>1. x \in Int /\ h * x <= a /\ a < h * x + h
  BY PageOf
<1> HIDE DEF x
<1>2. q <= x
  <2>1. ~(x + 1 <= q)
    <3> SUFFICES ASSUME x + 1 <= q PROVE FALSE
      OBVIOUS
    <3>1. h * (x + 1) <= h * q /\ h * (x + 1) = h * x + h
      BY <1>1, Multiples
    <3>2. h * q \in Int /\ h * x \in Int
      BY <1>1, Multiples
    <3> QED
      BY <1>1, <3>1, <3>2
  <2> QED
    BY <1>1, <2>1
<1>3. x + 1 <= q + r
  <2>1. ~(q + r <= x)
    <3> SUFFICES ASSUME q + r <= x PROVE FALSE
      OBVIOUS
    <3>1. h * (q + r) <= h * x /\ h * (q + r) \in Int /\ h * x \in Int
      BY <1>1, Multiples
    <3> QED
      BY <1>1, <3>1
  <2> QED
    BY <1>1, <2>1
<1>4. h * q <= h * x /\ h * q \in Int /\ h * x \in Int
  BY <1>1, <1>2, Multiples
<1>5. h * (x + 1) <= h * (q + r) /\ h * (x + 1) = h * x + h /\ h * (q + r) \in Int
  BY <1>1, <1>3, Multiples
<1> QED
  BY <1>4, <1>5 DEF x

\* A multiple of the page size, as a product.
LEMMA Multiple ==
  ASSUME NEW h \in Nat \ {0}, NEW x \in Int, x % h = 0
  PROVE  x \div h \in Int /\ x = h * (x \div h)
  OBVIOUS

LEMMA SectionFields ==
  ASSUME file \in Files, NEW n \in 0 .. Len(file.shs) - 1
  PROVE  Section(n).addr \in Int /\ Section(n).size \in Int
<1>1. Section(n) \in Sections
  BY FileFields, SectionType
<1> QED
  BY <1>1, Addresses DEF Sections

\* What a section has mprotect protect are pages that belong to it as a whole.
LEMMA ProtectedWhole ==
  ASSUME file \in Files, NEW n \in 0 .. Len(file.shs) - 1, NEW a \in Protected(Section(n))
  PROVE  Executable(Section(n)) /\ a \in Extent(n) /\ Whole(a) \subseteq Extent(n)
<1> DEFINE h == HostPage
           q == Section(n).addr \div h
           r == Section(n).size \div h
<1>0. h \in Nat \ {0}
  BY Sizes DEF RomLen
<1>1. /\ Executable(Section(n)) /\ Section(n).addr % h = 0
      /\ a \in Section(n).addr .. Section(n).addr + Rounded(Section(n).size) - 1
  BY DEF Protected
<1>2. Section(n).addr \in Int /\ Section(n).size \in Int
  BY SectionFields
<1>3. q \in Int /\ Section(n).addr = h * q
  BY <1>0, <1>1, <1>2, Multiple
<1>4. r \in Int /\ h * r <= Section(n).size /\ h * r \in Int
  BY <1>0, <1>2, PageOf, Multiples
<1>5. Rounded(Section(n).size) = h * r
  BY <1>0, <1>4 DEF Rounded
<1> HIDE DEF q, r, h
<1>6. h * (q + r) = h * q + h * r /\ h * q \in Int
  BY <1>0, <1>3, <1>4, Multiples
<1>7. a \in Int /\ h * q <= a /\ a < h * (q + r)
  BY <1>1, <1>3, <1>4, <1>5, <1>6
<1>8. h * q <= h * (a \div h) /\ h * (a \div h) + h <= h * (q + r)
  BY <1>0, <1>3, <1>4, <1>7, WholePages
<1>9. a \in Extent(n)
  BY <1>2, <1>3, <1>4, <1>6, <1>7 DEF Extent
<1>10. ASSUME NEW b \in Whole(a) PROVE b \in Extent(n)
  <2> DEFINE w == h * (a \div h)
  <2>1. w \in Int /\ h * q <= w /\ w + h <= h * q + h * r
    BY <1>0, <1>6, <1>7, <1>8, PageOf, Multiples
  <2>2. b \in Int /\ w <= b /\ b <= w + h - 1
    BY <1>0, <2>1 DEF Whole, h
  <2> HIDE DEF w
  <2> QED
    BY <1>0, <1>2, <1>3, <1>4, <1>6, <2>1, <2>2 DEF Extent
<1> QED
  BY <1>1, <1>9, <1>10

\* The whole pages of an aligned section are what it has mprotect protect.
LEMMA WholeProtected ==
  ASSUME file \in Files, HostPage = Page, NEW n \in 0 .. Len(file.shs) - 1,
         Executable(Section(n)), Section(n).addr % Page = 0,
         NEW a \in Extent(n), Whole(a) \subseteq Extent(n)
  PROVE  a \in Protected(Section(n))
<1> DEFINE h == HostPage
           q == Section(n).addr \div h
           r == Section(n).size \div h
           x == a \div h
<1>0. h \in Nat \ {0}
  BY Sizes DEF RomLen
<1>1. /\ Section(n).addr \in Int /\ Section(n).size \in Int
      /\ a \in Int /\ Section(n).addr <= a
  BY SectionFields DEF Extent
<1>2. q \in Int /\ Section(n).addr = h * q
  BY <1>0, <1>1, Multiple
<1>3. r \in Int /\ Section(n).size < h * r + h /\ h * r \in Int
  BY <1>0, <1>1, PageOf, Multiples
<1>4. Rounded(Section(n).size) = h * r
  BY <1>0, <1>3 DEF Rounded
<1>5. x \in Int /\ a < h * x + h /\ h * x \in Int
  BY <1>0, <1>1, PageOf, Multiples
<1>6. h * x + h - 1 \in Whole(a)
  BY <1>0, <1>5 DEF Whole
<1> HIDE DEF q, r, x, h
<1>7. h * (q + r) = h * q + h * r /\ h * q \in Int
  BY <1>0, <1>2, <1>3, Multiples
<1>8. h * x + h - 1 <= Section(n).addr + Section(n).size - 1
  BY <1>6 DEF Extent
<1>9. ~(q + r <= x)
  <2> SUFFICES ASSUME q + r <= x PROVE FALSE
    OBVIOUS
  <2>1. h * (q + r) <= h * x
    BY <1>0, <1>2, <1>3, <1>5, Multiples
  <2> QED
    BY <1>0, <1>1, <1>2, <1>3, <1>5, <1>7, <1>8, <2>1
<1>10. h * x + h <= h * (q + r)
  <2>1. x + 1 <= q + r
    BY <1>2, <1>3, <1>5, <1>9
  <2>2. h * (x + 1) <= h * (q + r) /\ h * (x + 1) = h * x + h
    BY <1>0, <1>2, <1>3, <1>5, <2>1, Multiples
  <2> QED
    BY <2>2
<1>11. a \in Section(n).addr .. Section(n).addr + Rounded(Section(n).size) - 1
  BY <1>0, <1>1, <1>2, <1>3, <1>4, <1>5, <1>7, <1>10
<1> QED
  BY <1>11 DEF Protected

LEMMA ProtectsTextFollows == IInv => ProtectsText
<1> SUFFICES ASSUME IInv, at = "loaded" PROVE ProtectsText
  BY DEF ProtectsText
<1> DEFINE text == {n \in 0 .. Len(file.shs) - 1 : Executable(Section(n))}
<1>0. file \in Files /\ Guarded(Len(file.shs))
  BY DEF IInv, Shielded, Finding
<1>1. ASSUME NEW a \in prot PROVE \E n \in text : Whole(a) \subseteq Extent(n)
  <2>1. PICK n \in 0 .. Len(file.shs) - 1 : a \in Protected(Section(n))
    BY <1>0, <1>1 DEF Guarded, ProtectedBy
  <2> QED
    BY <1>0, <2>1, ProtectedWhole
<1>2. ASSUME HostPage = Page, NEW n \in text, Section(n).addr % Page = 0,
             NEW a \in Extent(n) \cap Addr, Whole(a) \subseteq Extent(n)
      PROVE  a \in prot
  <2>1. a \in Protected(Section(n))
    BY <1>0, <1>2, WholeProtected
  <2> QED
    BY <1>0, <2>1 DEF Guarded, ProtectedBy
<1> QED
  BY <1>1, <1>2, Zenon DEF ProtectsText

\* A protected byte's whole page belongs to an executable section, and (with
\* pages of the size load_elf assumes) whole pages of text are protected.
THEOREM TextProtection == Spec => []ProtectsText
  BY ProtectsTextFollows, LoadInvariance, PTL

\* A file's deadly parts do not change.
LEMMA DeadlyStays ==
  ASSUME file' = file
  PROVE  Deadly' <=> Deadly
BY DEF Deadly, Loadable, Inside, Sized, Written, Zeroed, Copied, Addr, Rom, HeaderInFile,
   Executable, Section, NoSection, Extent, Whole

\* What is protected when the boot ROM is written, or behind the mapping before, is
\* text of the file.
LEMMA FaultsForCauseNext ==
  ASSUME IInv, FaultsForCause, [Next]_vars
  PROVE  FaultsForCause'
<1> USE DEF Goto, Finding
<1>0. file \in Files /\ Shielded /\ TypeOK
  BY DEF IInv
<1>1. file' = file /\ (Deadly' <=> Deadly)
  BY SameFile, DeadlyStays
<1> SUFFICES ASSUME at' = "faulted" PROVE Deadly
  BY <1>1 DEF FaultsForCause
<1>2. ASSUME NEW m \in 0 .. Len(file.shs), NEW a \in ProtectedBy(m)
      PROVE  \E n \in 0 .. Len(file.shs) - 1 :
               Executable(Section(n)) /\ a \in Extent(n) /\ Whole(a) \subseteq Extent(n)
  <2>1. PICK n \in 0 .. m - 1 : a \in Protected(Section(n))
    BY DEF ProtectedBy
  <2>2. n \in 0 .. Len(file.shs) - 1
    BY <1>0, <2>1, FileFields
  <2> QED
    BY <1>0, <2>1, <2>2, ProtectedWhole
<1>3. Len(file.shs) \in 0 .. Len(file.shs)
  BY <1>0, FileFields
<1>4. CASE Map
  BY <1>4 DEF Map, Deadly
<1>5. CASE SegmentFault
  <2>1. i + 1 \in 1 .. Len(file.phs)
    BY <1>0, <1>5, FileFields DEF SegmentFault, TypeOK
  <2> QED
    BY <1>5, <2>1 DEF SegmentFault, Deadly
<1>6. CASE SectionFault
  <2>1. i \in 0 .. Len(file.shs) - 1
    BY <1>0, <1>6, FileFields DEF SectionFault, TypeOK
  <2> QED
    BY <1>6, <2>1 DEF SectionFault, Deadly
<1>7. CASE HostFault
  <2>1. PICK a \in prot : a \notin Addr
    BY <1>7 DEF HostFault
  <2>2. \E m \in 0 .. Len(file.shs) : a \in ProtectedBy(m)
    BY <1>0, <1>3, <1>7, <2>1 DEF HostFault, Shielded, Guarded
  <2> QED
    BY <1>2, <2>1, <2>2 DEF Deadly
<1>8. CASE RomFault
  <2>1. PICK a \in Rom : a \in prot
    BY <1>8 DEF RomFault
  <2>2. a \in ProtectedBy(Len(file.shs))
    BY <1>0, <1>8, <2>1 DEF RomFault, Shielded, Guarded
  <2> QED
    BY <1>2, <1>3, <2>1, <2>2 DEF Deadly
<1>9. CASE UNCHANGED vars
  BY <1>9 DEF vars, FaultsForCause
<1>10. CASE Open \/ CheckElf \/ CheckOrder \/ CheckTarget \/ Accept \/ Segment \/ SegmentsDone
  BY <1>10 DEF Open, CheckElf, CheckOrder, CheckTarget, Accept, Segment, SegmentsDone
<1>11. CASE ReadSection \/ SectionsDone \/ Mailbox \/ NoMailbox \/ WriteRom
  BY <1>11 DEF ReadSection, SectionsDone, Mailbox, NoMailbox, WriteRom
<1> QED
  BY <1>4, <1>5, <1>6, <1>7, <1>8, <1>9, <1>10, <1>11 DEF Next

\* No file is lost to a signal but for what is deadly in it: whole pages are
\* protected and no others, so text beside the boot ROM does not stop it.
THEOREM FaultsExplained == Spec => []FaultsForCause
<1>1. Init => FaultsForCause
  BY DEF Init, FaultsForCause
<1> QED
  BY <1>1, FaultsForCauseNext, LoadInvariance, PTL DEF Spec

-----------------------------------------------------------------------------
(* The mailbox.                                                            *)

\* Where a loaded machine has its mailbox from.
LEMMA MailboxTable ==
  ASSUME IInv, at = "loaded"
  PROVE  /\ symtabidx \in 1 .. Len(file.shs) - 1 /\ HeaderInFile(symtabidx)
         /\ \A name \in {"tohost", "fromhost"} :
              \E m \in DOMAIN Section(symtabidx).syms :
                /\ IsSymbol(Section(symtabidx).syms[m], name,
                            IF name = "tohost" THEN tohost_addr ELSE fromhost_addr)
                /\ \A s \in DOMAIN Section(symtabidx).syms :
                     Section(symtabidx).syms[s].name = name => s <= m
<1>1. /\ file \in Files /\ {"tohost", "fromhost"} \subseteq DOMAIN symtab
      /\ tohost_addr = symtab["tohost"] /\ fromhost_addr = symtab["fromhost"]
  BY DEF IInv, Listed
<1>2. /\ symtabidx \in 1 .. Len(file.shs) - 1 /\ HeaderInFile(symtabidx)
      /\ symtab = Entered(Section(symtabidx).syms)
  BY <1>1 DEF IInv, Listed, Symbols
<1>3. Section(symtabidx) \in Sections
  BY <1>1, <1>2, SectionType, FileFields
<1>4. Section(symtabidx).syms \in Seq(Syms)
  BY <1>3 DEF Sections
<1> QED
  BY <1>1, <1>2, <1>4, EnteredSymbol

LEMMA MailboxNamedFollows == IInv => MailboxNamed
<1> SUFFICES ASSUME IInv, at = "loaded" PROVE MailboxNamed
  BY DEF MailboxNamed
<1>1. \E s \in DOMAIN Section(symtabidx).syms :
        IsSymbol(Section(symtabidx).syms[s], "tohost", tohost_addr)
  BY MailboxTable
<1>2. \E t \in DOMAIN Section(symtabidx).syms :
        IsSymbol(Section(symtabidx).syms[t], "fromhost", fromhost_addr)
  BY MailboxTable
<1> QED
  BY MailboxTable, <1>1, <1>2, Zenon DEF MailboxNamed

\* A machine whose mailbox the file does not name is never started.
THEOREM MailboxFound == Spec => []MailboxNamed
  BY MailboxNamedFollows, LoadInvariance, PTL

LEMMA MailboxIsGlobalFollows == IInv => MailboxIsGlobal
<1> DEFINE syms   == Section(symtabidx).syms
           Global == {s \in DOMAIN syms : syms[s].bind # STB.local}
<1> SUFFICES ASSUME IInv, at = "loaded", LocalsFirst(syms),
                    NEW name \in {"tohost", "fromhost"}, NEW g \in Global,
                    syms[g].name = name
             PROVE  \E s \in Global :
                      IsSymbol(syms[s], name,
                               IF name = "tohost" THEN tohost_addr ELSE fromhost_addr)
  BY Zenon DEF MailboxIsGlobal
<1>1. PICK m \in DOMAIN syms :
        /\ IsSymbol(syms[m], name, IF name = "tohost" THEN tohost_addr ELSE fromhost_addr)
        /\ \A s \in DOMAIN syms : syms[s].name = name => s <= m
  BY MailboxTable
<1>2. g \in DOMAIN syms /\ g <= m
  BY <1>1
<1>3. syms \in Seq(Syms)
  <2>1. file \in Files /\ symtabidx \in 1 .. Len(file.shs) - 1
    BY MailboxTable DEF IInv
  <2>2. Section(symtabidx) \in Sections
    BY <2>1, SectionType, FileFields
  <2> QED
    BY <2>2 DEF Sections
<1>4. DOMAIN syms \subseteq Int
  BY <1>3
<1>5. CASE g = m
  BY <1>1, <1>5
<1>6. CASE g < m
  <2>1. syms[m].bind # STB.local
    BY <1>2, <1>6 DEF LocalsFirst
  <2> QED
    BY <1>1, <2>1
<1> QED
  BY <1>2, <1>4, <1>5, <1>6

\* In every table that has its local symbols first, as linkers write it, the
\* mailbox is at the global symbols, whatever local ones have their names.
THEOREM MailboxGlobal == Spec => []MailboxIsGlobal
  BY MailboxIsGlobalFollows, LoadInvariance, PTL

-----------------------------------------------------------------------------
(* A mailbox that is there is found.                                       *)

Sought(n, k) ==
  /\ at \in Before \cup {"segments"} => strtabidx = 0 /\ symtabidx = 0
  /\ at = "sections" => /\ symtabidx = IF i > n THEN n ELSE 0
                        /\ strtabidx = IF i > k THEN k ELSE 0
  /\ at = "mailbox" => {"tohost", "fromhost"} \subseteq DOMAIN symtab
  /\ at = "aborted" => ~LittleEndian

\* In a file with the two tables they are found when their turn comes, and no
\* other section is taken for one of them.
Found == \A n, k \in 1 .. Len(file.shs) - 1 : Tabled(n, k) => Sought(n, k)

\* If the last header is in the file, so are those before it.
LEMMA EarlierHeaders ==
  ASSUME file \in Files, NEW o \in 0 .. Len(file.shs) - 1, HeaderInFile(Len(file.shs) - 1)
  PROVE  HeaderInFile(o)
<1>0. file.data \in Seq(Byte) /\ file.shoff \in Nat /\ file.shs \in Seq(Sections)
  BY FileFields
<1>1. /\ Len(file.shs) \in Nat /\ Len(file.data) \in Nat /\ file.shoff \in Nat
      /\ ShSize \in Nat
  <2>1. ShSize \in Nat
    BY Sizes, Zenon
  <2>2. Len(file.shs) \in Nat /\ Len(file.data) \in Nat
    BY <1>0
  <2> QED
    BY <1>0, <2>1, <2>2
<1>2. \A a, b \in Nat : a <= b => a * ShSize <= b * ShSize
  BY <1>1
<1>3. (o + 1) * ShSize <= Len(file.shs) * ShSize
  BY <1>1, <1>2
<1>4. (o + 1) * ShSize \in Int /\ Len(file.shs) * ShSize \in Int
  BY <1>1
<1>5. file.shoff + Len(file.shs) * ShSize <= Len(file.data)
  BY <1>1 DEF HeaderInFile
<1> QED
  BY <1>1, <1>3, <1>4, <1>5 DEF HeaderInFile

\* Which sections have the names that are looked for.
LEMMA TableNames ==
  ASSUME file \in Files, NEW n \in 1 .. Len(file.shs) - 1, NEW k \in 1 .. Len(file.shs) - 1,
         Tabled(n, k), NEW o \in 0 .. Len(file.shs) - 1
  PROVE  /\ Section(o) = file.shs[o + 1]
         /\ Named(Section(o), ".symtab") <=> o = n
         /\ Named(Section(o), ".strtab") <=> o = k
<1>1. HeaderInFile(o)
  BY EarlierHeaders DEF Tabled
<1>2. Section(o) = file.shs[o + 1]
  BY <1>1 DEF Section
<1>3. CASE o = n
  BY <1>2, <1>3, SMT DEF Tabled, Named, Skipped, SHT
<1>4. CASE o = k
  BY <1>2, <1>4, SMT DEF Tabled, Named, Skipped, SHT
<1>5. CASE o \notin {n, k}
  BY <1>2, <1>5 DEF Tabled, Named
<1> QED
  BY <1>2, <1>3, <1>4, <1>5

LEMMA FoundNext ==
  ASSUME IInv, Found, [Next]_vars
  PROVE  Found'
<1> USE DEF Goto, Tables, Globals, Before
<1>0. file \in Files /\ TypeOK
  BY DEF IInv
<1>f. file' = file
  BY SameFile
<1>p. /\ \A n, k : Tabled(n, k)' <=> Tabled(n, k)
      /\ LittleEndian' <=> LittleEndian
  BY <1>f DEF Tabled, HeaderInFile, LittleEndian
<1> SUFFICES ASSUME NEW n \in 1 .. Len(file.shs) - 1, NEW k \in 1 .. Len(file.shs) - 1,
                    Tabled(n, k)
             PROVE  Sought(n, k)'
  BY <1>f, <1>p DEF Found
<1>s. Sought(n, k)
  BY DEF Found
<1>n. n \in Nat \ {0} /\ k \in Nat \ {0} /\ i \in Nat
  BY <1>0 DEF TypeOK
<1>1. CASE ReadSection
  <2>1. i \in 0 .. Len(file.shs) - 1 /\ Len(file.shs) \in Nat
    BY <1>0, <1>1, <1>n, FileFields DEF ReadSection
  <2>2. /\ Named(Section(i), ".symtab") <=> i = n
        /\ Named(Section(i), ".strtab") <=> i = k
    BY <1>0, <2>1, TableNames
  <2>3. /\ symtabidx' = IF i = n THEN i ELSE symtabidx
        /\ strtabidx' = IF i = k THEN i ELSE strtabidx
        /\ i' = i + 1
    BY <1>1, <2>2, Zenon DEF ReadSection
  <2>4. /\ symtabidx = IF i > n THEN n ELSE 0
        /\ strtabidx = IF i > k THEN k ELSE 0
    BY <1>1, <1>s, Zenon DEF ReadSection, Sought
  <2>5. /\ symtabidx' = IF i' > n THEN n ELSE 0
        /\ strtabidx' = IF i' > k THEN k ELSE 0
    BY <1>n, <2>3, <2>4
  <2> QED
    BY <1>1, <2>5 DEF ReadSection, Sought
<1>2. CASE SectionsDone
  <2>1. Len(file.shs) \in Nat /\ n < Len(file.shs) /\ k < Len(file.shs)
    BY <1>0, <1>n, FileFields
  <2>2. symtabidx = n /\ strtabidx = k
    BY <1>2, <1>n, <1>s, <2>1 DEF SectionsDone, Sought
  <2>3. symtab' = Entered(file.shs[n + 1].syms)
    <3>1. n \in 0 .. Len(file.shs) - 1
      BY <1>n, <2>1
    <3>2. Section(n) = file.shs[n + 1]
      BY <1>0, <3>1, TableNames
    <3> QED
      BY <1>2, <1>n, <2>2, <3>2 DEF SectionsDone
  <2>4. {"tohost", "fromhost"} \subseteq DOMAIN symtab'
    BY <2>3 DEF Entered, Tabled
  <2> QED
    BY <1>2, <2>4 DEF SectionsDone, Sought
<1>3. CASE Mailbox \/ WriteRom
  BY <1>3 DEF Mailbox, WriteRom, Sought
<1>4. CASE Accept \/ Segment
  BY <1>4, <1>s DEF Accept, Segment, Sought
<1>5. CASE SegmentsDone
  BY <1>5, <1>n, <1>s DEF SegmentsDone, Sought
<1>6. CASE Open \/ Map \/ CheckElf \/ CheckOrder \/ CheckTarget
  BY <1>6, <1>s, <1>p DEF Open, Map, CheckElf, CheckOrder, CheckTarget, Sought
<1>7. CASE SegmentFault \/ SectionFault \/ HostFault \/ RomFault
  BY <1>7 DEF SegmentFault, SectionFault, HostFault, RomFault, Sought
<1>8. CASE NoMailbox
  BY <1>8, <1>s DEF NoMailbox, Sought
<1>9. CASE UNCHANGED vars
  BY <1>9, <1>s, <1>p DEF vars, Sought
<1> QED
  BY <1>1, <1>2, <1>3, <1>4, <1>5, <1>6, <1>7, <1>8, <1>9 DEF Next

\* A program that has a mailbox is not refused for want of one, whatever other
\* sections its file has, of whatever types.
THEOREM MailboxFoundWherever == Spec => []MailboxNotMissed
<1>1. Init => Found
  BY DEF Init, Found, Sought, Before
<1>2. Found => MailboxNotMissed
  BY DEF Found, Sought, MailboxNotMissed, NamesMailbox
<1>3. IInv /\ Found /\ [Next]_vars => Found'
  BY FoundNext
<1> QED
  BY <1>1, <1>2, <1>3, LoadInvariance, PTL DEF Spec
=============================================================================
