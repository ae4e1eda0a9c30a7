------------------------------ MODULE LoadElf ------------------------------
(***************************************************************************)
(* load_elf of loadelf.cc: it maps an ELF file, checks its header, copies  *)
(* the loadable segments into the guest's memory, write-protects the whole *)
(* pages of executable sections, takes the two mailbox addresses from the  *)
(* symbol table and writes a boot ROM that jumps to the entry point.       *)
(*                                                                         *)
(* A file is a record: its bytes, and what the headers in them say, read   *)
(* with the types of the code (sizes as int32_t, addresses as uint32_t).   *)
(* Program headers follow the ELF header and are taken to be there, and so *)
(* are the names of the sections; section headers are at the end of a file,*)
(* and a file cut short has lost some, the one it is cut in as a whole.    *)
(***************************************************************************)
EXTENDS Integers, Sequences, FiniteSetsExt

CONSTANTS
  Page,      \* 4096: the alignment load_elf asks for, and where the ROM is
  HostPage,  \* getpagesize(): more than Page on some hosts
  MapSize,   \* 1UL<<32, the size of the mapping
  ShSize,    \* sizeof(Elf32_Shdr)
  Byte,      \* what a byte may hold
  Stray,     \* what is found outside the file
  Ends,      \* where what the host has mapped behind the mapping may end
  Files      \* the files a user may name

Addr   == 0 .. MapSize - 1
RomLen == 28
Rom    == Page .. Page + RomLen - 1

ASSUME Sizes ==
  /\ Page \in Nat /\ HostPage \in Nat /\ MapSize \in Nat /\ ShSize \in Nat
  /\ Page >= RomLen
  /\ HostPage >= Page /\ HostPage % Page = 0
  /\ MapSize >= 2 * Page /\ MapSize % HostPage = 0
  /\ Stray \in Byte
  /\ Ends # {} /\ \A end \in Ends : end \in Nat /\ end >= MapSize /\ end % HostPage = 0
  /\ 0 .. 255 \subseteq Byte

Names == {"tohost", "fromhost", "other"}

Segments ==
  [type : Int, vaddr : Addr, offset : Int, memsz : Int, filesz : Int]

\* osx_elf.h: values of p_type, sh_type, the bits of sh_flags, symbol bindings.
PT ==
  [null |-> 0, load |-> 1, dynamic |-> 2, interp |-> 3, note |-> 4, shlib |-> 5, phdr |-> 6,
   tls |-> 7, gnu_eh_frame |-> 1685382480, gnu_stack |-> 1685382481,
   gnu_relro |-> 1685382482, sunwbss |-> 1879048186, sunwstack |-> 1879048187,
   hios |-> 1879048191, loproc |-> 1879048192, hiproc |-> 2147483647]

SHT ==
  [null |-> 0, progbits |-> 1, symtab |-> 2, strtab |-> 3, rela |-> 4, hash |-> 5, dynamic |-> 6,
   note |-> 7, nobits |-> 8, rel |-> 9, shlib |-> 10, dynsym |-> 11, init_array |-> 14,
   fini_array |-> 15, preinit_array |-> 16, group |-> 17, symtab_shndx |-> 18,
   gnu_attributes |-> 1879048181, gnu_hash |-> 1879048182, gnu_liblist |-> 1879048183,
   checksum |-> 1879048184, sunw_move |-> 1879048186, sunw_comdat |-> 1879048187,
   sunw_syminfo |-> 1879048188, gnu_verdef |-> 1879048189, gnu_verneed |-> 1879048190,
   gnu_versym |-> 1879048191, loproc |-> 1879048192, hiproc |-> 2147483647]

SHF ==
  [write |-> 0, alloc |-> 1, execinstr |-> 2, merge |-> 4, strings |-> 5, info_link |-> 6,
   link_order |-> 7, os_nonconforming |-> 8, group |-> 9, tls |-> 10, ordered |-> 30,
   exclude |-> 31]

STB == [local |-> 0, global |-> 1, weak |-> 2, gnu_unique |-> 10]

Syms == [name : Names, value : Addr, bind : 0 .. 15]

Sections ==
  [name : {".strtab", ".symtab", "other"}, type : Int, flags : SUBSET (0 .. 31),
   addr : Addr, size : Int, syms : Seq(Syms)]

\* The identification, the fields of the ELF header, the tables and the bytes.
Elves ==
  [opens : BOOLEAN, ident : [0 .. 5 -> Nat], machine : Nat,
   entry : Addr, shoff : Nat, phs : Seq(Segments), shs : Seq(Sections),
   data : Seq(Byte)]

ASSUME FileTypes == Files \subseteq Elves

VARIABLES
  file,                   \* the file named by --file
  at,                     \* the control point, or how load_elf has ended
  i,                      \* the index of the loop under way
  mem,                    \* ms->mem
  prot,                   \* what mprotect has made read-only, behind the mapping too
  strtabidx, symtabidx,   \* 0: not found
  symtab,                 \* globals::symtab
  tohost_addr, fromhost_addr, pc

vars == <<file, at, i, mem, prot, strtabidx, symtabidx, symtab,
          tohost_addr, fromhost_addr, pc>>

Tables  == <<strtabidx, symtabidx>>
Globals == <<symtab, tohost_addr, fromhost_addr>>

Ended == {"loaded", "exited", "aborted", "faulted"}

\* initState and the fresh mapping of main.
Init ==
  /\ file \in Files
  /\ at = "open"
  /\ i = 0
  /\ mem = [a \in Addr |-> 0]
  /\ prot = {}
  /\ strtabidx = 0 /\ symtabidx = 0
  /\ symtab = <<>>
  /\ tohost_addr = 0 /\ fromhost_addr = 0
  /\ pc = 0

Goto(point) ==
  /\ at' = point
  /\ UNCHANGED <<file, i, mem, prot, Tables, Globals, pc>>

-----------------------------------------------------------------------------
(* The file and its header.                                                *)

Open == at = "open" /\ Goto(IF file.opens THEN "map" ELSE "exited")

\* An empty file cannot be mapped: MAP_FAILED is not looked at and is read.
Map == at = "map" /\ Goto(IF file.data = <<>> THEN "faulted" ELSE "check")

magicArr    == <<127, 69, 76, 70>>   \* 0x7f, 'E', 'L', 'F'
EI_CLASS    == 4
EI_DATA     == 5
ELFCLASS32  == 1
ELFDATA2LSB == 1
EM_RISCV    == 243

IsElf32 ==
  /\ \A k \in 0 .. 3 : file.ident[k] = magicArr[k + 1]
  /\ file.ident[EI_CLASS] = ELFCLASS32

LittleEndian == file.ident[EI_DATA] = ELFDATA2LSB

CheckElf    == at = "check" /\ ~IsElf32 /\ Goto("exited")
CheckOrder  == at = "check" /\ IsElf32 /\ ~LittleEndian /\ Goto("aborted")
CheckTarget ==
  /\ at = "check" /\ IsElf32 /\ LittleEndian
  /\ file.machine # EM_RISCV
  /\ Goto("exited")

Accept ==
  /\ at = "check" /\ IsElf32 /\ LittleEndian
  /\ file.machine = EM_RISCV
  /\ pc' = file.entry
  /\ at' = "segments"
  /\ UNCHANGED <<file, i, mem, prot, Tables, Globals>>

-----------------------------------------------------------------------------
(* The segments.  p_type is compared with a section type; 1 is PT_LOAD too.*)

FileByte(o) == IF o \in 0 .. Len(file.data) - 1 THEN file.data[o + 1] ELSE Stray

Loadable(ph) == ph.type = SHT.progbits /\ ph.memsz # 0

\* What memset and then memcpy write; p_filesz may be above p_memsz.
Zeroed(ph) == ph.vaddr .. ph.vaddr + ph.memsz - 1
Copied(ph) == ph.vaddr .. ph.vaddr + ph.filesz - 1
Written(ph) == IF Loadable(ph) THEN Zeroed(ph) \cup Copied(ph) ELSE {}

\* memcpy first: the bytes of the file are lost.
SegmentByteCleared(ph, a) ==
  IF a \in Zeroed(ph) THEN 0 ELSE FileByte(ph.offset + a - ph.vaddr)

SegmentByte(ph, a) ==
  IF a \in Copied(ph) THEN FileByte(ph.offset + a - ph.vaddr) ELSE 0

\* A negative size is a huge size_t.
Sized(ph) == ph.memsz >= 0 /\ ph.filesz >= 0

\* Both ends of the copy stay inside what is mapped for them.
Inside(ph) ==
  /\ Sized(ph)
  /\ Written(ph) \subseteq Addr
  /\ ph.offset >= 0
  /\ ph.offset + ph.filesz <= Len(file.data)

Segment ==
  /\ at = "segments"
  /\ i < Len(file.phs)
  /\ LET ph == file.phs[i + 1]
     IN  /\ Loadable(ph) => Sized(ph)
         /\ mem' = [a \in Addr |->
                      IF a \in Written(ph) THEN SegmentByte(ph, a) ELSE mem[a]]
  /\ i' = i + 1
  /\ UNCHANGED <<file, at, prot, Tables, Globals, pc>>

\* Behind the mapping or the file the copy may meet other mappings or none.
SegmentFault ==
  /\ at = "segments"
  /\ i < Len(file.phs)
  /\ Loadable(file.phs[i + 1])
  /\ ~Inside(file.phs[i + 1])
  /\ Goto("faulted")

SegmentsDone ==
  /\ at = "segments"
  /\ i = Len(file.phs)
  /\ at' = "sections"
  /\ i' = 0
  /\ UNCHANGED <<file, mem, prot, Tables, Globals, pc>>

-----------------------------------------------------------------------------
(* The sections.                                                           *)

HeaderInFile(n) == file.shoff + (n + 1) * ShSize <= Len(file.data)

\* Behind the file, but on its last page, a header reads as zeroes.
NoSection ==
  [name |-> "other", type |-> 0, flags |-> {}, addr |-> 0, size |-> 0, syms |-> <<>>]

Section(n) == IF HeaderInFile(n) THEN file.shs[n + 1] ELSE NoSection

Executable(s) == SHF.execinstr \in s.flags

RoundedUp(size) == ((size + HostPage - 1) \div HostPage) * HostPage

Rounded(size) == (size \div HostPage) * HostPage

(***************************************************************************)
(* What mprotect is asked to make read-only, with no bound.  It refuses an *)
(* address that is not at a page of the host and a size below zero; a      *)
(* failure is printed and nothing else.                                    *)
(***************************************************************************)
Protected(s) ==
  IF Executable(s) /\ s.addr % Page = 0 /\ s.addr % HostPage = 0
  THEN s.addr .. s.addr + Rounded(s.size) - 1
  ELSE {}

\* The test the other way round.
SkippedUnless(s) == (s.type \div SHT.nobits) % 2 = 0

\* sh_type & SHT_NOBITS: one bit, which types other than SHT_NOBITS have too.
Skipped(s) == (s.type \div SHT.nobits) % 2 = 1

Named(s, name) == ~Skipped(s) /\ s.name = name

\* mprotect goes on, page by page, to the first one that the host has not mapped.
ReadSection ==
  /\ at = "sections"
  /\ i < Len(file.shs)
  /\ \E end \in Ends : prot' = prot \cup {a \in Protected(Section(i)) : a < end}
  /\ strtabidx' = IF Named(Section(i), ".strtab") THEN i ELSE strtabidx
  /\ symtabidx' = IF Named(Section(i), ".symtab") THEN i ELSE symtabidx
  /\ i' = i + 1
  /\ UNCHANGED <<file, at, mem, Globals, pc>>

SectionFault ==
  /\ at = "sections"
  /\ i < Len(file.shs)
  /\ ~HeaderInFile(i)
  /\ Goto("faulted")

\* The process finds memory of its own read-only, behind the mapping.
HostFault ==
  /\ at \in {"sections", "mailbox", "rom"}
  /\ ~(prot \subseteq Addr)
  /\ Goto("faulted")

\* insert instead of []: the first one of a name stays.
EnteredFirst(syms) ==
  [name \in {syms[n].name : n \in DOMAIN syms} |->
     syms[Min({n \in DOMAIN syms : syms[n].name = name})].value]

\* Every symbol is entered under its name: the last one of a name stays.
Entered(syms) ==
  [name \in {syms[n].name : n \in DOMAIN syms} |->
     syms[Max({n \in DOMAIN syms : syms[n].name = name})].value]

SectionsDone ==
  /\ at = "sections"
  /\ i = Len(file.shs)
  /\ symtab' = IF strtabidx # 0 /\ symtabidx # 0
                 THEN Entered(Section(symtabidx).syms) ELSE symtab
  /\ at' = "mailbox"
  /\ UNCHANGED <<file, i, mem, prot, Tables, tohost_addr, fromhost_addr, pc>>

-----------------------------------------------------------------------------
(* The mailbox and the boot ROM.                                           *)

\* symtab[name] instead of symtab.at(name): 0 for a name that is not there.
MailboxByIndex ==
  /\ at = "mailbox"
  /\ tohost_addr' = IF "tohost" \in DOMAIN symtab THEN symtab["tohost"] ELSE 0
  /\ fromhost_addr' = IF "fromhost" \in DOMAIN symtab THEN symtab["fromhost"] ELSE 0
  /\ at' = "rom"
  /\ UNCHANGED <<file, i, mem, prot, Tables, symtab, pc>>

\* symtab.at throws for a name that is not there, and nobody catches it.
Mailbox ==
  /\ at = "mailbox"
  /\ {"tohost", "fromhost"} \subseteq DOMAIN symtab
  /\ tohost_addr' = symtab["tohost"]
  /\ fromhost_addr' = symtab["fromhost"]
  /\ at' = "rom"
  /\ UNCHANGED <<file, i, mem, prot, Tables, symtab, pc>>

NoMailbox ==
  /\ at = "mailbox"
  /\ ~({"tohost", "fromhost"} \subseteq DOMAIN symtab)
  /\ Goto("aborted")

\* auipc t0,0; addi a1,t0,32; csrr a0,mhartid; lw t0,24(t0); jr t0.
RomCode ==
  <<151, 2, 0, 0,  147, 133, 2, 2,  115, 37, 64, 241,
    131, 162, 130, 1,  103, 128, 2, 0>>

EntryByte(e, k) == (e \div <<1, 256, 65536, 16777216>>[k + 1]) % 256

\* The five words of code, and twice the entry point.
RomByte(e, k) == IF k < 20 THEN RomCode[k + 1] ELSE EntryByte(e, k % 4)

\* pc is set to the ROM before it is written into it.
WriteRomLate ==
  /\ at = "rom"
  /\ Rom \cap prot = {}
  /\ mem' = [a \in Addr |-> IF a \in Rom THEN RomByte(Page, a - Page) ELSE mem[a]]
  /\ pc' = Page
  /\ at' = "loaded"
  /\ UNCHANGED <<file, i, prot, Tables, Globals>>

WriteRom ==
  /\ at = "rom"
  /\ Rom \cap prot = {}
  /\ mem' = [a \in Addr |-> IF a \in Rom THEN RomByte(pc, a - Page) ELSE mem[a]]
  /\ pc' = Page
  /\ at' = "loaded"
  /\ UNCHANGED <<file, i, prot, Tables, Globals>>

RomFault == at = "rom" /\ Rom \cap prot # {} /\ Goto("faulted")

Next ==
  \/ Open \/ Map \/ CheckElf \/ CheckOrder \/ CheckTarget \/ Accept
  \/ Segment \/ SegmentFault \/ SegmentsDone
  \/ ReadSection \/ SectionFault \/ HostFault \/ SectionsDone
  \/ Mailbox \/ NoMailbox \/ WriteRom \/ RomFault

Spec == Init /\ [][Next]_vars

-----------------------------------------------------------------------------
(* Properties.                                                             *)

\* The types of the code's variables.  Only addresses behind the mapping, which
\* are the host's, are protected and hold no byte of the guest's.
TypeOK ==
  /\ at \in {"open", "map", "check", "segments", "sections", "mailbox", "rom"} \cup Ended
  /\ i \in Nat
  /\ mem \in [Addr -> Byte]
  /\ prot \subseteq Nat
  /\ strtabidx \in Nat /\ symtabidx \in Nat
  /\ tohost_addr \in Addr /\ fromhost_addr \in Addr /\ pc \in Addr

\* The bytes of a segment: its memory, and what it has in the file beyond that.
Covered(ph) == IF ph.memsz = 0 THEN {} ELSE Zeroed(ph) \cup Copied(ph)

\* Byte a as the first n segments leave it: the last one that covers it counts.
ImageByte(n, a) ==
  LET over == {k \in 1 .. n : file.phs[k].type = PT.load /\ a \in Covered(file.phs[k])}
      top  == file.phs[Max(over)]
  IN  IF over = {} \/ a - top.vaddr >= top.filesz THEN 0
      ELSE FileByte(top.offset + a - top.vaddr)

\* The guest starts with the bytes the file's segments say, zeroes in what a
\* segment leaves out of the file, wherever segments overlap, and with nothing
\* else but the 28 bytes of the boot ROM, which ends in the file's entry point.
StartsAsLinked ==
  at = "loaded" =>
    /\ \A a \in Addr :
         mem[a] = IF a \in Rom THEN RomByte(file.entry, a - Page)
                  ELSE ImageByte(Len(file.phs), a)
    /\ pc = Page

Extent(n) == Section(n).addr .. Section(n).addr + Section(n).size - 1

\* The page of the host that holds an address.
Whole(a) ==
  HostPage * (a \div HostPage) .. HostPage * (a \div HostPage) + HostPage - 1

\* No data is write-protected: a protected byte, behind the mapping too, lies in a
\* page of the host that belongs as a whole to an executable section; and where
\* pages have the size load_elf believes, each whole page of an aligned one that
\* lies in the mapping is protected.
ProtectsText ==
  at = "loaded" =>
    LET text == {n \in 0 .. Len(file.shs) - 1 : Executable(Section(n))}
    IN  /\ \A a \in prot : \E n \in text : Whole(a) \subseteq Extent(n)
        /\ HostPage = Page =>
             \A n \in text : Section(n).addr % Page = 0 =>
               \A a \in Extent(n) \cap Addr : Whole(a) \subseteq Extent(n) => a \in prot

(***************************************************************************)
(* What may kill load_elf: a file with nothing in it, a segment that is    *)
(* copied from outside the file or to outside the mapping, a section       *)
(* header that is cut off, text that goes on behind the mapping, and text  *)
(* that has the whole page of the boot ROM.                                *)
(***************************************************************************)
Deadly ==
  \/ file.data = <<>>
  \/ \E k \in 1 .. Len(file.phs) : Loadable(file.phs[k]) /\ ~Inside(file.phs[k])
  \/ \E n \in 0 .. Len(file.shs) - 1 :
       \/ ~HeaderInFile(n)
       \/ /\ Executable(Section(n))
          /\ ~(Extent(n) \subseteq Addr) \/ \E a \in Rom : Whole(a) \subseteq Extent(n)

\* A file that has none of this is not lost to a signal: the bytes it places and the
\* pages it protects, its own and whole ones, are not in the way of the boot ROM
\* (loadelf.cc:128-130, 142-144, 175-183).
FaultsForCause == at = "faulted" => Deadly

IsSymbol(sym, name, address) == sym.name = name /\ sym.value = address

\* A machine is loaded only from a file whose symbol table names both cells of
\* the mailbox, with those addresses: a file cut short or stripped never runs.
MailboxNamed ==
  at = "loaded" =>
    \E n \in 1 .. Len(file.shs) - 1 :
      /\ HeaderInFile(n)
      /\ \E s, t \in DOMAIN Section(n).syms :
           /\ IsSymbol(Section(n).syms[s], "tohost", tohost_addr)
           /\ IsSymbol(Section(n).syms[t], "fromhost", fromhost_addr)

\* Local symbols come first in a table, as ELF has it.
LocalsFirst(syms) ==
  \A s, t \in DOMAIN syms : s < t /\ syms[t].bind = STB.local => syms[s].bind = STB.local

\* The cells are the program's own: a static variable that is called tohost too,
\* which some other object file may have, is not taken for it.
MailboxIsGlobal ==
  at = "loaded" =>
    LET syms   == Section(symtabidx).syms
        Global == {s \in DOMAIN syms : syms[s].bind # STB.local}
        Right(name, address) ==
          (\E s \in Global : syms[s].name = name) =>
            \E s \in Global : IsSymbol(syms[s], name, address)
    IN  LocalsFirst(syms) => Right("tohost", tohost_addr) /\ Right("fromhost", fromhost_addr)

\* Section n is the one symbol table and section k the one string table, of their
\* types, both in the file, which names the two cells.
Tabled(n, k) ==
  /\ HeaderInFile(Len(file.shs) - 1)
  /\ file.shs[n + 1].name = ".symtab" /\ file.shs[n + 1].type = SHT.symtab
  /\ file.shs[k + 1].name = ".strtab" /\ file.shs[k + 1].type = SHT.strtab
  /\ \A o \in 0 .. Len(file.shs) - 1 : o \notin {n, k} => file.shs[o + 1].name = "other"
  /\ {"tohost", "fromhost"} \subseteq
       {file.shs[n + 1].syms[s].name : s \in DOMAIN file.shs[n + 1].syms}

NamesMailbox == \E n, k \in 1 .. Len(file.shs) - 1 : Tabled(n, k)

\* A program that has a mailbox is not refused for want of one, whatever types
\* and flags its other sections have.
MailboxNotMissed ==
  at = "aborted" => ~LittleEndian \/ ~NamesMailbox
=============================================================================
