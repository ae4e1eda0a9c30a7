----------------------------- MODULE MCLoadElf -----------------------------
(***************************************************************************)
(* Small files for LoadElf: four pages of 32 bytes, the boot ROM on the    *)
(* second one, twelve bytes of payload with the section headers behind it. *)
(***************************************************************************)
EXTENDS LoadElf, TLC

MCByte == 0 .. 255

Payload(n) == [k \in 1 .. n |-> 10 + k]

Ph(type, vaddr, offset, memsz, filesz) ==
  [type |-> type, vaddr |-> vaddr, offset |-> offset, memsz |-> memsz, filesz |-> filesz]

Sh(name, type, flags, addr, size, syms) ==
  [name |-> name, type |-> type, flags |-> flags, addr |-> addr, size |-> size, syms |-> syms]

Sym(name, value, bind) == [name |-> name, value |-> value, bind |-> bind]

Null   == Sh("other", SHT.null, {}, 0, 0, <<>>)
Strtab == Sh(".strtab", SHT.strtab, {}, 0, 4, <<>>)
Symtab(syms) == Sh(".symtab", SHT.symtab, {}, 0, 4, syms)
Text(addr, size) == Sh("other", SHT.progbits, {SHF.alloc, SHF.execinstr}, addr, size, <<>>)

Cells ==
  <<Sym("tohost", 104, STB.global), Sym("other", 0, STB.weak), Sym("fromhost", 112, STB.global)>>

\* Overlaps, bss, a file part longer than the segment, the ROM, the ends of
\* the mapping and of the file, sizes below zero, a segment that is not loaded.
SomeSegments ==
  {Ph(1, 64, 0, 8, 8), Ph(1, 68, 2, 12, 4), Ph(1, 62, 4, 4, 8),
   Ph(1, 30, 0, 8, 4), Ph(1, 124, 0, 8, 4), Ph(1, 96, 10, 4, 4),
   Ph(1, 70, 0, -1, 4), Ph(1, 70, 0, 4, -1), Ph(1, 72, -2, 4, 4),
   Ph(1, 64, 0, 0, 4), Ph(6, 64, 0, 8, 8)}

SomeTexts ==
  {Text(64, 32), Text(64, 40), Text(64, 64), Text(0, 40), Text(32, 31), Text(32, 64),
   Text(66, 40), Text(96, 70), Text(64, -1), Text(0, 64), Text(64, 31)}

SomeTables ==
  {<<Strtab, Symtab(Cells)>>,
   <<Symtab(Cells), Strtab>>,
   <<Strtab>>,
   <<Symtab(Cells)>>,
   <<Strtab, Symtab(<<Sym("tohost", 104, STB.global)>>)>>,
   <<Strtab, Symtab(Cells \o <<Sym("tohost", 80, STB.weak)>>)>>,
   <<Strtab, Symtab(<<Sym("tohost", 80, STB.local)>> \o Cells)>>,
   <<Strtab, Symtab(Cells), Sh(".symtab", SHT.init_array, {}, 0, 4, <<>>)>>,
   <<Strtab, Symtab(<<>>), Symtab(Cells)>>}

Ident(class, order) == 0 :> 127 @@ 1 :> 69 @@ 2 :> 76 @@ 3 :> 70 @@ 4 :> class @@ 5 :> order

\* A file of segments phs and sections shs, cut bytes short.
Elf(phs, shs, cut) ==
  [opens |-> TRUE, ident |-> Ident(1, 1), machine |-> 243,
   entry |-> 70, phs |-> phs, shs |-> shs, shoff |-> 12,
   data |-> Payload(12 + 2 * Len(shs) - cut)]

Usual == <<Null, Text(64, 40), Strtab, Symtab(Cells)>>

Plain == Elf(<<Ph(1, 64, 0, 8, 8)>>, Usual, 0)

MCFiles ==
       {Elf(phs, Usual, 0) : phs \in {<<a, b>> : a, b \in SomeSegments}}
  \cup {Elf(<<Ph(1, 30, 0, 8, 4)>>, <<Null, a, b>> \o t, 0) : a, b \in SomeTexts, t \in SomeTables}
  \cup {Elf(<<Ph(1, 68, 2, 12, 6)>>, Usual, cut) : cut \in 1 .. 14}
  \cup {Elf(<<>>, Tail(Usual), 0), Elf(<<>>, <<Strtab>> \o Usual, 0), Elf(<<>>, <<>>, 0)}
  \cup {[Plain EXCEPT !.opens = FALSE], [Plain EXCEPT !.data = <<>>],
        [Plain EXCEPT !.ident[3] = 71], [Plain EXCEPT !.ident = Ident(2, 1)],
        [Plain EXCEPT !.ident = Ident(1, 2)], [Plain EXCEPT !.machine = 40]}
  \* Every type of segment and section, and every flag.
  \cup {Elf(<<Ph(PT[t], 64, 0, 8, 8)>>, Usual, 0) : t \in DOMAIN PT}
  \cup {Elf(<<>>, <<Null, Sh("other", SHT[t], {SHF[f]}, 64, 40, <<>>), Strtab, Symtab(Cells)>>, 0) :
          t \in DOMAIN SHT, f \in DOMAIN SHF}
  \cup {Elf(<<>>, <<Null, Strtab, Symtab(Cells), Sh(".symtab", SHT[t], {}, 0, 4, <<>>)>>, 0) :
          t \in DOMAIN SHT}
=============================================================================
