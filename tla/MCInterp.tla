------------------------------ MODULE MCInterp ------------------------------
(***************************************************************************)
(* Small machines for Interp.  B = 4: bytes of two bits, words of eight,   *)
(* a mapping of 256 bytes.  An instruction word is an index into Table;    *)
(* the other words, zero among them, encode no instruction.                *)
(***************************************************************************)
EXTENDS Interp, MCWords, Sequences, SequencesExt

-----------------------------------------------------------------------------
(* The instructions of the programs below.                                 *)

Insn(op, rd, rs1, rs2, sel, special, imm) ==
  [op |-> op, rd |-> rd, rs1 |-> rs1, rs2 |-> rs2,
   sel |-> sel, special |-> special, imm |-> ToWord(imm), csr |-> 0]

System(rd, sel, csr) == [Insn("system", rd, 0, 0, sel, 0, 0) EXCEPT !.csr = csr]

Li(rd, imm) == Insn("opimm", rd, 0, 0, 0, 0, imm)

MCTohost   == 192
MCFromhost == 200
Request    == 160    \* where the guest builds buf

Nop    == Insn("fence", 0, 0, 0, 0, 0, 0)
Spin   == Insn("jal", 0, 0, 0, 0, 0, 0)
Ecall  == System(0, 0, 0)
Cycle0 == System(0, 2, 3072)
Mulhsu == Insn("op", 3, 1, 2, 2, 1, 0)
Post   == Insn("store", 0, 0, 1, 2, 0, MCTohost)     \* sw x1, tohost
PostB  == Insn("store", 0, 0, 1, 0, 0, MCTohost)     \* sb x1, tohost
Clear  == Insn("store", 0, 0, 0, 2, 0, MCFromhost)   \* sw x0, fromhost
Await  == Insn("load", 5, 0, 0, 2, 0, MCFromhost)    \* lw x5, fromhost

\* Operands for registers 1 and 2: small, least negative, most negative.
Operands == <<0, 3, 127, 128, 255>>

\* Every case of the switch, with its undefined encodings.
Cases ==
  [s \in 1 .. 7 |-> Insn("load", 3, 1, 0, s - 1, 0, 0)]
  \o [s \in 1 .. 4 |-> Insn("store", 0, 1, 2, s - 1, 0, 0)]
  \o [s \in 1 .. 8 |-> Insn("opimm", 3, 1, 2, s - 1, 0, 254)]
  \o [s \in 1 .. 8 |-> Insn("op", 3, 1, 2, s - 1, 0, 0)]
  \o [s \in 1 .. 8 |-> Insn("op", 3, 1, 2, s - 1, 1, 0)]
  \o [s \in 1 .. 8 |-> Insn("branch", 0, 1, 2, s - 1, 0, -8)]
  \o <<Insn("opimm", 3, 1, 2, 5, 32, 0), Insn("opimm", 3, 1, 2, 5, 1, 0),
       Insn("opimm", 0, 1, 2, 5, 1, 0),
       Insn("op", 3, 1, 2, 0, 32, 0), Insn("op", 3, 1, 2, 5, 32, 0),
       Insn("op", 3, 1, 2, 1, 32, 0), Insn("op", 0, 1, 2, 2, 1, 0),
       Insn("load", 0, 1, 0, 6, 0, 0),
       Insn("lui", 3, 0, 0, 0, 0, 48), Insn("lui", 0, 0, 0, 0, 0, 48),
       Insn("auipc", 3, 0, 0, 0, 0, 240), Insn("auipc", 0, 0, 0, 0, 0, 240),
       Insn("jalr", 1, 1, 0, 0, 0, 0), Insn("jalr", 0, 1, 0, 0, 0, 0),
       Insn("jal", 3, 0, 0, 0, 0, 8), Nop, Spin, Ecall, Cycle0,
       System(3, 2, 3072), System(3, 2, 7), System(3, 1, 3072)>>

Table ==
  Cases \o <<Post, PostB, Clear, Await, Li(1, 1), Li(1, Request), Li(1, 240)>>
        \o [k \in 1 .. Len(Operands) |-> Li(1, Operands[k])]
        \o [k \in 1 .. Len(Operands) |-> Li(2, Operands[k])]

Unknown == Insn("unknown", 0, 0, 0, 0, 0, 0)

MCDecode ==
  LET t == Table IN [w \in Word |-> IF w \in 1 .. Len(t) THEN t[w] ELSE Unknown]

-----------------------------------------------------------------------------
(* Memory images.                                                          *)

MCResetPc == 16

Blank == [a \in Word |-> 0]

\* m with the code of program from MCResetPc on.
WithCode(t, m, program) ==
  LET Encode(i) == CHOOSE w \in 1 .. Len(t) : t[w] = i
      code == [k \in 1 .. Len(program) |-> Encode(program[k])] IN
  [a \in Word |->
     LET o == a - MCResetPc IN
     IF o \in 0 .. 4 * Len(program) - 1 THEN ByteOf(code[(o \div 4) + 1], o % 4)
                                        ELSE m[a]]

\* m with the request <<number, arguments>> in buf.
WithRequest(m, buf) ==
  [a \in Word |->
     LET o == a - Request IN
     IF o \in 0 .. 8 * Len(buf) - 1 THEN ByteOf(buf[(o \div 8) + 1], o % 8) ELSE m[a]]

\* Two operands, then any two instructions.
IsaImages ==
  LET t == Table IN
  {WithCode(t, Blank, <<Li(1, a), Li(2, b), i, j>>) :
     a \in Range(Operands), b \in Range(Operands), i \in Range(Cases),
     j \in {Nop, Cycle0, Insn("op", 3, 1, 2, 0, 0, 0)}}

Data == 64

Calls ==
  {<<SYS_write, fd, Data, n>> : fd \in {1, 7}, n \in {0, 2}}
  \cup {<<SYS_open, Data>>, <<SYS_stat, Data, Data>>, <<93, 0>>, <<17, 0>>}
  \cup {<<SYS_close, fd>> : fd \in {0, 2, 3, WordSize + 1}}
  \cup {<<SYS_read, fd, p, 2>> : fd \in {0, 7}, p \in {Data, 28, MCTohost, MCFromhost, 34, 300}}
  \cup {<<SYS_lseek, fd, 0, 1>> : fd \in {1, 7}}
  \cup {<<SYS_fstat, fd, p>> : fd \in {1, 7}, p \in {Data, 24, 220}}
  \cup {<<SYS_gettimeofday, p, q>> : p \in {Data}, q \in {0, MCTohost - 6}}
  \cup {<<SYS_times, p>> : p \in {Data, MCTohost, Request}}

\* A guest posts a value of x1 and goes on; requests differ in number and
\* arguments, and need not keep to the guest's own protocol.
HtifImages ==
  LET t == Table IN
  {WithRequest(WithCode(t, Blank, <<Li(1, p), post, i, j>>), c) :
     p \in {1, Request}, post \in {Post, PostB}, i \in {Await, Post, Ecall},
     j \in {Clear, Spin}, c \in Calls}
  \cup {WithCode(t, Blank, <<Li(1, 240), Post, Nop>>)}
=============================================================================
