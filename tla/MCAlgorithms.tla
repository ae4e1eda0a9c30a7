---------------------------- MODULE MCAlgorithms ----------------------------
(***************************************************************************)
(* The program's pure functions, each against its reference definition: a  *)
(* behaviour is about one of them, its subject, and what belongs to the    *)
(* others stays as it is.                                                  *)
(***************************************************************************)
EXTENDS Algorithms, MCWords

VARIABLE subject

crcVars  == vars
flagVars == <<word, flags, row, nflags>>
bitVars  == <<gpr, bits>>
wordVars == <<inst, flips>>
aluVars  == <<left, right>>

-----------------------------------------------------------------------------
(* Inputs.                                                                 *)

Samples == {{}, {0}, {7}, {1, 3, 6}, 0 .. 7}

\* Up to three bytes, the one that differs at any place, in one bit or more:
\* 0x00, 0x01, 0x80, 0x4a and 0xff.
MCBuffers ==
  {m \in UNION {[1 .. l -> Samples] \X [1 .. l -> Samples] : l \in 0 .. 3} :
     OneByteApart(m[1], m[2])}

\* Linux's fcntl.h: 0, 1, 2, 02000, 0100, 01000, 0200, 04010000, 04000, 0400 in
\* octal; O_SYNC has two bits.
Linux ==
  [O_RDONLY |-> {}, O_WRONLY |-> {0}, O_RDWR |-> {1}, O_APPEND |-> {10},
   O_CREAT |-> {6}, O_TRUNC |-> {9}, O_EXCL |-> {7}, O_SYNC |-> {12, 20},
   O_NONBLOCK |-> {11}, O_NOCTTY |-> {8}]

\* Every choice of newlib's flags, with a bit no name has and one past the int32_t.
FlagRequests ==
  {r \cup high : r \in SUBSET {0, 1, 3, 9, 10, 11, 13, 14, 15}, high \in {{}, {4, 40}}}

Of(opcodeNumber) == {bit \in 0 .. 6 : (opcodeNumber \div 2 ^ bit) % 2 = 1}

\* Every opcode of the switch, with the other bits clear or set: each part of a
\* field or an immediate is one bit of the word, so all of them show in the words
\* that are one and two flips away.
InstructionWords ==
  {Of(o) \cup high : o \in {3, 15, 19, 35, 55, 23, 103, 111, 51, 99, 115, 0},
                     high \in {{}, 7 .. 31}}

-----------------------------------------------------------------------------
NoCrc   == buf = <<>> /\ other = <<>> /\ c = Ones /\ d = Ones /\ x = Ones /\ n = 0 /\ k = 8
NoFlags == word = {} /\ flags = {} /\ row = 1 /\ nflags = {}
NoWord  == inst = {} /\ flips = 0
NoAlu   == left = 1 /\ right = 1

AllInit ==
  /\ Helper!Init
  /\ \/ subject = "crc"    /\ Init    /\ NoFlags   /\ NoWord     /\ NoAlu
     \/ subject = "flags"  /\ NoCrc   /\ Open!Init /\ NoWord     /\ NoAlu
     \/ subject = "bits"   /\ NoCrc   /\ NoFlags   /\ NoWord     /\ NoAlu
     \/ subject = "decode" /\ NoCrc   /\ NoFlags   /\ Words!Init /\ NoAlu
     \/ subject = "alu"    /\ NoCrc   /\ NoFlags   /\ NoWord     /\ Laws!Init

CrcNext ==
  subject = "crc" /\ Next /\ UNCHANGED <<subject, flagVars, bitVars, wordVars, aluVars>>

FlagsNext ==
  subject = "flags" /\ Open!Step /\ UNCHANGED <<subject, crcVars, bitVars, wordVars, aluVars>>

BitsNext ==
  subject = "bits" /\ Helper!Next /\ UNCHANGED <<subject, crcVars, flagVars, wordVars, aluVars>>

DecodeNext ==
  subject = "decode" /\ Words!Next /\ UNCHANGED <<subject, crcVars, flagVars, bitVars, aluVars>>

AluNext ==
  subject = "alu" /\ Laws!Next /\ UNCHANGED <<subject, crcVars, flagVars, bitVars, wordVars>>

AllNext == CrcNext \/ FlagsNext \/ BitsNext \/ DecodeNext \/ AluNext

AllSpec == AllInit /\ [][AllNext]_<<subject, crcVars, flagVars, bitVars, wordVars, aluVars>>
=============================================================================
