---------------------------- MODULE InterpProofs ----------------------------
(***************************************************************************)
(* Proofs about Interp, for every program, every address of the mailbox    *)
(* and every even byte base B.                                             *)
(*                                                                         *)
(* The system calls and the instructions are many, but each ends in one of *)
(* few ways.  Two lemmas (SyscallOutcome, ExecuteOutcome) say which; the   *)
(* invariant and the refinement are proved from those outcomes.            *)
(***************************************************************************)
EXTENDS Interp, TLAPS

(***************************************************************************)
(* What the accesses of Memory return and preserve, for every even B; and  *)
(* every result of the ALU is an integer, whatever the operands: what      *)
(* Interp!Write truncates is a number.                                     *)
(***************************************************************************)

\* A mapping holds more than one byte, and an even number of them.
LEMMA Sizes ==
  /\ HalfSize \in Nat /\ HalfSize >= 4
  /\ WordSize \in Nat /\ WordSize >= 16
  /\ WordSize % 2 = 0
<1>1. B \in Nat /\ B >= 2 /\ B % 2 = 0
  BY ByteBase
<1>2. HalfSize \in Nat /\ HalfSize >= 4
  BY <1>1, SMT DEF HalfSize
<1>3. WordSize \in Nat /\ WordSize >= 16
  BY <1>2, SMT DEF WordSize
<1>4. WordSize % 2 = 0
  <2>1. PICK k \in Int : B = 2 * k
    <3>1. B = 2 * (B \div 2) /\ B \div 2 \in Int
      BY <1>1
    <3> QED
      BY <3>1
  <2>2. WordSize = 2 * (k * (B * HalfSize))
    BY <1>1, <2>1, SMT DEF WordSize, HalfSize
  <2>3. k * (B * HalfSize) \in Int
    BY <1>1, <1>2, <2>1
  <2>4. \A x \in Int : (2 * x) % 2 = 0
    OBVIOUS
  <2> QED
    BY <2>2, <2>3, <2>4
<1> QED
  BY <1>2, <1>3, <1>4

\* Assigning an int to a 32-bit variable.
LEMMA ToWordType == \A x \in Int : ToWord(x) \in Word
  BY Sizes DEF ToWord, Word

LEMMA ToWordEven ==
  ASSUME NEW x \in Int, x % 2 = 0
  PROVE  ToWord(x) % 2 = 0
<1> DEFINE q == x \div WordSize
<1>1. q \in Int /\ ToWord(x) \in Int /\ x = WordSize * q + ToWord(x)
  BY Sizes DEF ToWord
<1>2. PICK k \in Int : WordSize = 2 * k
  BY Sizes
<1>3. \A y \in Int : (2 * k) * y = 2 * (k * y) /\ k * y \in Int
  BY SMT
<1>4. WordSize * q = 2 * (k * q) /\ k * q \in Int
  <2> HIDE DEF q
  <2> QED
    BY <1>1, <1>2, <1>3
<1> QED
  <2> DEFINE p == k * q
  <2> HIDE DEF p, q
  <2>1. p \in Int /\ ToWord(x) = x - 2 * p
    BY <1>1, <1>4 DEF p
  <2> QED
    BY <2>1

\* What lies at an address, in the mapping or just past it, is a byte.
LEMMA ViewBytes ==
  ASSUME NEW m \in Memories, NEW a \in Word, NEW n \in 1 .. Slack,
         NEW v \in Views(m, a, n)
  PROVE  \A k \in 0 .. n - 1 : v[a + k] \in Byte
<1>1. CASE InMap(a, n)
  BY <1>1, Sizes DEF Views, InMap, Memories, Word
<1>2. CASE ~InMap(a, n)
  <2>1. PICK x \in Byte : v = Beyond(m, x)
    BY <1>2 DEF Views
  <2>2. \A k \in 0 .. n - 1 : a + k \in 0 .. WordSize + Slack
    BY Sizes DEF Word, Slack
  <2> QED
    BY <2>1, <2>2 DEF Beyond, Memories
<1> QED
  BY <1>1, <1>2

\* A digit and a rest make a number: the bound of a little-endian load.
LEMMA TwoDigits ==
  ASSUME NEW p \in Nat, NEW q \in Nat, p > 0, q > 0,
         NEW lo \in 0 .. p - 1, NEW hi \in 0 .. q - 1
  PROVE  lo + p * hi \in 0 .. p * q - 1
<1>1. p * hi \in Nat /\ p * q \in Nat
  OBVIOUS
<1>2. p * hi <= p * (q - 1)
  BY SMT
<1>3. p * (q - 1) = p * q - p
  OBVIOUS
<1> QED
  BY <1>1, <1>2, <1>3

LEMMA LoadHalfType ==
  ASSUME NEW v, NEW a \in Int, v[a] \in Byte, v[a + 1] \in Byte
  PROVE  LoadHalf(v, a) \in 0 .. HalfSize - 1
  BY ByteBase, TwoDigits DEF LoadHalf, HalfSize, Byte

LEMMA LoadWordType ==
  ASSUME NEW v, NEW a \in Int, \A k \in 0 .. 3 : v[a + k] \in Byte
  PROVE  LoadWord(v, a) \in Word
<1>1. v[a] \in Byte /\ v[a + 1] \in Byte /\ v[a + 2] \in Byte /\ v[(a + 2) + 1] \in Byte
  <2>1. a + 0 = a /\ (a + 2) + 1 = a + 3
    OBVIOUS
  <2> QED
    BY <2>1
<1>2. LoadHalf(v, a) \in 0 .. HalfSize - 1 /\ LoadHalf(v, a + 2) \in 0 .. HalfSize - 1
  BY <1>1, LoadHalfType
<1> QED
  BY <1>2, Sizes, TwoDigits DEF LoadWord, WordSize, Word

LEMMA LoadDwordType ==
  ASSUME NEW v, NEW a \in Int, \A k \in 0 .. 7 : v[a + k] \in Byte
  PROVE  LoadDword(v, a) \in 0 .. WordSize * WordSize - 1
<1>1. \A k \in 0 .. 3 : v[(a + 4) + k] \in Byte
  <2>1. \A k \in 0 .. 3 : (a + 4) + k = a + (k + 4) /\ k + 4 \in 0 .. 7
    OBVIOUS
  <2> QED
    BY <2>1
<1>2. LoadWord(v, a) \in 0 .. WordSize - 1 /\ LoadWord(v, a + 4) \in 0 .. WordSize - 1
  BY <1>1, LoadWordType DEF Word
<1> QED
  BY <1>2, Sizes, TwoDigits DEF LoadDword

-----------------------------------------------------------------------------
LEMMA WeightType == \A k \in 0 .. 7 : Weight(k) \in Nat \ {0}
<1>1. B \in Nat \ {0} /\ HalfSize \in Nat \ {0} /\ WordSize \in Nat \ {0}
  BY ByteBase, Sizes
<1>2. \A x, y \in Nat \ {0} : x * y \in Nat \ {0}
  BY SMT
<1>3. /\ HalfSize * B \in Nat \ {0} /\ WordSize * B \in Nat \ {0}
      /\ WordSize * HalfSize \in Nat \ {0}
  BY <1>1, <1>2
<1>4. WordSize * HalfSize * B \in Nat \ {0}
  BY <1>1, <1>2, <1>3
<1> QED
  BY <1>1, <1>3, <1>4 DEF Weight

LEMMA ByteOfType == \A x \in Int, k \in 0 .. 7 : ByteOf(x, k) \in Byte
<1> SUFFICES ASSUME NEW x \in Int, NEW k \in 0 .. 7 PROVE ByteOf(x, k) \in Byte
  OBVIOUS
<1>1. x \div Weight(k) \in Int
  BY WeightType
<1> QED
  BY <1>1, ByteBase DEF ByteOf, Byte

\* A store or a fill leaves a memory of bytes.
LEMMA StoreType ==
  ASSUME NEW m \in Memories, NEW a \in Int, NEW n \in 0 .. 8, NEW x \in Int
  PROVE  Store(m, a, n, x) \in Memories
<1>1. \A i \in Word : i - a \in 0 .. n - 1 => i - a \in 0 .. 7
  OBVIOUS
<1> QED
  BY <1>1, ByteOfType DEF Store, Memories

LEMMA FillType ==
  ASSUME NEW m \in Memories, NEW a, NEW offs, NEW x \in Byte
  PROVE  Fill(m, a, offs, x) \in Memories
  BY DEF Fill, Memories

-----------------------------------------------------------------------------
(* What the two cells of the mailbox hold once they have been stored.      *)

LEMMA ZeroBytes == \A k \in 0 .. 7 : ByteOf(0, k) = 0
<1> SUFFICES ASSUME NEW k \in 0 .. 7 PROVE ByteOf(0, k) = 0
  OBVIOUS
<1>1. 0 \div Weight(k) = 0
  BY WeightType
<1> QED
  BY <1>1, ByteBase DEF ByteOf

LEMMA OneBytes == ByteOf(1, 0) = 1 /\ \A k \in 1 .. 7 : ByteOf(1, k) = 0
<1>1. \A k \in 1 .. 7 : Weight(k) \in Nat /\ Weight(k) >= 2
  <2>1. B \in Nat /\ B >= 2 /\ HalfSize \in Nat /\ HalfSize >= 2 /\ WordSize \in Nat /\ WordSize >= 2
    BY ByteBase, Sizes
  <2>2. \A x, y \in Nat : x >= 2 /\ y >= 2 => x * y \in Nat /\ x * y >= 2
    BY SMT
  <2>3. /\ HalfSize * B \in Nat /\ HalfSize * B >= 2
        /\ WordSize * B \in Nat /\ WordSize * B >= 2
        /\ WordSize * HalfSize \in Nat /\ WordSize * HalfSize >= 2
    BY <2>1, <2>2
  <2>4. WordSize * HalfSize * B \in Nat /\ WordSize * HalfSize * B >= 2
    BY <2>1, <2>2, <2>3
  <2> QED
    BY <2>1, <2>3, <2>4 DEF Weight
<1>2. \A w \in Nat : w >= 2 => 1 \div w = 0
  BY SMT
<1>3. \A k \in 1 .. 7 : ByteOf(1, k) = 0
  BY <1>1, <1>2, ByteBase DEF ByteOf
<1>4. ByteOf(1, 0) = 1
  <2>1. Weight(0) = 1
    BY DEF Weight
  <2>2. 1 \div 1 = 1 /\ 1 % B = 1
    BY ByteBase
  <2> QED
    BY <2>1, <2>2 DEF ByteOf
<1> QED
  BY <1>3, <1>4

\* The bytes of a dword just stored, and those of one stored elsewhere.
LEMMA StoredDword ==
  ASSUME NEW m \in Memories, NEW a \in Word, a + 7 \in Word, NEW x \in Int
  PROVE  \A k \in 0 .. 7 : Store(m, a, 8, x)[a + k] = ByteOf(x, k)
<1> SUFFICES ASSUME NEW k \in 0 .. 7 PROVE Store(m, a, 8, x)[a + k] = ByteOf(x, k)
  OBVIOUS
<1>1. a + k \in Word /\ (a + k) - a = k
  BY Sizes DEF Word
<1> QED
  BY <1>1 DEF Store

LEMMA StoredElsewhere ==
  ASSUME NEW m \in Memories, NEW a \in Word, NEW x \in Int,
         NEW i \in Word, i \notin a .. a + 7
  PROVE  Store(m, a, 8, x)[i] = m[i]
<1>1. i - a \notin 0 .. 7
  BY DEF Word
<1> QED
  BY <1>1 DEF Store

LEMMA LoadZeroWord ==
  ASSUME NEW m, NEW a \in Int, \A k \in 0 .. 3 : m[a + k] = 0
  PROVE  LoadWord(m, a) = 0
<1>1. m[a] = 0 /\ m[a + 1] = 0 /\ m[a + 2] = 0 /\ m[(a + 2) + 1] = 0
  <2>1. a + 0 = a /\ (a + 2) + 1 = a + 3
    OBVIOUS
  <2> QED
    BY <2>1
<1> QED
  BY <1>1, ByteBase, Sizes DEF LoadWord, LoadHalf

LEMMA LoadOneDword ==
  ASSUME NEW m, NEW a \in Int, m[a] = 1, \A k \in 1 .. 7 : m[a + k] = 0
  PROVE  LoadDword(m, a) = 1
<1>1. LoadWord(m, a + 4) = 0
  <2>1. \A k \in 0 .. 3 : (a + 4) + k = a + (k + 4) /\ k + 4 \in 1 .. 7
    OBVIOUS
  <2> QED
    BY <2>1, LoadZeroWord
<1>2. LoadWord(m, a) = 1
  <2>1. m[a] = 1 /\ m[a + 1] = 0 /\ m[a + 2] = 0 /\ m[(a + 2) + 1] = 0
    <3>1. (a + 2) + 1 = a + 3
      OBVIOUS
    <3> QED
      BY <3>1
  <2> QED
    BY <2>1, ByteBase, Sizes DEF LoadWord, LoadHalf
<1> QED
  BY <1>1, <1>2, Sizes DEF LoadDword

-----------------------------------------------------------------------------
(* The ALU.                                                                *)

LEMMA SignedType == \A w \in Word : Signed(w) \in Int
  BY Sizes DEF Signed, Word

LEMMA ShiftTypes ==
  \A a \in Word, s \in Int :
    ShiftLeft(a, s) \in Int /\ ShiftRight(a, s) \in Int /\ ShiftArith(a, s) \in Int
<1> SUFFICES ASSUME NEW a \in Word, NEW s \in Int
             PROVE  /\ ShiftLeft(a, s) \in Int
                    /\ ShiftRight(a, s) \in Int
                    /\ ShiftArith(a, s) \in Int
  OBVIOUS
<1>1. s % W \in 0 .. W - 1
  BY Bits
<1>2. Pow2(s % W) \in Nat \ {0}
  BY <1>1, Bits
<1>3. a \in Int /\ Signed(a) \in Int
  BY SignedType DEF Word
<1> QED
  BY <1>2, <1>3 DEF ShiftLeft, ShiftRight, ShiftArith

LEMMA QuotientType == \A x, y \in Int : Quotient(x, y) \in Int
<1>1. \A x \in Int : Abs(x) \in Nat /\ (x # 0 => Abs(x) > 0)
  BY DEF Abs
<1> QED
  BY <1>1 DEF Quotient

LEMMA RemainderType == \A x, y \in Int : Remainder(x, y) \in Int
  BY QuotientType DEF Remainder

LEMMA FlagType == \A p \in BOOLEAN : Flag(p) \in Int
  BY DEF Flag

\* Opcode 0x13.
LEMMA ImmResultType ==
  ASSUME NEW i \in Instructions, ImmDefined(i), NEW a \in Word
  PROVE  ImmResult(i, a) \in Int
<1>1. /\ i.imm \in Word /\ i.imm \in Int /\ a \in Int
      /\ i.rs2 \in Int /\ i.sel \in 0 .. 7
  BY Sizes DEF Instructions, Reg, Word
<1>2. /\ ShiftLeft(a, i.rs2) \in Int /\ ShiftRight(a, i.rs2) \in Int
      /\ ShiftArith(a, i.rs2) \in Int
  BY <1>1, ShiftTypes
<1>3. /\ BitAnd(a, i.imm) \in Int /\ BitOr(a, i.imm) \in Int
      /\ BitXor(a, i.imm) \in Int
  <2>1. /\ BitAnd(a, i.imm) \in Word /\ BitOr(a, i.imm) \in Word
        /\ BitXor(a, i.imm) \in Word
    BY <1>1, Bits
  <2> QED
    BY <2>1 DEF Word
<1>4. Flag(Signed(a) < Signed(i.imm)) \in Int /\ Flag(a < i.imm) \in Int
  BY DEF Flag
<1>5. a + i.imm \in Int
  BY <1>1
<1> HIDE DEF Flag, ShiftLeft, ShiftRight, ShiftArith
<1> QED
  BY <1>1, <1>2, <1>3, <1>4, <1>5 DEF ImmResult

\* Opcode 0x33.
LEMMA OpResultType ==
  ASSUME NEW i \in Instructions, OpDefined(i), NEW a \in Word, NEW b \in Word
  PROVE  OpResult(i, a, b) \in Int
<1>1. i.sel \in 0 .. 7 /\ a \in Int /\ b \in Int /\ Signed(a) \in Int /\ Signed(b) \in Int
  BY SignedType DEF Instructions, Word
<1>2. /\ ShiftLeft(a, b) \in Int /\ ShiftRight(a, b) \in Int
      /\ ShiftArith(a, b) \in Int
  BY <1>1, ShiftTypes
<1>3. BitAnd(a, b) \in Int /\ BitOr(a, b) \in Int /\ BitXor(a, b) \in Int
  BY Bits DEF Word
<1>4. Flag(Signed(a) < Signed(b)) \in Int /\ Flag(a < b) \in Int
  BY DEF Flag
<1>5. /\ Quotient(Signed(a), Signed(b)) \in Int /\ Quotient(a, b) \in Int
      /\ Remainder(Signed(a), Signed(b)) \in Int /\ Remainder(a, b) \in Int
  BY <1>1, QuotientType, RemainderType
<1>6. a + b \in Int /\ a - b \in Int
  BY <1>1
<1>7. /\ Signed(a) * Signed(b) \in Int
      /\ (Signed(a) * Signed(b)) \div WordSize \in Int
      /\ (a * b) \div WordSize \in Int
  <2>1. \A x, y \in Int : x * y \in Int /\ (x * y) \div WordSize \in Int
    BY Sizes
  <2> QED
    BY <1>1, <2>1
<1>8. CASE i.special = 0
  BY <1>1, <1>2, <1>3, <1>4, <1>6, <1>8 DEF OpResult
<1>9. CASE i.special = 1 /\ i.sel # 2
  BY <1>1, <1>5, <1>7, <1>9 DEF OpResult
<1>10. CASE i.special = 32 /\ i.sel \in {0, 5}
  BY <1>2, <1>6, <1>10 DEF OpResult
<1> QED
  BY <1>8, <1>9, <1>10 DEF OpDefined

-----------------------------------------------------------------------------
(* The interpreter.                                                        *)

\* A served call: some memory m, acknowledged.
Answered ==
  /\ ToExec
  /\ Tohost # 0 /\ Tohost % 2 = 0
  /\ mem' \in {Ack(m) : m \in Memories}
  /\ fds' \in SUBSET (0 .. MaxFds - 1)
  /\ UNCHANGED brk

\* An instruction executed to its end.
Retired ==
  /\ at = "exec"
  /\ \E next \in Int :
       /\ Retire(next)
       /\ EvenOffsets /\ pc % 2 = 0 => next % 2 = 0
  /\ gpr' \in [Reg -> Word]
  /\ mem' \in Memories
  /\ brk' \in {brk, 1}
  /\ mem' = mem \/ I.op = "store"

Died == \E how \in {"exited", "aborted", "faulted"} : Die(how)

-----------------------------------------------------------------------------
(* The mailbox.                                                            *)

LEMMA Cells8 ==
  ASSUME NEW a \in Word, Cell(a) \subseteq Word
  PROVE  a + 7 \in Word /\ \A k \in 0 .. 7 : a + k \in Word
<1>1. \A k \in 0 .. 7 : a + k \in Cell(a)
  BY DEF Cell, Word
<1> QED
  BY <1>1

LEMMA MailboxTypes ==
  ASSUME NEW m \in Memories
  PROVE  /\ LoadWord(m, TohostAddr) \in Word
         /\ LoadDword(m, FromhostAddr) \in 0 .. WordSize * WordSize - 1
<1>1. TohostAddr \in Int /\ FromhostAddr \in Int
  BY Mailbox DEF Word
<1>2. \A k \in 0 .. 7 : m[TohostAddr + k] \in Byte /\ m[FromhostAddr + k] \in Byte
  BY Mailbox, Cells8 DEF Memories
<1>3. \A k \in 0 .. 3 : m[TohostAddr + k] \in Byte
  BY <1>2
<1> QED
  BY <1>1, <1>2, <1>3, LoadWordType, LoadDwordType

\* The acknowledgement leaves 0 in tohost and 1 in fromhost.
LEMMA AckCells ==
  ASSUME NEW m \in Memories
  PROVE  /\ Ack(m) \in Memories
         /\ LoadWord(Ack(m), TohostAddr) = 0
         /\ LoadDword(Ack(m), FromhostAddr) = 1
<1> DEFINE z == Store(m, TohostAddr, 8, 0)
<1>1. /\ TohostAddr \in Word /\ FromhostAddr \in Word
      /\ TohostAddr \in Int /\ FromhostAddr \in Int
  BY Mailbox DEF Word
<1>2. z \in Memories
  BY <1>1, StoreType
<1> HIDE DEF z
<1>3. Ack(m) = Store(z, FromhostAddr, 8, 1)
  BY DEF Ack, z
<1>4. Ack(m) \in Memories
  BY <1>1, <1>2, <1>3, StoreType
<1>5. \A k \in 0 .. 3 : Ack(m)[TohostAddr + k] = 0
  <2> SUFFICES ASSUME NEW k \in 0 .. 3 PROVE Ack(m)[TohostAddr + k] = 0
    OBVIOUS
  <2>1. TohostAddr + k \in Cell(TohostAddr)
    BY <1>1 DEF Cell
  <2>2. TohostAddr + k \in Word /\ TohostAddr + k \notin FromhostAddr .. FromhostAddr + 7
    BY <2>1, Mailbox DEF Cell
  <2>3. Ack(m)[TohostAddr + k] = z[TohostAddr + k]
    BY <1>1, <1>2, <1>3, <2>2, StoredElsewhere
  <2>4. TohostAddr + 7 \in Word
    BY Mailbox, Cells8
  <2>5. z[TohostAddr + k] = ByteOf(0, k)
    BY <1>1, <2>4, StoredDword DEF z
  <2> QED
    BY <2>3, <2>5, ZeroBytes
<1>6. \A k \in 0 .. 7 : Ack(m)[FromhostAddr + k] = ByteOf(1, k)
  <2>1. FromhostAddr + 7 \in Word
    BY Mailbox, Cells8
  <2> QED
    BY <1>1, <1>2, <1>3, <2>1, StoredDword
<1>7. Ack(m)[FromhostAddr] = 1 /\ \A k \in 1 .. 7 : Ack(m)[FromhostAddr + k] = 0
  <2>1. FromhostAddr + 0 = FromhostAddr
    BY <1>1
  <2> QED
    BY <1>6, <2>1, OneBytes
<1> QED
  BY <1>1, <1>4, <1>5, <1>7, LoadZeroWord, LoadOneDword

-----------------------------------------------------------------------------
(* The outcomes of a system call.                                          *)

LEMMA ReplyType ==
  ASSUME NEW m \in Memories, NEW r \in Int, mem \in Memories
  PROVE  Reply(m, r) \in Memories
<1>1. Tohost \in Int
  BY MailboxTypes DEF Tohost, Word
<1> QED
  BY <1>1, StoreType DEF Reply

\* A call that completes has been answered.
LEMMA CompleteAnswers ==
  ASSUME Buf # {}, NEW m \in Memories, NEW f \in SUBSET (0 .. MaxFds - 1),
         Complete(m, f)
  PROVE  Answered
  BY DEF Complete, Answered, Buf, Requested

LEMMA SyscallOutcome ==
  ASSUME TypeOK, Syscall
  PROVE  Answered \/ Died
<1>1. mem \in Memories /\ fds \in SUBSET (0 .. MaxFds - 1)
  BY DEF TypeOK
<1>2. \A fd, len : Transferred(fd, len) \subseteq Int
  BY Machine DEF Transferred
<1>3. \A r \in Int : Reply(mem, r) \in Memories
  BY <1>1, ReplyType
<1>4. \A a, offs : \A x \in Byte : Fill(mem, a, offs, x) \in Memories
  BY <1>1, FillType
<1>5. 0 \in Byte
  BY ByteBase DEF Byte
<1>6. \A n : Asking(n) # {} => Buf # {}
  BY DEF Asking
<1>7. CASE SysWrite
  <2>1. PICK r \in Int : Complete(Reply(mem, r), fds)
    BY <1>2, <1>7 DEF SysWrite
  <2> QED
    BY <1>1, <1>3, <1>6, <1>7, <2>1, CompleteAnswers DEF SysWrite
<1>8. CASE SysOpen
  <2>1. CASE Complete(Reply(mem, -1), fds)
    BY <1>1, <1>3, <1>6, <1>8, <2>1, CompleteAnswers DEF SysOpen
  <2>2. ASSUME NEW n \in 0 .. MaxFds - 1, Complete(Reply(mem, n), fds \cup {n})
        PROVE  Answered
    <3>1. fds \cup {n} \in SUBSET (0 .. MaxFds - 1) /\ Reply(mem, n) \in Memories
      BY <1>1, <1>3
    <3> QED
      BY <1>6, <1>8, <2>2, <3>1, CompleteAnswers DEF SysOpen
  <2> QED
    BY <1>8, <2>1, <2>2 DEF SysOpen
<1>9. CASE SysClose
  <2>1. PICK r \in {-1, 0}, f \in SUBSET fds : Complete(Reply(mem, r), f)
    BY <1>9 DEF SysClose, Status
  <2>2. f \in SUBSET (0 .. MaxFds - 1) /\ Reply(mem, r) \in Memories
    BY <1>1, <1>3
  <2> QED
    BY <1>6, <1>9, <2>1, <2>2, CompleteAnswers DEF SysClose
<1>10. CASE SysRead
  <2>1. PICK v \in Asking(SYS_read) : \E r \in Transferred(Fd(v), Arg(v, 3)), x \in Byte :
          Complete(Reply(Fill(mem, Arg(v, 2), Filled(r), x), r), fds)
    BY <1>10 DEF SysRead
  <2>2. PICK r \in Transferred(Fd(v), Arg(v, 3)), x \in Byte :
          Complete(Reply(Fill(mem, Arg(v, 2), Filled(r), x), r), fds)
    BY <2>1
  <2>3. Reply(Fill(mem, Arg(v, 2), Filled(r), x), r) \in Memories
    BY <1>1, <1>2, <1>4, ReplyType
  <2> QED
    BY <1>1, <1>6, <2>1, <2>2, <2>3, CompleteAnswers
<1>11. CASE SysLseek
  <2>1. PICK r \in Int : Complete(Reply(mem, r), fds)
    BY <1>11, Machine DEF SysLseek, Offsets
  <2> QED
    BY <1>1, <1>3, <1>6, <1>11, <2>1, CompleteAnswers DEF SysLseek
<1>12. CASE SysFstat
  <2>1. PICK v \in Asking(SYS_fstat), r \in {-1, 0}, x \in Byte :
          Complete(Reply(Fill(Fill(mem, Arg(v, 2), StatFields, x),
                              Arg(v, 2), StatZeros, 0), r), fds)
    BY <1>12 DEF SysFstat, Status
  <2>2. Reply(Fill(Fill(mem, Arg(v, 2), StatFields, x),
                   Arg(v, 2), StatZeros, 0), r) \in Memories
    BY <1>1, <1>4, <1>5, FillType, ReplyType
  <2> QED
    BY <1>1, <1>6, <2>1, <2>2, CompleteAnswers
<1>13. CASE SysStat
  BY <1>1, <1>3, <1>6, <1>13, CompleteAnswers DEF SysStat
<1>14. CASE SysGettimeofday
  <2>1. PICK v \in Asking(SYS_gettimeofday), x \in Byte, y \in Byte :
          Complete(Reply(Fill(Fill(mem, Arg(v, 1), 0 .. 15, x),
                              Arg(v, 2), 0 .. 7, y), 0), fds)
    BY <1>14 DEF SysGettimeofday
  <2>2. Reply(Fill(Fill(mem, Arg(v, 1), 0 .. 15, x),
                   Arg(v, 2), 0 .. 7, y), 0) \in Memories
    BY <1>1, <1>4, FillType, ReplyType
  <2> QED
    BY <1>1, <1>6, <2>1, <2>2, CompleteAnswers
<1>15. CASE SysTimes
  <2>1. PICK v \in Asking(SYS_times), r \in HostValues, x \in Byte :
          Complete(Fill(Reply(mem, r), Arg(v, 1), 0 .. 15, x), fds)
    BY <1>15 DEF SysTimes
  <2>2. Fill(Reply(mem, r), Arg(v, 1), 0 .. 15, x) \in Memories
    BY <1>3, Machine, FillType
  <2> QED
    BY <1>1, <1>6, <2>1, <2>2, CompleteAnswers
<1>16. CASE SysUnsupported \/ SysFault
  BY <1>16 DEF SysUnsupported, SysFault, Died
<1> QED
  BY <1>7, <1>8, <1>9, <1>10, <1>11, <1>12, <1>13, <1>14, <1>15, <1>16 DEF Syscall

-----------------------------------------------------------------------------
(* The outcomes of an instruction.                                         *)

LEMMA EvenSum ==
  \A x, y \in Int : x % 2 = 0 /\ y % 2 = 0 => (x + y) % 2 = 0
  OBVIOUS

\* What the operands of the instruction are.
LEMMA OperandTypes ==
  ASSUME TypeOK
  PROVE  /\ I \in Instructions
         /\ I.imm \in Int /\ pc \in Int
         /\ gpr[I.rs1] \in Word /\ gpr[I.rs2] \in Word /\ gpr[I.rs2] \in Int
         /\ Ea \in Word /\ Ea \in Int
<1>1. I \in Instructions
  BY Machine DEF TypeOK, I
<1>2. /\ I.imm \in Word /\ I.rs1 \in Reg /\ I.rs2 \in Reg
      /\ gpr[I.rs1] \in Word /\ gpr[I.rs2] \in Word /\ pc \in Word
  BY <1>1 DEF Instructions, TypeOK
<1>3. Word \subseteq Int
  BY DEF Word
<1>4. I.imm + gpr[I.rs1] \in Int
  BY <1>2, <1>3
<1> QED
  BY <1>1, <1>2, <1>3, <1>4, ToWordType DEF Ea

LEMMA WriteType ==
  ASSUME TypeOK, NEW r, NEW x \in Int, Write(r, x) \/ WriteUnlessZero(r, x)
  PROVE  gpr' \in [Reg -> Word]
<1>1. ToWord(x) \in Word
  BY ToWordType
<1> QED
  BY <1>1 DEF TypeOK, Write, WriteUnlessZero

\* Instructions that end with pc + 4 and touch no memory.
LEMMA AdvanceRetires ==
  ASSUME TypeOK, at = "exec", Advance, gpr' \in [Reg -> Word], brk' \in {brk, 1},
         mem' \in Memories, mem' = mem \/ I.op = "store"
  PROVE  Retired
<1>1. pc \in Int /\ pc + 4 \in Int
  BY OperandTypes
<1>2. pc % 2 = 0 => (pc + 4) % 2 = 0
  BY <1>1, EvenSum
<1> QED
  BY <1>1, <1>2 DEF Retired, Advance

LEMMA LoadedType ==
  ASSUME NEW a \in Word, NEW s \in DOMAIN LoadWidth, mem \in Memories,
         NEW v \in Views(mem, a, LoadWidth[s])
  PROVE  Loaded(v, a, s) \in Int
<1>1. LoadWidth[s] \in 1 .. Slack
  BY DEF LoadWidth, Slack
<1>2. \A k \in 0 .. LoadWidth[s] - 1 : v[a + k] \in Byte
  BY <1>1, ViewBytes
<1>3. a \in Int /\ a + 0 = a
  BY DEF Word
<1>4. v[a] \in Byte
  BY <1>2, <1>3 DEF LoadWidth
<1>5. CASE s \in {0, 4}
  <2>1. v[a] \in Int /\ SignedByte(v[a]) \in Int
    BY <1>4, ByteBase DEF SignedByte, Byte
  <2> QED
    BY <1>5, <2>1 DEF Loaded
<1>6. CASE s \in {1, 5}
  <2>1. v[a + 1] \in Byte
    BY <1>2, <1>6 DEF LoadWidth
  <2>2. LoadHalf(v, a) \in 0 .. HalfSize - 1
    BY <1>3, <1>4, <2>1, LoadHalfType
  <2>3. LoadHalf(v, a) \in Int /\ SignedHalf(LoadHalf(v, a)) \in Int
    BY <2>2, Sizes DEF SignedHalf
  <2> QED
    BY <1>6, <2>3 DEF Loaded
<1>7. CASE s = 2
  <2>1. \A k \in 0 .. 3 : v[a + k] \in Byte
    BY <1>2, <1>7 DEF LoadWidth
  <2>2. LoadWord(v, a) \in Int
    BY <1>3, <2>1, LoadWordType DEF Word
  <2> QED
    BY <1>7, <2>2 DEF Loaded
<1> QED
  BY <1>5, <1>6, <1>7 DEF LoadWidth

LEMMA ExecuteOutcome ==
  ASSUME TypeOK, Execute
  PROVE  Retired \/ Died
<1> USE OperandTypes
<1>1. /\ gpr \in [Reg -> Word] /\ mem \in Memories /\ pc \in Word
      /\ icnt \in Int /\ brk \in {brk, 1}
  BY DEF TypeOK
<1>2. pc + 4 \in Int /\ pc + I.imm \in Int
  OBVIOUS
<1>3. CASE ExecLoad
  <2>1. PICK v \in Views(mem, Ea, LoadWidth[I.sel]) : Write(I.rd, Loaded(v, Ea, I.sel))
    BY <1>3 DEF ExecLoad
  <2>2. Loaded(v, Ea, I.sel) \in Int
    BY <1>1, <1>3, LoadedType DEF ExecLoad
  <2>3. gpr' \in [Reg -> Word]
    BY <2>1, <2>2, WriteType
  <2> QED
    BY <1>1, <1>3, <2>3, AdvanceRetires DEF ExecLoad, Executing
<1>4. CASE ExecFence
  BY <1>1, <1>4, AdvanceRetires DEF ExecFence, Executing
<1>5. CASE ExecOpImm
  <2>1. gpr' \in [Reg -> Word]
    <3>1. CASE UNCHANGED gpr
      BY <1>1, <3>1
    <3>2. CASE ImmDefined(I) /\ Write(I.rd, ImmResult(I, gpr[I.rs1]))
      BY <3>2, ImmResultType, WriteType
    <3> QED
      BY <1>5, <3>1, <3>2 DEF ExecOpImm
  <2> QED
    BY <1>1, <1>5, <2>1, AdvanceRetires DEF ExecOpImm, Executing
<1>6. CASE ExecStore
  <2>1. StoreWidth[I.sel] \in 0 .. 8
    BY <1>6 DEF ExecStore, StoreWidth
  <2>2. mem' \in Memories
    BY <1>1, <1>6, <2>1, StoreType DEF ExecStore
  <2> QED
    BY <1>1, <1>6, <2>2, AdvanceRetires DEF ExecStore, Executing
<1>7. CASE ExecLui
  <2>1. gpr' \in [Reg -> Word]
    BY <1>7, WriteType DEF ExecLui
  <2> QED
    BY <1>1, <1>7, <2>1, AdvanceRetires DEF ExecLui, Executing
<1>8. CASE ExecAuipc
  <2>1. gpr' \in [Reg -> Word]
    BY <1>2, <1>8, WriteType DEF ExecAuipc
  <2> QED
    BY <1>1, <1>8, <2>1, AdvanceRetires DEF ExecAuipc, Executing
<1>9. CASE ExecJalr
  <2>1. gpr' \in [Reg -> Word]
    BY <1>2, <1>9, WriteType DEF ExecJalr
  <2>2. JalrTarget \in Int /\ JalrTarget % 2 = 0
    BY DEF JalrTarget
  <2> QED
    BY <1>1, <1>9, <2>1, <2>2 DEF ExecJalr, Executing, Retired
<1>10. CASE ExecJal
  <2>1. gpr' \in [Reg -> Word]
    BY <1>2, <1>10, WriteType DEF ExecJal
  <2>2. EvenOffsets => I.imm % 2 = 0
    BY <1>10 DEF ExecJal, Executing, EvenOffsets, I, TypeOK
  <2>3. EvenOffsets /\ pc % 2 = 0 => (pc + I.imm) % 2 = 0
    BY <2>2, EvenSum
  <2> QED
    BY <1>1, <1>2, <1>10, <2>1, <2>3 DEF ExecJal, Executing, Retired
<1>11. CASE ExecOp
  <2>1. gpr' \in [Reg -> Word]
    <3>1. CASE UNCHANGED gpr
      BY <1>1, <3>1
    <3>2. CASE OpDefined(I) /\ Write(I.rd, OpResult(I, gpr[I.rs1], gpr[I.rs2]))
      BY <3>2, OpResultType, WriteType
    <3> QED
      BY <1>11, <3>1, <3>2 DEF ExecOp
  <2> QED
    BY <1>1, <1>11, <2>1, AdvanceRetires DEF ExecOp, Executing
<1>12. CASE ExecBranch
  <2>1. PICK next \in {pc + I.imm, pc + 4} : Retire(next)
    BY <1>12 DEF ExecBranch
  <2>2. EvenOffsets => I.imm % 2 = 0
    BY <1>12 DEF ExecBranch, Executing, EvenOffsets, I, TypeOK
  <2>3. EvenOffsets /\ pc % 2 = 0 => (pc + I.imm) % 2 = 0 /\ (pc + 4) % 2 = 0
    <3> SUFFICES ASSUME EvenOffsets, pc % 2 = 0
                 PROVE  (pc + I.imm) % 2 = 0 /\ (pc + 4) % 2 = 0
      OBVIOUS
    <3>1. (pc + I.imm) % 2 = 0
      BY <2>2, EvenSum
    <3>2. (pc + 4) % 2 = 0
      BY EvenSum
    <3> QED
      BY <3>1, <3>2
  <2>4. EvenOffsets /\ pc % 2 = 0 => next % 2 = 0
    BY <2>3
  <2> QED
    BY <1>1, <1>2, <1>12, <2>1, <2>4 DEF ExecBranch, Executing, Retired
<1>13. CASE ExecEcall
  BY <1>1, <1>13 DEF ExecEcall, Executing, Retired
<1>14. CASE ExecCsr
  <2>1. gpr' \in [Reg -> Word]
    BY <1>1, <1>14, WriteType DEF ExecCsr
  <2> QED
    BY <1>1, <1>14, <2>1, AdvanceRetires DEF ExecCsr, Executing
<1>15. CASE ExecUnknown \/ ExecAbort \/ ExecFault
  BY <1>15 DEF ExecUnknown, ExecAbort, ExecFault, Died
<1> QED
  BY <1>3, <1>4, <1>5, <1>6, <1>7, <1>8, <1>9, <1>10, <1>11, <1>12, <1>13,
     <1>14, <1>15 DEF Execute

-----------------------------------------------------------------------------
(***************************************************************************)
(* The inductive invariant.  ServedBeforeExec and RequestIsFresh need one  *)
(* another; StopsExactly needs to know that an iteration in progress was   *)
(* entered below both limits, and the refinement that brk is clear until   *)
(* the look at tohost.                                                     *)
(***************************************************************************)
InIteration ==
  /\ at \in {"poll", "exec"} => icnt < maxicnt /\ icnt < dumpIcnt
  /\ at = "poll" => brk = 0

IInv ==
  /\ TypeOK
  /\ ServedBeforeExec
  /\ RequestIsFresh
  /\ InIteration
  /\ StopsExactly
  /\ PcEven

LEMMA InitIInv == Init => IInv
<1> SUFFICES ASSUME Init PROVE IInv
  OBVIOUS
<1>1. TypeOK
  BY Machine, Sizes DEF Init, TypeOK, Word, StdFds
<1>2. ServedBeforeExec /\ RequestIsFresh /\ InIteration
  BY DEF Init, ServedBeforeExec, RequestIsFresh, InIteration
<1>3. StopsExactly
  BY Machine DEF Init, StopsExactly
<1>4. PcEven
  BY DEF Init, PcEven, EvenOffsets
<1> QED
  BY <1>1, <1>2, <1>3, <1>4 DEF IInv

\* The word fetched is a word.
LEMMA FetchType ==
  ASSUME TypeOK, Fetch
  PROVE  inst' \in Word
<1>1. PICK v \in Views(mem, pc, 4) : inst' = LoadWord(v, pc)
  BY DEF Fetch
<1>2. \A k \in 0 .. 3 : v[pc + k] \in Byte
  BY ViewBytes DEF TypeOK, Slack
<1> QED
  BY <1>1, <1>2, LoadWordType DEF TypeOK, Word

LEMMA NextIInv ==
  ASSUME IInv, [Next]_vars
  PROVE  IInv'
<1> USE DEF IInv
<1>1. CASE UNCHANGED vars
  BY <1>1 DEF vars, Options, TypeOK, ServedBeforeExec, RequestIsFresh, InIteration,
              StopsExactly, PcEven, Tohost, I, Ended
<1>2. CASE Fetch
  <2>1. TypeOK'
    BY <1>2, FetchType DEF Fetch, TypeOK, Options
  <2>2. ServedBeforeExec' /\ RequestIsFresh'
    BY <1>2 DEF Fetch, ServedBeforeExec, RequestIsFresh
  <2>3. InIteration' /\ StopsExactly'
    BY <1>2 DEF Fetch, Running, InIteration, StopsExactly, Options
  <2>4. PcEven'
    BY <1>2 DEF Fetch, PcEven
  <2> QED
    BY <2>1, <2>2, <2>3, <2>4
<1>3. CASE Return
  <2>1. TypeOK'
    BY <1>3 DEF Return, TypeOK, Options, Ended
  <2>2. ServedBeforeExec' /\ RequestIsFresh' /\ InIteration'
    BY <1>3 DEF Return, ServedBeforeExec, RequestIsFresh, InIteration, Tohost, I
  <2>3. StopsExactly'
    BY <1>3 DEF Return, Running, StopsExactly, Options, TypeOK
  <2>4. PcEven'
    BY <1>3 DEF Return, PcEven
  <2> QED
    BY <2>1, <2>2, <2>3, <2>4
<1>4. CASE PollIdle \/ PollExit
  <2>1. TypeOK'
    BY <1>4 DEF PollIdle, PollExit, ToExec, TypeOK, Options
  <2>2. ServedBeforeExec' /\ RequestIsFresh'
    BY <1>4 DEF PollIdle, PollExit, ToExec, ServedBeforeExec, RequestIsFresh, Tohost
  <2>3. InIteration' /\ StopsExactly'
    BY <1>4 DEF PollIdle, PollExit, ToExec, InIteration, StopsExactly, Options
  <2>4. PcEven'
    BY <1>4 DEF PollIdle, PollExit, ToExec, PcEven
  <2> QED
    BY <2>1, <2>2, <2>3, <2>4
<1>5. CASE Answered
  <2>1. PICK m \in Memories : mem' = Ack(m)
    BY <1>5 DEF Answered
  <2>2. TypeOK'
    BY <1>5, <2>1, AckCells DEF Answered, ToExec, TypeOK, Options
  <2>3. ServedBeforeExec' /\ RequestIsFresh'
    BY <1>5, <2>1, AckCells DEF Answered, ToExec, ServedBeforeExec, RequestIsFresh, Tohost
  <2>4. InIteration' /\ StopsExactly'
    BY <1>5 DEF Answered, ToExec, InIteration, StopsExactly, Options
  <2>5. PcEven'
    BY <1>5 DEF Answered, ToExec, PcEven
  <2> QED
    BY <2>2, <2>3, <2>4, <2>5
<1>6. CASE Retired
  <2>1. PICK next \in Int : Retire(next) /\ (EvenOffsets /\ pc % 2 = 0 => next % 2 = 0)
    BY <1>6 DEF Retired
  <2>2. TypeOK'
    BY <1>6, <2>1, ToWordType DEF Retired, Retire, TypeOK, Options
  <2>3. ServedBeforeExec' /\ InIteration'
    BY <2>1 DEF Retire, ServedBeforeExec, InIteration
  <2>4. RequestIsFresh'
    BY <1>6, <2>1 DEF Retired, Retire, ServedBeforeExec, RequestIsFresh, Tohost, I, TypeOK
  <2>5. StopsExactly'
    BY <1>6, <2>1 DEF Retired, Retire, InIteration, StopsExactly, Options, TypeOK
  <2>6. PcEven'
    BY <2>1, ToWordEven DEF Retire, PcEven
  <2> QED
    BY <2>2, <2>3, <2>4, <2>5, <2>6
<1>7. CASE Died
  <2>1. PICK how \in {"exited", "aborted", "faulted"} : Die(how)
    BY <1>7 DEF Died
  <2>2. TypeOK'
    BY <2>1 DEF Die, TypeOK, Options, Ended
  <2>3. ServedBeforeExec' /\ RequestIsFresh' /\ InIteration'
    BY <2>1 DEF Die, ServedBeforeExec, RequestIsFresh, InIteration
  <2>4. StopsExactly' /\ PcEven'
    BY <2>1 DEF Die, StopsExactly, PcEven, Options
  <2> QED
    BY <2>2, <2>3, <2>4
<1>8. FetchFault => Died
  BY DEF FetchFault, Died
<1> QED
  BY <1>1, <1>2, <1>3, <1>4, <1>5, <1>6, <1>7, <1>8, SyscallOutcome, ExecuteOutcome DEF Next

\* The inductive invariant holds in every reachable state.
THEOREM Invariance == Spec => []IInv
  BY InitIInv, NextIInv, PTL DEF Spec

\* Every variable keeps the type of its counterpart in the program.
THEOREM TypeCorrect == Spec => []TypeOK
  BY Invariance, PTL DEF IInv

\* No guest instruction executes while a request is pending.
THEOREM ServedFirst == Spec => []ServedBeforeExec
  BY Invariance, PTL DEF IInv

\* A request the loop finds was stored by the last instruction, so it has not
\* been served before.
THEOREM Fresh == Spec => []RequestIsFresh
  BY Invariance, PTL DEF IInv

\* The loop stops at the lower of its two limits, or where the guest stopped.
THEOREM ExactStop == Spec => []StopsExactly
  BY Invariance, PTL DEF IInv

\* With even branch and jump offsets pc stays even, whatever jalr adds up.
THEOREM EvenPc == Spec => []PcEven
  BY Invariance, PTL DEF IInv

-----------------------------------------------------------------------------
(* One register per instruction.                                           *)

LEMMA WriteOne ==
  ASSUME TypeOK, NEW q, NEW x, Write(q, x), NEW r \in Reg, gpr'[r] # gpr[r]
  PROVE  r = q
  BY DEF TypeOK, Write

LEMMA NextOneDestination ==
  ASSUME TypeOK, [Next]_vars, NEW r \in Reg, gpr'[r] # gpr[r]
  PROVE  at = "exec" /\ r = I.rd /\ (r = 0 => I.op = "system" /\ ReadsCycle)
<1>1. ~UNCHANGED gpr
  OBVIOUS
<1>2. ~Died /\ ~Answered
  BY <1>1 DEF Died, Die, Answered, ToExec
<1>3. Execute
  BY <1>1, <1>2, SyscallOutcome
     DEF Next, vars, Fetch, FetchFault, Died, Return, PollIdle, PollExit, ToExec
<1>4. \/ ExecLoad \/ ExecOpImm \/ ExecLui \/ ExecAuipc \/ ExecJalr \/ ExecJal
      \/ ExecOp \/ ExecCsr
  BY <1>1, <1>2, <1>3 DEF Execute, ExecFence, ExecStore, ExecBranch, ExecEcall,
     ExecUnknown, ExecAbort, ExecFault, Died
<1>5. at = "exec" /\ \E x : Write(I.rd, x)
  BY <1>1, <1>4 DEF ExecLoad, ExecOpImm, ExecLui, ExecAuipc, ExecJalr, ExecJal,
     ExecOp, ExecCsr, Executing, WriteUnlessZero
<1>6. r = I.rd
  BY <1>5, WriteOne
<1>7. I.rd = 0 => I.op = "system" /\ ReadsCycle
  BY <1>1, <1>4 DEF ExecLoad, ExecOpImm, ExecLui, ExecAuipc, ExecJalr, ExecJal,
     ExecOp, ExecCsr, Executing, WriteUnlessZero
<1> QED
  BY <1>5, <1>6, <1>7

\* A step changes the register rd names and no other; x0 only by rdcycle.
THEOREM OneRegister == Spec => OneDestination
<1>1. TypeOK /\ [Next]_vars =>
        [\A r \in Reg : gpr'[r] # gpr[r] =>
            /\ at = "exec"
            /\ r = I.rd
            /\ r = 0 => I.op = "system" /\ ReadsCycle]_vars
  BY NextOneDestination
<1> QED
  BY <1>1, TypeCorrect, PTL DEF Spec, OneDestination

-----------------------------------------------------------------------------
(* What a call leaves alone.                                               *)

LEMMA TohostType == ASSUME TypeOK PROVE Tohost \in Word /\ Tohost \in Int
  BY MailboxTypes DEF TypeOK, Tohost, Word

LEMMA AckKeeps ==
  ASSUME NEW m \in Memories, NEW i \in Word,
         i \notin Cell(TohostAddr) \cup Cell(FromhostAddr)
  PROVE  Ack(m)[i] = m[i]
<1> DEFINE z == Store(m, TohostAddr, 8, 0)
<1>1. z \in Memories /\ z[i] = m[i]
  BY Mailbox, StoreType, StoredElsewhere DEF Cell, Word
<1>2. Store(z, FromhostAddr, 8, 1)[i] = z[i]
  <2> HIDE DEF z
  <2> QED
    BY <1>1, Mailbox, StoredElsewhere DEF Cell
<1> QED
  BY <1>1, <1>2 DEF Ack

LEMMA ReplyKeeps ==
  ASSUME TypeOK, NEW m \in Memories, NEW r \in Int, NEW i \in Word,
         i \notin Cell(Tohost)
  PROVE  Reply(m, r)[i] = m[i]
  BY TohostType, StoredElsewhere DEF Reply, Cell

LEMMA FillKeeps ==
  ASSUME NEW m \in Memories, NEW a \in Int, NEW offs \in SUBSET Int, NEW x,
         NEW i \in Word, i \notin At(a, offs)
  PROVE  Fill(m, a, offs, x)[i] = m[i]
<1>1. i - a \notin offs
  <2> SUFFICES ASSUME i - a \in offs PROVE i \in At(a, offs)
    OBVIOUS
  <2>1. i = a + (i - a)
    BY DEF Word
  <2> QED
    BY <2>1 DEF At
<1> QED
  BY <1>1 DEF Fill

\* A memory with the result stored and acknowledged is not changed by doing so
\* again: the result read back is the one the call returned.
LEMMA ReplyAgain ==
  ASSUME TypeOK, NEW m \in Memories, NEW r \in Int
  PROVE  Ack(Reply(Ack(Reply(m, r)), r)) = Ack(Reply(m, r))
<1> DEFINE S(f, a, x) == [i \in Word |-> IF i - a \in 0 .. 7 THEN ByteOf(x, i - a) ELSE f[i]]
<1>1. \A f, a, x : Store(f, a, 8, x) = S(f, a, x)
  BY DEF Store
<1>2. \A f : Ack(Reply(f, r)) = S(S(S(f, Tohost, r), TohostAddr, 0), FromhostAddr, 1)
  BY <1>1 DEF Ack, Reply
<1>3. \A f : Ack(Reply(f, r)) =
        [i \in Word |-> IF i - FromhostAddr \in 0 .. 7 THEN ByteOf(1, i - FromhostAddr)
                       ELSE IF i - TohostAddr \in 0 .. 7 THEN ByteOf(0, i - TohostAddr)
                       ELSE IF i - Tohost \in 0 .. 7 THEN ByteOf(r, i - Tohost)
                       ELSE f[i]]
  BY <1>2
<1> QED
  BY <1>3

LEMMA BufTypes ==
  ASSUME TypeOK, Requested
  PROVE  Buf # {} /\ \A v \in Buf : Arg(v, 1) \in Nat /\ Arg(v, 2) \in Nat
<1>1. Buf = Views(mem, Tohost, 32) /\ 0 \in Byte
  BY ByteBase DEF Buf, Byte
<1>2. Buf # {}
  BY <1>1 DEF Views
<1>3. ASSUME NEW v \in Buf, NEW k \in 1 .. 2 PROVE Arg(v, k) \in Nat
  <2>1. \A o \in 0 .. 31 : v[Tohost + o] \in Byte
    BY <1>1, <1>3, TohostType, ViewBytes DEF TypeOK, Slack
  <2>2. \A o \in 0 .. 7 : v[(Tohost + 8 * k) + o] \in Byte
    <3>1. \A o \in 0 .. 7 : /\ (Tohost + 8 * k) + o = Tohost + (8 * k + o)
                          /\ 8 * k + o \in 0 .. 31
      BY TohostType
    <3> QED
      BY <2>1, <3>1
  <2>3. LoadDword(v, Tohost + 8 * k) \in 0 .. WordSize * WordSize - 1
    BY <2>2, TohostType, LoadDwordType
  <2> QED
    BY <2>3 DEF Arg
<1> QED
  BY <1>2, <1>3

LEMMA ServedFootprint ==
  ASSUME TypeOK, NEW v \in Buf, NEW r \in -1 .. MaxIO,
         NEW m \in Memories, NEW n \in Int,
         \A a \in Word : m[a] # mem[a] => a \in Footprint(v, r),
         mem' = Ack(m) \/ mem' = Ack(Reply(m, n))
  PROVE  \A a \in Word : mem'[a] # mem[a] => a \in Footprint(v, r)
<1> SUFFICES ASSUME NEW a \in Word, a \notin Footprint(v, r) PROVE mem'[a] = mem[a]
  OBVIOUS
<1>1. m[a] = mem[a] /\ a \notin Cell(Tohost) \cup Cell(TohostAddr) \cup Cell(FromhostAddr)
  BY DEF Footprint
<1>2. Reply(m, n) \in Memories /\ Reply(m, n)[a] = m[a]
  BY <1>1, ReplyType, ReplyKeeps DEF TypeOK
<1> QED
  BY <1>1, <1>2, AckKeeps

LEMMA SyscallFootprint ==
  ASSUME TypeOK, Requested, Syscall
  PROVE  \E v \in Buf, r \in -1 .. MaxIO :
           /\ mem' # mem /\ Arg(v, 0) = SYS_read => mem' = Ack(Reply(mem', r))
           /\ \A a \in Word : mem'[a] # mem[a] => a \in Footprint(v, r)
           /\ mem' = mem \/ Writable(Footprint(v, r))
<1> DEFINE Three == Cell(Tohost) \cup Cell(TohostAddr) \cup Cell(FromhostAddr)
<1>1. mem \in Memories /\ -1 \in -1 .. MaxIO /\ 0 \in Byte
  BY Machine, ByteBase DEF TypeOK, Byte
<1>args. \A v \in Buf : Arg(v, 1) \in Int /\ Arg(v, 2) \in Int
  BY BufTypes
<1>w. /\ \A v \in Buf, r \in -1 .. MaxIO :
           Writable(Three) /\ Writable(Structures(v)) /\ Writable(ReadBytes(v, r))
             => Writable(Footprint(v, r))
      /\ \A v, r : Arg(v, 0) # SYS_read => Writable(ReadBytes(v, r))
  BY DEF Footprint, Writable, ReadBytes
<1>2. ASSUME NEW v \in Buf, NEW n \in Int, Arg(v, 0) # SYS_read,
             mem' = Ack(Reply(mem, n)), Writable(Three), Writable(Structures(v))
      PROVE  /\ \A a \in Word : mem'[a] # mem[a] => a \in Footprint(v, -1)
             /\ Writable(Footprint(v, -1))
  BY <1>1, <1>2, <1>w, ServedFootprint
<1>3. \A n : \A v \in Asking(n) : v \in Buf /\ Arg(v, 0) = n
  BY DEF Asking
<1>s. \A n : \A v \in Asking(n) : Writable(Structures(v))
  BY DEF Asking
<1>4. /\ SYS_write # SYS_read /\ SYS_open # SYS_read /\ SYS_close # SYS_read
      /\ SYS_lseek # SYS_read /\ SYS_stat # SYS_read /\ SYS_fstat # SYS_read
      /\ SYS_gettimeofday # SYS_read /\ SYS_times # SYS_read
  BY DEF SYS_write, SYS_read, SYS_open, SYS_close, SYS_lseek, SYS_stat, SYS_fstat,
         SYS_gettimeofday, SYS_times
<1>5. CASE SysWrite
  <2>1. PICK v \in Asking(SYS_write), n \in Int :
          mem' = Ack(Reply(mem, n)) /\ Writable(Three)
    BY <1>5, Machine DEF SysWrite, Transferred, Complete
  <2> QED
    BY <1>1, <1>2, <1>3, <1>4, <1>s, <2>1
<1>6. CASE SysOpen
  <2>1. PICK v \in Asking(SYS_open), n \in Int :
          mem' = Ack(Reply(mem, n)) /\ Writable(Three)
    BY <1>6, Machine DEF SysOpen, Complete
  <2> QED
    BY <1>1, <1>2, <1>3, <1>4, <1>s, <2>1
<1>7. CASE SysClose
  <2>1. PICK v \in Asking(SYS_close), n \in Int :
          mem' = Ack(Reply(mem, n)) /\ Writable(Three)
    BY <1>7 DEF SysClose, Status, Complete
  <2> QED
    BY <1>1, <1>2, <1>3, <1>4, <1>s, <2>1
<1>8. CASE SysRead
  <2>1. PICK v \in Asking(SYS_read) : \E r \in Transferred(Fd(v), Arg(v, 3)), x \in Byte :
          /\ mem' = Ack(Reply(Fill(mem, Arg(v, 2), Filled(r), x), r))
          /\ Writable(Three) /\ Writable(At(Arg(v, 2), Filled(r)))
    BY <1>8 DEF SysRead, Complete
  <2>2. PICK r \in Transferred(Fd(v), Arg(v, 3)), x \in Byte :
          /\ mem' = Ack(Reply(Fill(mem, Arg(v, 2), Filled(r), x), r))
          /\ Writable(Three) /\ Writable(At(Arg(v, 2), Filled(r)))
    BY <2>1
  <2> DEFINE m == Fill(mem, Arg(v, 2), Filled(r), x)
  <2>3. v \in Buf /\ Arg(v, 0) = SYS_read /\ r \in -1 .. MaxIO /\ r \in Int
    BY <1>1, <1>3, Machine DEF Transferred
  <2>4. m \in Memories
    BY <1>1, FillType
  <2>5. \A a \in Word : m[a] # mem[a] => a \in Footprint(v, r)
    <3>1. At(Arg(v, 2), Filled(r)) \subseteq Footprint(v, r) /\ Filled(r) \subseteq Int
      BY <2>3 DEF Filled, Footprint, ReadBytes
    <3>2. \A a \in Word : a \notin At(Arg(v, 2), Filled(r)) => m[a] = mem[a]
      BY <1>1, <1>3, <1>args, <3>1, FillKeeps
    <3> QED
      BY <3>1, <3>2
  <2> HIDE DEF m
  <2>6. mem' = Ack(Reply(m, r))
    BY <2>2 DEF m
  <2>7. mem' = Ack(Reply(mem', r))
    BY <2>3, <2>4, <2>6, ReplyAgain
  <2>8. \A a \in Word : mem'[a] # mem[a] => a \in Footprint(v, r)
    BY <2>3, <2>4, <2>5, <2>6, ServedFootprint
  <2>9. Writable(Footprint(v, r))
    <3>1. Writable(ReadBytes(v, r))
      BY <2>2, <2>3 DEF ReadBytes, Filled
    <3> QED
      BY <1>3, <1>s, <1>w, <2>2, <2>3, <3>1
  <2> QED
    BY <2>3, <2>7, <2>8, <2>9
<1>9. CASE SysLseek
  <2>1. PICK v \in Asking(SYS_lseek), n \in Int :
          mem' = Ack(Reply(mem, n)) /\ Writable(Three)
    BY <1>9, Machine DEF SysLseek, Offsets, Complete
  <2> QED
    BY <1>1, <1>2, <1>3, <1>4, <1>s, <2>1
<1>10. CASE SysFstat
  <2>1. PICK v \in Asking(SYS_fstat), n \in {-1, 0}, x \in Byte :
          mem' = Ack(Reply(Fill(Fill(mem, Arg(v, 2), StatFields, x),
                                Arg(v, 2), StatZeros, 0), n)) /\ Writable(Three)
    BY <1>10 DEF SysFstat, Status, Complete
  <2> DEFINE f == Fill(mem, Arg(v, 2), StatFields, x)
             m == Fill(f, Arg(v, 2), StatZeros, 0)
  <2>2. f \in Memories /\ m \in Memories
    BY <1>1, FillType
  <2>3. \A a \in Word : a \notin Structures(v) => f[a] = mem[a] /\ m[a] = f[a]
    <3>1. /\ At(Arg(v, 2), StatFields) \subseteq Structures(v)
          /\ At(Arg(v, 2), StatZeros) \subseteq Structures(v)
      <4>1. Structures(v) = At(Arg(v, 2), StatFields \cup StatZeros)
        BY <1>3 DEF Structures, SYS_fstat, SYS_times, SYS_gettimeofday
      <4> QED
        BY <4>1 DEF At
    <3>2. \A a \in Word : a \notin At(Arg(v, 2), StatFields) => f[a] = mem[a]
      BY <1>1, <1>3, <1>args, FillKeeps DEF StatFields
    <3>3. \A a \in Word : a \notin At(Arg(v, 2), StatZeros) => m[a] = f[a]
      <4> HIDE DEF f
      <4> QED
        BY <1>3, <1>args, <2>2, FillKeeps DEF StatZeros
    <3> QED
      BY <3>1, <3>2, <3>3
  <2>4. \A a \in Word : m[a] # mem[a] => a \in Footprint(v, -1)
    BY <2>3 DEF Footprint
  <2> HIDE DEF m
  <2>5. mem' = Ack(Reply(m, n))
    BY <2>1 DEF m
  <2> QED
    BY <1>1, <1>3, <1>4, <1>s, <1>w, <2>1, <2>2, <2>4, <2>5, ServedFootprint
<1>11. CASE SysStat
  <2>1. PICK v \in Asking(SYS_stat) : mem' = Ack(Reply(mem, 0)) /\ Writable(Three)
    BY <1>11 DEF SysStat, Complete
  <2> QED
    BY <1>1, <1>2, <1>3, <1>4, <1>s, <2>1
<1>12. CASE SysGettimeofday
  <2>1. PICK v \in Asking(SYS_gettimeofday), x \in Byte, y \in Byte :
          mem' = Ack(Reply(Fill(Fill(mem, Arg(v, 1), 0 .. 15, x),
                                Arg(v, 2), 0 .. 7, y), 0)) /\ Writable(Three)
    BY <1>12 DEF SysGettimeofday, Complete
  <2> DEFINE f == Fill(mem, Arg(v, 1), 0 .. 15, x)
             m == Fill(f, Arg(v, 2), 0 .. 7, y)
  <2>2. f \in Memories /\ m \in Memories
    BY <1>1, FillType
  <2>3. \A a \in Word : a \notin Structures(v) => f[a] = mem[a] /\ m[a] = f[a]
    <3>1. /\ At(Arg(v, 1), 0 .. 15) \subseteq Structures(v)
          /\ At(Arg(v, 2), 0 .. 7) \subseteq Structures(v)
      BY <1>3 DEF Structures, SYS_gettimeofday, SYS_fstat, SYS_times
    <3>2. \A a \in Word : a \notin At(Arg(v, 1), 0 .. 15) => f[a] = mem[a]
      BY <1>1, <1>3, <1>args, FillKeeps DEF StatFields
    <3>3. \A a \in Word : a \notin At(Arg(v, 2), 0 .. 7) => m[a] = f[a]
      <4> HIDE DEF f
      <4> QED
        BY <1>3, <1>args, <2>2, FillKeeps DEF StatZeros
    <3> QED
      BY <3>1, <3>2, <3>3
  <2>4. \A a \in Word : m[a] # mem[a] => a \in Footprint(v, -1)
    BY <2>3 DEF Footprint
  <2> HIDE DEF m
  <2>5. mem' = Ack(Reply(m, 0))
    BY <2>1 DEF m
  <2> QED
    BY <1>1, <1>3, <1>4, <1>s, <1>w, <2>1, <2>2, <2>4, <2>5, ServedFootprint
<1>13. CASE SysTimes
  <2>1. PICK v \in Asking(SYS_times), n \in HostValues, x \in Byte :
          mem' = Ack(Fill(Reply(mem, n), Arg(v, 1), 0 .. 15, x)) /\ Writable(Three)
    BY <1>13 DEF SysTimes, Complete
  <2> DEFINE f == Reply(mem, n)
             m == Fill(f, Arg(v, 1), 0 .. 15, x)
  <2>2. f \in Memories /\ m \in Memories /\ n \in Int
    BY <1>1, Machine, ReplyType, FillType
  <2>3. \A a \in Word : a \notin Footprint(v, -1) => f[a] = mem[a] /\ m[a] = f[a]
    <3>1. At(Arg(v, 1), 0 .. 15) \subseteq Structures(v)
      BY <1>3 DEF Structures, SYS_fstat, SYS_times
    <3>2. \A a \in Word : a \notin Cell(Tohost) => f[a] = mem[a]
      BY <1>1, <2>2, ReplyKeeps
    <3>3. \A a \in Word : a \notin At(Arg(v, 1), 0 .. 15) => m[a] = f[a]
      <4> HIDE DEF f
      <4> QED
        BY <1>3, <1>args, <2>2, FillKeeps DEF StatZeros
    <3> QED
      BY <3>1, <3>2, <3>3 DEF Footprint
  <2>4. \A a \in Word : m[a] # mem[a] => a \in Footprint(v, -1)
    BY <2>3
  <2> HIDE DEF m
  <2>5. mem' = Ack(m)
    BY <2>1 DEF m
  <2> QED
    BY <1>1, <1>3, <1>4, <1>s, <1>w, <2>1, <2>2, <2>4, <2>5, ServedFootprint
<1>14. CASE SysUnsupported \/ SysFault
  BY <1>1, <1>14, BufTypes DEF SysUnsupported, SysFault, Die
<1> QED
  BY <1>5, <1>6, <1>7, <1>8, <1>9, <1>10, <1>11, <1>12, <1>13, <1>14 DEF Syscall

\* A served call writes its result, its structure, the mailbox and, for read,
\* the bytes it reports; nothing else.
THEOREM Footprints == Spec => CallFootprint
<1>1. TypeOK /\ [Next]_vars =>
        [Requested =>
           \E v \in Buf, r \in -1 .. MaxIO :
             /\ mem' # mem /\ Arg(v, 0) = SYS_read => mem' = Ack(Reply(mem', r))
             /\ \A a \in Word : mem'[a] # mem[a] => a \in Footprint(v, r)]_vars
  <2>1. Requested /\ Next => Syscall
    BY DEF Requested, Next, Fetch, FetchFault, Return, PollIdle, PollExit, ToExec,
       Execute, ExecLoad, ExecFence, ExecOpImm, ExecStore, ExecLui, ExecAuipc, ExecJalr,
       ExecJal, ExecOp, ExecBranch, ExecEcall, ExecCsr, ExecUnknown, ExecAbort,
       ExecFault, Executing
  <2> QED
    BY <2>1, SyscallFootprint
<1> QED
  BY <1>1, TypeCorrect, PTL DEF Spec, CallFootprint

-----------------------------------------------------------------------------
(* The standard streams.                                                   *)

LEMMA NextStdStreams ==
  ASSUME TypeOK, [Next]_vars, NEW f \in StdFds, f \in fds, f \notin fds'
  PROVE  \E v \in Buf : Arg(v, 0) = SYS_close /\ Arg(v, 1) >= WordSize
<1>1. ~UNCHANGED fds
  OBVIOUS
<1>2. ~Died /\ ~Retired
  BY <1>1 DEF Died, Die, Retired, Retire
<1>3. Syscall
  BY <1>1, <1>2, ExecuteOutcome
     DEF Next, vars, Fetch, FetchFault, Died, Return, PollIdle, PollExit
<1>4. SysClose
  BY <1>1, <1>2, <1>3 DEF Syscall, SysWrite, SysOpen, SysRead, SysLseek, SysFstat,
     SysStat, SysGettimeofday, SysTimes, SysUnsupported, SysFault, Died, Complete
<1>5. PICK v \in Asking(SYS_close) : Closes(v) /\ fds' = fds \ {Fd(v)}
  BY <1>1, <1>4 DEF SysClose, Complete
<1>6. v \in Buf /\ Arg(v, 0) = SYS_close /\ Requested
  BY <1>5 DEF Asking, Buf
<1>7. Arg(v, 1) \in Nat /\ Arg(v, 1) > 2
  BY <1>5, <1>6, BufTypes DEF Closes
<1>8. Fd(v) \in {0, 1, 2}
  BY <1>5 DEF StdFds
<1>9. Arg(v, 1) < WordSize => Fd(v) = Arg(v, 1)
  BY <1>7, Sizes DEF Fd, ToWord
<1>10. Arg(v, 1) >= WordSize
  BY <1>7, <1>8, <1>9, Sizes
<1> QED
  BY <1>6, <1>10

\* Only an argument wider than an int closes 0, 1 or 2.
THEOREM StdStreams == Spec => StdStreamsStay
<1>1. TypeOK /\ [Next]_vars =>
        [\A f \in StdFds : f \in fds /\ f \notin fds' =>
           \E v \in Buf : Arg(v, 0) = SYS_close /\ Arg(v, 1) >= WordSize]_vars
  BY NextStdStreams
<1> QED
  BY <1>1, TypeCorrect, PTL DEF Spec, StdStreamsStay

-----------------------------------------------------------------------------
(* The refinement: Interp implements HtifPort.                             *)

LEMMA InitPort == Init => Port!Init
<1> SUFFICES ASSUME Init PROVE Port!Init
  OBVIOUS
<1>1. mem \in Memories
  BY Machine DEF Init
<1>2. Tohost \in Word /\ Fromhost \in 0 .. WordSize * WordSize - 1
  BY <1>1, MailboxTypes DEF Tohost, Fromhost
<1> QED
  BY <1>2 DEF Init, Port!Init, Turn

LEMMA NextPort ==
  ASSUME IInv, [Next]_vars
  PROVE  [Port!Next]_(Port!portVars)
<1>1. TypeOK /\ InIteration
  BY DEF IInv
<1>2. CASE UNCHANGED vars \/ Fetch
  BY <1>2 DEF vars, Fetch, Port!portVars, Turn, Tohost, Fromhost
<1>3. CASE Return \/ Died
  <2>1. Turn' = "off" /\ UNCHANGED <<Tohost, Fromhost, brk>>
    BY <1>3 DEF Return, Died, Die, Turn, Tohost, Fromhost
  <2> QED
    BY <2>1 DEF Port!Next, Port!Off
<1>4. CASE PollIdle
  BY <1>1, <1>4 DEF PollIdle, ToExec, InIteration, Turn, Tohost, Fromhost,
     Port!Next, Port!Idle, Port!Host
<1>5. CASE PollExit
  BY <1>1, <1>5 DEF PollExit, ToExec, InIteration, Turn, Tohost, Fromhost,
     Port!Next, Port!Halt, Port!Host
<1>6. CASE Answered
  <2>1. Tohost' = 0 /\ Fromhost' = 1
    BY <1>6, AckCells DEF Answered, Tohost, Fromhost
  <2> QED
    BY <1>1, <1>6, <2>1 DEF Answered, ToExec, InIteration, Turn,
       Port!Next, Port!Answer, Port!Host
<1>7. CASE Retired
  <2>1. Tohost' \in Word /\ Fromhost' \in 0 .. WordSize * WordSize - 1
    BY <1>7, MailboxTypes DEF Retired, Tohost, Fromhost
  <2>2. Turn = "guest" /\ Turn' = "host"
    BY <1>7 DEF Retired, Retire, Turn
  <2>3. (brk = 1)' \in {brk = 1, TRUE}
    BY <1>7 DEF Retired
  <2> QED
    BY <2>1, <2>2, <2>3 DEF Port!Next, Port!Instruction
<1>8. FetchFault => Died
  BY DEF FetchFault, Died
<1> QED
  BY <1>1, <1>2, <1>3, <1>4, <1>5, <1>6, <1>7, <1>8, SyscallOutcome, ExecuteOutcome DEF Next

\* Every run of the interpreter is a run of the abstract port: one look of the
\* host, then one instruction, and a request never outlives the look.
THEOREM Refinement == Spec => ImplementsPort
  BY InitPort, NextPort, Invariance, PTL DEF Spec, ImplementsPort, Port!Spec

-----------------------------------------------------------------------------
(* What load_elf has protected stays as it is.                             *)

Untouched == \A a \in ReadOnly : mem'[a] = mem[a]

\* A store that is executed meets no protected byte.
LEMMA StoreKeepsText ==
  ASSUME TypeOK, ExecStore
  PROVE  Untouched
<1>1. mem \in Memories /\ ReadOnly \subseteq Word
  BY Machine DEF TypeOK
<1>2. StoreWidth[I.sel] \in {1, 2, 4}
  BY DEF ExecStore, StoreWidth
<1>3. Ea \in Int
  BY OperandTypes, ToWordType DEF ExecStore, Executing, Ea, Word
<1>4. SUFFICES ASSUME NEW a \in ReadOnly PROVE mem'[a] = mem[a]
  BY DEF Untouched
<1>5. a \in Word /\ a \in Int /\ a \notin Stored
  BY <1>1 DEF ExecStore, Writable, Word
<1>6. ~(a - Ea \in 0 .. StoreWidth[I.sel] - 1)
  BY <1>2, <1>3, <1>5 DEF Stored
<1> QED
  BY <1>1, <1>5, <1>6 DEF ExecStore, Store

LEMMA NextUntouched ==
  ASSUME TypeOK, [Next]_vars
  PROVE  Untouched
<1>1. ReadOnly \subseteq Word
  BY Machine
<1>2. CASE Syscall
  <2>1. PICK v \in Buf, r \in -1 .. MaxIO :
          /\ \A a \in Word : mem'[a] # mem[a] => a \in Footprint(v, r)
          /\ mem' = mem \/ Writable(Footprint(v, r))
    <3>1. CASE Requested
      BY <1>2, <3>1, SyscallFootprint
    <3>2. CASE ~Requested
      BY <1>2, <3>2 DEF Syscall, SysWrite, SysOpen, SysClose, SysRead, SysLseek, SysFstat,
         SysStat, SysGettimeofday, SysTimes, SysUnsupported, SysFault, Asking, Buf
    <3> QED
      BY <3>1, <3>2
  <2> QED
    BY <1>1, <2>1 DEF Untouched, Writable
<1>3. CASE ExecStore
  BY <1>3, StoreKeepsText
<1>4. CASE UNCHANGED mem
  BY <1>4 DEF Untouched
<1>5. Execute => ExecStore \/ UNCHANGED mem
  BY DEF Execute, ExecLoad, ExecFence, ExecOpImm, ExecLui, ExecAuipc, ExecJalr, ExecJal, ExecOp,
     ExecBranch, ExecEcall, ExecCsr, ExecUnknown, ExecAbort, ExecFault, Die
<1>6. Fetch \/ FetchFault \/ Return \/ PollIdle \/ PollExit \/ UNCHANGED vars => UNCHANGED mem
  BY DEF Fetch, FetchFault, Return, PollIdle, PollExit, Die, vars
<1> QED
  BY <1>2, <1>3, <1>4, <1>5, <1>6 DEF Next

\* Neither an instruction nor any of the nine calls changes a byte that load_elf
\* has protected: the result and the acknowledgement, which handle_syscall stores
\* wherever the guest has put the request, included.
THEOREM ProtectedStays == Spec => [][\A a \in ReadOnly : mem'[a] = mem[a]]_vars
<1>1. TypeOK /\ [Next]_vars => [\A a \in ReadOnly : mem'[a] = mem[a]]_vars
  BY NextUntouched DEF Untouched
<1> QED
  BY <1>1, TypeCorrect, PTL DEF Spec

-----------------------------------------------------------------------------
(* How long a run can be.                                                  *)

\* Steps a run has left at most: three for each instruction below the limit and
\* one to return.
StepsLeft ==
  IF at \in Ended THEN 0
  ELSE 3 * (maxicnt - icnt) + (CASE at = "loop" -> 1 [] at = "poll" -> 0 [] at = "exec" -> -1)

LEMMA NextPoint == Next => at \in {"loop", "poll", "exec"}
<1>1. Syscall => at = "poll"
  BY DEF Syscall, SysWrite, SysOpen, SysClose, SysRead, SysLseek, SysFstat, SysStat,
     SysGettimeofday, SysTimes, SysUnsupported, SysFault, Asking, Buf, Requested
<1> QED
  BY <1>1 DEF Next, Fetch, FetchFault, Return, PollIdle, PollExit, ToExec, Execute,
     ExecLoad, ExecFence, ExecOpImm, ExecStore, ExecLui, ExecAuipc, ExecJalr, ExecJal, ExecOp,
     ExecBranch, ExecEcall, ExecCsr, ExecUnknown, ExecAbort, ExecFault, Executing

Nearer == StepsLeft \in Nat /\ StepsLeft' \in Nat /\ StepsLeft' < StepsLeft

LEMMA NextNearer ==
  ASSUME IInv, Next
  PROVE  Nearer
<1> USE DEF Nearer
<1>1. /\ icnt \in Nat /\ maxicnt \in Nat /\ icnt <= maxicnt
      /\ at \in {"poll", "exec"} => icnt < maxicnt
  BY DEF IInv, TypeOK, InIteration, StopsExactly
<1>2. CASE Fetch
  BY <1>1, <1>2 DEF Fetch, Running, StepsLeft, Ended, Options
<1>3. CASE Return \/ Died
  <2>1. at \in {"loop", "poll", "exec"} /\ at' \in Ended
    BY <1>3, NextPoint DEF Return, Died, Die, Ended
  <2> QED
    BY <1>1, <2>1 DEF StepsLeft, Ended
<1>4. CASE PollIdle \/ PollExit \/ Answered
  BY <1>1, <1>4 DEF PollIdle, PollExit, Answered, ToExec, StepsLeft, Ended, Options
<1>5. CASE Retired
  BY <1>1, <1>5 DEF Retired, Retire, StepsLeft, Ended, Options
<1>6. FetchFault => Died
  BY DEF FetchFault, Died
<1> QED
  BY <1>2, <1>3, <1>4, <1>5, <1>6, SyscallOutcome, ExecuteOutcome DEF Next, IInv

\* Every step brings the end nearer: a run has at most three steps for each of
\* maxicnt instructions and one, for no instruction, call or jump escapes the count.
THEOREM RunsAreBounded == Spec => [][Nearer]_vars
<1>1. IInv /\ [Next]_vars => [Nearer]_vars
  BY NextNearer
<1> QED
  BY <1>1, Invariance, PTL DEF Spec

\* The look that finds a request serves it before anything else happens: whatever the
\* number, the arguments and the host's answers, that step stores the acknowledgement
\* or ends the process.
THEOREM AnsweredAtOnce ==
  Spec => [][Requested => (Tohost' = 0 /\ Fromhost' = 1) \/ at' \in Ended]_vars
<1>1. ASSUME TypeOK, [Next]_vars, Requested, ~UNCHANGED vars
      PROVE  (Tohost' = 0 /\ Fromhost' = 1) \/ at' \in Ended
  <2>1. Syscall
    BY <1>1 DEF Next, Requested, Fetch, FetchFault, Return, PollIdle, PollExit, Execute,
       ExecLoad, ExecFence, ExecOpImm, ExecStore, ExecLui, ExecAuipc, ExecJalr, ExecJal, ExecOp,
       ExecBranch, ExecEcall, ExecCsr, ExecUnknown, ExecAbort, ExecFault, Executing
  <2>2. CASE Answered
    BY <2>2, AckCells DEF Answered, Tohost, Fromhost
  <2>3. CASE Died
    BY <2>3 DEF Died, Die, Ended
  <2> QED
    BY <1>1, <2>1, <2>2, <2>3, SyscallOutcome
<1>2. TypeOK /\ [Next]_vars =>
        [Requested => (Tohost' = 0 /\ Fromhost' = 1) \/ at' \in Ended]_vars
  BY <1>1
<1> QED
  BY <1>2, TypeCorrect, PTL DEF Spec
=============================================================================
