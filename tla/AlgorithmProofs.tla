-------------------------- MODULE AlgorithmProofs ---------------------------
(***************************************************************************)
(* The pure functions for every size of a byte, every word and memories of *)
(* every length: the arithmetic of the ALU, the flags of open, the         *)
(* decoding of instruction words, the bit helpers and the hash.            *)
(***************************************************************************)
EXTENDS Algorithms, WellFoundedInduction, FiniteSetTheorems, TLAPS

(* Arithmetic.                                                             *)

\* Products of numbers that are bounded.
LEMMA ProductBound ==
  ASSUME NEW p \in Nat, NEW q \in Nat, NEW u \in Nat, NEW v \in Nat, p <= u, q <= v
  PROVE  p * q \in Nat /\ p * q <= u * v
<1>1. p * q <= u * q
  BY SMT
<1>2. u * q <= u * v
  BY SMT
<1> QED BY <1>1, <1>2, SMT

\* Division with remainder, and that there is one only.
LEMMA DivisionWithRemainder ==
  ASSUME NEW p \in Int, NEW m \in Nat \ {0}
  PROVE  /\ p \div m \in Int /\ p % m \in 0 .. m - 1
         /\ p = m * (p \div m) + (p % m)
BY SMT

LEMMA DivisionIsOne ==
  ASSUME NEW p \in Int, NEW m \in Nat \ {0}, NEW q \in Int, NEW r \in 0 .. m - 1,
         p = m * q + r
  PROVE  p \div m = q /\ p % m = r
<1> DEFINE s == p \div m
           t == p % m
<1>1. s \in Int /\ t \in 0 .. m - 1 /\ p = m * s + t
  BY DivisionWithRemainder
<1> HIDE DEF s, t
<1>2. m * (q - s) = t - r
  BY <1>1, SMT
<1>3. q - s = 0
  <2>1. CASE q - s >= 1
    <3>1. m * (q - s) >= m
      BY <1>1, <2>1, SMT
    <3> QED BY <1>1, <1>2, <3>1, SMT
  <2>2. CASE q - s <= -1
    <3>1. m * (q - s) <= -m
      BY <1>1, <2>2, SMT
    <3> QED BY <1>1, <1>2, <3>1, SMT
  <2> QED BY <1>1, <2>1, <2>2, SMT
<1>4. q = s
  BY <1>1, <1>3, SMT
<1>5. m * q = m * s
  BY <1>4
<1>6. r = t
  BY <1>1, <1>4, <1>5, SMT
<1> QED BY <1>4, <1>6 DEF s, t

-----------------------------------------------------------------------------
(* Induction, over a set of numbers.                                       *)

LEMMA LeastNumber ==
  ASSUME NEW S, S \subseteq Nat, S # {}
  PROVE  \E m \in S : \A l \in S : m <= l
<1> DEFINE R == OpToRel(<, Nat)
<1>1. IsWellFoundedOn(R, Nat)
  BY NatLessThanWellFounded, Zenon
<1>2. \A p, q \in Nat : p < q => <<p, q>> \in R
  BY DEF OpToRel
<1> HIDE DEF R
<1>3. PICK m \in S : \A l \in S : ~(<<l, m>> \in R)
  BY <1>1, WFMin
<1>4. \A l \in S : m \in Nat /\ l \in Nat /\ ~(l < m)
  BY <1>2, <1>3
<1> QED
  BY <1>4

LEMMA UpTo ==
  ASSUME NEW m \in Nat, NEW S, 0 \in S, \A p \in 0 .. m - 1 : p \in S => p + 1 \in S
  PROVE  0 .. m \subseteq S
<1> SUFFICES ASSUME (0 .. m) \ S # {} PROVE FALSE
  OBVIOUS
<1> DEFINE T == (0 .. m) \ S
<1>0. T \subseteq Nat /\ T # {}
  OBVIOUS
<1>1. PICK q \in T : \A l \in T : q <= l
  <2> HIDE DEF T
  <2> QED
    BY <1>0, LeastNumber
<1>2. q \in 0 .. m /\ q # 0
  BY <1>1
<1>3. q - 1 \in 0 .. m - 1 /\ q - 1 + 1 = q
  BY <1>2
<1>4. q - 1 \in S
  BY <1>1, <1>3
<1> QED
  BY <1>1, <1>3, <1>4

-----------------------------------------------------------------------------
(* Powers of two, up to the greater of the widths.                         *)

IsWidth(m) == m \in {W, Width}

LEMMA PowerTypes ==
  ASSUME NEW m, IsWidth(m)
  PROVE  /\ m \in Nat \ {0}
         /\ \A s \in 0 .. m - 1 : Pow2(s + 1) = 2 * Pow2(s)
         /\ \A s \in 0 .. m : Pow2(s) \in Nat \ {0}
<1>1. m \in Nat \ {0} /\ \A s \in 0 .. m - 1 : Pow2(s + 1) = 2 * Pow2(s)
  BY Powers DEF IsWidth
<1> DEFINE S == {s \in 0 .. m : Pow2(s) \in Nat \ {0}}
<1>2. 0 \in S
  BY <1>1, Powers
<1>3. ASSUME NEW s \in 0 .. m - 1, s \in S PROVE s + 1 \in S
  <2>1. Pow2(s) \in Nat \ {0} /\ Pow2(s + 1) = 2 * Pow2(s)
    BY <1>1, <1>3
  <2>2. s + 1 \in 0 .. m
    BY <1>1
  <2>3. Pow2(s + 1) \in Nat \ {0}
    BY <2>1
  <2> QED
    BY <2>2, <2>3
<1> HIDE DEF S
<1>4. 0 .. m \subseteq S
  BY <1>1, <1>2, <1>3, UpTo
<1> QED
  BY <1>1, <1>4 DEF S

LEMMA PowerSum ==
  ASSUME NEW m, IsWidth(m), NEW p \in 0 .. m, NEW q \in 0 .. m - p
  PROVE  Pow2(p + q) = Pow2(p) * Pow2(q)
<1>1. m \in Nat \ {0} /\ m - p \in Nat
  BY PowerTypes
<1> DEFINE S == {s \in 0 .. m - p : Pow2(p + s) = Pow2(p) * Pow2(s)}
<1>2. 0 \in S
  BY <1>1, Powers, PowerTypes
<1>3. ASSUME NEW s \in 0 .. m - p - 1, s \in S PROVE s + 1 \in S
  <2>1. p + s \in 0 .. m - 1 /\ s \in 0 .. m - 1 /\ p + (s + 1) = (p + s) + 1
    BY <1>1
  <2>2. Pow2(p + (s + 1)) = 2 * Pow2(p + s) /\ Pow2(s + 1) = 2 * Pow2(s)
    BY <2>1, PowerTypes
  <2>3. Pow2(p) \in Nat /\ Pow2(s) \in Nat
    BY <2>1, PowerTypes
  <2>4. 2 * (Pow2(p) * Pow2(s)) = Pow2(p) * (2 * Pow2(s))
    BY <2>3
  <2>5. Pow2(p + (s + 1)) = Pow2(p) * Pow2(s + 1) /\ s + 1 \in 0 .. m - p
    BY <1>1, <1>3, <2>2, <2>4
  <2> QED
    BY <2>5
<1> HIDE DEF S
<1>4. 0 .. m - p \subseteq S
  BY <1>1, <1>2, <1>3, UpTo
<1> QED
  BY <1>4 DEF S

\* Powers of two but the first are even.
LEMMA PowerEven ==
  ASSUME NEW m, IsWidth(m), NEW s \in 1 .. m
  PROVE  Pow2(s) = 2 * Pow2(s - 1) /\ Pow2(s - 1) \in Nat \ {0}
<1>1. s - 1 \in 0 .. m - 1 /\ s - 1 + 1 = s
  BY PowerTypes
<1> QED
  BY <1>1, PowerTypes

-----------------------------------------------------------------------------
(* Words and their signs.                                                  *)

Half == Laws!WordSize \div 2

LEMMA Halves ==
  /\ Half \in Nat \ {0}
  /\ Laws!WordSize = 2 * Half
  /\ Laws!WordSize \in Nat \ {0, 1}
<1>1. PICK e \in Int : B = 2 * e
  <2>1. B = 2 * (B \div 2) /\ B \div 2 \in Int
    BY MachineWords
  <2> QED BY <2>1
<1>2. e \in Nat /\ e >= 1 /\ B \in Nat /\ B >= 2
  BY <1>1, MachineWords
<1>3. Laws!HalfSize \in Nat /\ Laws!HalfSize >= 1
  BY <1>2, SMT DEF Laws!HalfSize
<1>4. B * Laws!HalfSize \in Nat /\ B * Laws!HalfSize >= 1
  BY <1>2, <1>3, SMT
<1>5. e * (B * Laws!HalfSize) \in Nat /\ e * (B * Laws!HalfSize) >= 1
  BY <1>2, <1>4, SMT
<1>6. Laws!WordSize = 2 * (e * (B * Laws!HalfSize))
  BY <1>1, <1>2, <1>3, SMT DEF Laws!WordSize, Laws!HalfSize
<1> DEFINE h == e * (B * Laws!HalfSize)
<1>7. h \in Nat /\ h >= 1 /\ Laws!WordSize = 2 * h
  BY <1>5, <1>6
<1> HIDE DEF h
<1>8. Half = h
  BY <1>7 DEF Half
<1> QED BY <1>7, <1>8

\* A signed number is the one its word means, and a word means no other.
LEMMA Signs ==
  ASSUME NEW w \in Laws!Word
  PROVE  /\ w \in Nat /\ w < Laws!WordSize
         /\ Laws!Signed(w) = Laws!Value(w)
         /\ Laws!Value(w) \in Int /\ -Half <= Laws!Value(w) /\ Laws!Value(w) < Half
         /\ w = IF Laws!Value(w) < 0 THEN Laws!Value(w) + Laws!WordSize ELSE Laws!Value(w)
<1>1. w \in Nat /\ w < Laws!WordSize
  BY Halves DEF Laws!Word
<1>2. Laws!Value(w) = IF w < Half THEN w ELSE w - Laws!WordSize
  BY DEF Laws!Value, Half
<1>3. Laws!Signed(w) = IF w < Half THEN w ELSE w - Laws!WordSize
  BY <1>1, Halves DEF Laws!Signed
<1> QED BY <1>1, <1>2, <1>3, Halves

LEMMA Truncation ==
  ASSUME NEW q \in Int
  PROVE  /\ Laws!ToWord(q) \in Laws!Word
         /\ 0 <= q /\ q < Laws!WordSize => Laws!ToWord(q) = q
         /\ -Laws!WordSize <= q /\ q < 0 => Laws!ToWord(q) = q + Laws!WordSize
         /\ -Half <= q /\ q < Half => Laws!Value(Laws!ToWord(q)) = q
<1> DEFINE m == Laws!WordSize
<1>1. m \in Nat \ {0} /\ m = 2 * Half /\ Half \in Nat \ {0}
  BY Halves
<1> HIDE DEF m
<1>2. q % m \in 0 .. m - 1
  BY <1>1, DivisionWithRemainder
<1>3. 0 <= q /\ q < m => q % m = q
  <2> SUFFICES ASSUME 0 <= q, q < m PROVE q % m = q
    OBVIOUS
  <2>1. q \in 0 .. m - 1 /\ q = m * 0 + q
    BY <1>1
  <2> QED BY <1>1, <2>1, DivisionIsOne
<1>4. -m <= q /\ q < 0 => q % m = q + m
  <2> SUFFICES ASSUME -m <= q, q < 0 PROVE q % m = q + m
    OBVIOUS
  <2>1. q + m \in 0 .. m - 1 /\ q = m * (-1) + (q + m)
    BY <1>1
  <2> QED BY <1>1, <2>1, DivisionIsOne
<1>5. Laws!ToWord(q) = q % m
  BY DEF Laws!ToWord, m
<1>6. Laws!Value(q % m) = IF q % m < Half THEN q % m ELSE (q % m) - m
  BY DEF Laws!Value, Half, m
<1>7. -Half <= q /\ q < Half => Laws!Value(q % m) = q
  BY <1>1, <1>2, <1>3, <1>4, <1>6
<1>8. Laws!Word = 0 .. m - 1
  BY DEF Laws!Word, m
<1> QED BY <1>2, <1>3, <1>4, <1>5, <1>7, <1>8 DEF m

\* What each instruction leaves in its register.
LEMMA Results ==
  /\ Laws!Result(Laws!Insn(0, 0)) = Laws!ToWord(left + right)
  /\ Laws!Result(Laws!Sub) = Laws!ToWord(left - right)
  /\ Laws!Result(Laws!Sll) = Laws!ToWord(left * Pow2(right % W))
  /\ Laws!Result(Laws!Slt) = Laws!ToWord(Laws!Flag(Laws!Signed(left) < Laws!Signed(right)))
  /\ Laws!Result(Laws!Sltu) = Laws!ToWord(Laws!Flag(left < right))
  /\ Laws!Result(Laws!Mul) = Laws!ToWord(Laws!Signed(left) * Laws!Signed(right))
  /\ Laws!Result(Laws!Mulh) =
       Laws!ToWord((Laws!Signed(left) * Laws!Signed(right)) \div Laws!WordSize)
  /\ Laws!Result(Laws!Mulhu) = Laws!ToWord((left * right) \div Laws!WordSize)
  /\ Laws!Result(Laws!Div) = Laws!ToWord(Laws!Quotient(Laws!Signed(left), Laws!Signed(right)))
  /\ Laws!Result(Laws!Rem) = Laws!ToWord(Laws!Remainder(Laws!Signed(left), Laws!Signed(right)))
  /\ Laws!Result(Laws!Divu) = Laws!ToWord(Laws!Quotient(left, right))
  /\ Laws!Result(Laws!Remu) = Laws!ToWord(Laws!Remainder(left, right))
<1>1. \A p, s : Laws!Insn(p, s).special = p /\ Laws!Insn(p, s).sel = s
  BY DEF Laws!Insn
<1> USE <1>1 DEF Laws!Result, Laws!OpResult
<1>2. Laws!Result(Laws!Insn(0, 0)) = Laws!ToWord(left + right)
  OBVIOUS
<1>3. Laws!Result(Laws!Sub) = Laws!ToWord(left - right)
  BY DEF Laws!Sub
<1>4. Laws!Result(Laws!Sll) = Laws!ToWord(left * Pow2(right % W))
  BY DEF Laws!Sll, Laws!ShiftLeft
<1>5. Laws!Result(Laws!Slt) = Laws!ToWord(Laws!Flag(Laws!Signed(left) < Laws!Signed(right)))
  BY DEF Laws!Slt
<1>6. Laws!Result(Laws!Sltu) = Laws!ToWord(Laws!Flag(left < right))
  BY DEF Laws!Sltu
<1>7. Laws!Result(Laws!Mul) = Laws!ToWord(Laws!Signed(left) * Laws!Signed(right))
  BY DEF Laws!Mul
<1>8. Laws!Result(Laws!Mulh) =
        Laws!ToWord((Laws!Signed(left) * Laws!Signed(right)) \div Laws!WordSize)
  BY DEF Laws!Mulh
<1>9. Laws!Result(Laws!Mulhu) = Laws!ToWord((left * right) \div Laws!WordSize)
  BY DEF Laws!Mulhu
<1>10. Laws!Result(Laws!Div) =
         Laws!ToWord(Laws!Quotient(Laws!Signed(left), Laws!Signed(right)))
  BY DEF Laws!Div
<1>11. Laws!Result(Laws!Rem) =
         Laws!ToWord(Laws!Remainder(Laws!Signed(left), Laws!Signed(right)))
  BY DEF Laws!Rem
<1>12. Laws!Result(Laws!Divu) = Laws!ToWord(Laws!Quotient(left, right))
  BY DEF Laws!Divu
<1>13. Laws!Result(Laws!Remu) = Laws!ToWord(Laws!Remainder(left, right))
  BY DEF Laws!Remu
<1> QED BY <1>2, <1>3, <1>4, <1>5, <1>6, <1>7, <1>8, <1>9, <1>10, <1>11, <1>12, <1>13

-----------------------------------------------------------------------------
(* Multiplication.                                                         *)

LEMMA SignedProduct ==
  ASSUME NEW h \in Nat, NEW p \in Int, NEW q \in Int,
         -h <= p, p <= h, -h <= q, q <= h
  PROVE  p * q \in Int /\ -(h * h) <= p * q /\ p * q <= h * h
<1> DEFINE u == IF p < 0 THEN -p ELSE p
           v == IF q < 0 THEN -q ELSE q
<1>1. u \in Nat /\ v \in Nat /\ u <= h /\ v <= h
  OBVIOUS
<1>2. (p = u \/ p = -u) /\ (q = v \/ q = -v)
  OBVIOUS
<1> HIDE DEF u, v
<1>3. u * v \in Nat /\ u * v <= h * h
  BY <1>1, ProductBound
<1>4. u * (-v) = -(u * v) /\ (-u) * v = -(u * v) /\ (-u) * (-v) = u * v
  BY <1>1, SMT
<1>5. p * q = u * v \/ p * q = -(u * v)
  BY <1>2, <1>4
<1>6. h * h \in Nat
  BY SMT
<1> QED BY <1>3, <1>5, <1>6

\* The upper half of a product fits in a word.
LEMMA UpperHalf ==
  ASSUME NEW p \in Int, NEW m \in Nat \ {0}, NEW low \in Int, NEW high \in Int,
         m * low <= p, p < m * high
  PROVE  p \div m \in Int /\ low <= p \div m /\ p \div m < high
<1> DEFINE q == p \div m
           r == p % m
<1>1. q \in Int /\ r \in 0 .. m - 1 /\ p = m * q + r
  BY DivisionWithRemainder
<1> HIDE DEF q, r
<1>2. m * q \in Int /\ m * low \in Int /\ m * high \in Int
  BY <1>1, SMT
<1>3. low <= q
  <2> SUFFICES ASSUME q + 1 <= low PROVE FALSE
    BY <1>1
  <2>1. m * (q + 1) <= m * low
    BY <1>1, SMT
  <2>2. m * (q + 1) = m * q + m
    BY <1>1, SMT
  <2> QED BY <1>1, <1>2, <2>1, <2>2
<1>4. q < high
  <2> SUFFICES ASSUME high <= q PROVE FALSE
    BY <1>1
  <2>1. m * high <= m * q
    BY <1>1, SMT
  <2> QED BY <1>1, <1>2, <2>1
<1> QED BY <1>1, <1>3, <1>4 DEF q

LEMMA ProductHalves ==
  ASSUME left \in Laws!Word, right \in Laws!Word
  PROVE  HalvesOfProduct
<1> DEFINE m == Laws!WordSize
           x1 == Laws!Value(left)
           y1 == Laws!Value(right)
           p == x1 * y1
           q == left * right
<1>1. m \in Nat \ {0} /\ Half \in Nat \ {0} /\ m = 2 * Half
  BY Halves
<1>2. /\ left \in Nat /\ left < m /\ right \in Nat /\ right < m
      /\ x1 \in Int /\ -Half <= x1 /\ x1 < Half
      /\ y1 \in Int /\ -Half <= y1 /\ y1 < Half
      /\ Laws!Signed(left) = x1 /\ Laws!Signed(right) = y1
  BY Signs
<1>3. /\ Laws!Result(Laws!Mul) = Laws!ToWord(p)
      /\ Laws!Result(Laws!Mulh) = Laws!ToWord(p \div m)
      /\ Laws!Result(Laws!Mulhu) = Laws!ToWord(q \div m)
  BY <1>2, Results
<1> HIDE DEF m, x1, y1
<1>4. p \in Int /\ -(Half * Half) <= p /\ p <= Half * Half
  BY <1>1, <1>2, SignedProduct
<1>5. q \in Nat /\ q < m * m
  <2>1. left <= m - 1 /\ right <= m - 1 /\ m - 1 \in Nat
    BY <1>1, <1>2
  <2>2. q \in Nat /\ q <= (m - 1) * (m - 1)
    BY <1>2, <2>1, ProductBound
  <2>3. (m - 1) * (m - 1) < m * m /\ (m - 1) * (m - 1) \in Nat /\ m * m \in Nat
    BY <1>1, SMT
  <2> QED BY <2>2, <2>3
<1> HIDE DEF p, q
<1>6. Laws!Value(Laws!ToWord(p \div m)) = p \div m
  <2>1. m * (-Half) <= p /\ p < m * Half
    <3>1. Half * Half \in Nat /\ Half * Half >= 1
      BY <1>1, SMT
    <3>2. m * (-Half) = -2 * (Half * Half) /\ m * Half = 2 * (Half * Half)
      BY <1>1, SMT
    <3> QED BY <1>4, <3>1, <3>2
  <2>2. p \div m \in Int /\ -Half <= p \div m /\ p \div m < Half
    BY <1>1, <1>4, <2>1, UpperHalf
  <2> QED BY <2>2, Truncation
<1>7. Laws!ToWord(q \div m) = q \div m
  <2>1. m * 0 <= q
    BY <1>1, <1>5
  <2>2. q \div m \in Int /\ 0 <= q \div m /\ q \div m < m
    BY <1>1, <1>5, <2>1, UpperHalf
  <2> QED BY <2>2, Truncation DEF m
<1>8. \A z \in Int : m * (z \div m) + Laws!ToWord(z) = z
  <2> SUFFICES ASSUME NEW z \in Int PROVE m * (z \div m) + (z % m) = z
    BY DEF Laws!ToWord, m
  <2> QED BY <1>1, DivisionWithRemainder
<1>9. m * (p \div m) + Laws!ToWord(p) = p /\ m * (q \div m) + Laws!ToWord(q) = q
  BY <1>4, <1>5, <1>8
<1>10. Laws!ToWord(p) = Laws!ToWord(q)
  <2>1. PICK i, j \in Int : left = x1 + i * m /\ right = y1 + j * m
    <3>1. \A w \in Laws!Word : \E i \in Int : w = Laws!Value(w) + i * m
      <4> SUFFICES ASSUME NEW w \in Laws!Word
                   PROVE  \E i \in Int : w = Laws!Value(w) + i * m
        OBVIOUS
      <4>1. w = Laws!Value(w) + 0 * m \/ w = Laws!Value(w) + 1 * m
        BY <1>1, Signs DEF m
      <4> QED BY <4>1
    <3> QED BY <3>1 DEF x1, y1
  <2> DEFINE t == x1 * j + i * y1 + (i * j) * m
  <2>2. t \in Int /\ q = p + m * t
    BY <1>1, <1>2, <2>1, SMT DEF p, q
  <2>3. Laws!ToWord(p) \in 0 .. m - 1 /\ p \div m \in Int
    BY <1>1, <1>4, DivisionWithRemainder DEF Laws!ToWord, m
  <2> HIDE DEF t
  <2>4. q = m * ((p \div m) + t) + Laws!ToWord(p)
    <3>1. m * ((p \div m) + t) = m * (p \div m) + m * t
      BY <1>1, <2>2, <2>3, SMT
    <3>2. m * (p \div m) \in Int /\ m * t \in Int
      BY <1>1, <2>2, <2>3, SMT
    <3> QED BY <1>4, <1>9, <2>2, <2>3, <3>1, <3>2
  <2>5. q % m = Laws!ToWord(p)
    <3>1. (p \div m) + t \in Int /\ q \in Int
      BY <1>5, <2>2, <2>3
    <3> QED BY <1>1, <2>3, <2>4, <3>1, DivisionIsOne, Zenon
  <2> QED BY <2>5 DEF Laws!ToWord, m
<1>11. m * Laws!Value(Laws!Result(Laws!Mulh)) + Laws!Result(Laws!Mul) = p
  BY <1>3, <1>6, <1>9
<1>12. m * Laws!Result(Laws!Mulhu) + Laws!Result(Laws!Mul) = q
  BY <1>3, <1>7, <1>9, <1>10
<1> QED BY <1>11, <1>12 DEF HalvesOfProduct, Laws!HalvesOfProduct, m, p, q, x1, y1

-----------------------------------------------------------------------------
(* Division.                                                               *)

\* Of a number without sign.
LEMMA DivisionBounds ==
  ASSUME NEW u \in Nat, NEW v \in Nat \ {0}
  PROVE  /\ u \div v \in Nat /\ u \div v <= u
         /\ v >= 2 => 2 * (u \div v) <= u
         /\ u % v \in 0 .. v - 1 /\ u = v * (u \div v) + (u % v)
<1> DEFINE q == u \div v
           r == u % v
<1>1. q \in Int /\ r \in 0 .. v - 1 /\ u = v * q + r
  BY DivisionWithRemainder
<1> HIDE DEF q, r
<1>2. q >= 0
  <2> SUFFICES ASSUME q <= -1 PROVE FALSE
    BY <1>1
  <2>1. v * q <= -v
    BY <1>1, SMT
  <2> QED BY <1>1, <2>1, SMT
<1>3. v * q >= q /\ (v >= 2 => v * q >= 2 * q)
  BY <1>1, <1>2, SMT
<1>4. v * q \in Nat /\ q \in Nat
  BY <1>1, <1>2, SMT
<1> QED BY <1>1, <1>2, <1>3, <1>4 DEF q, r

\* Towards zero.
LEMMA Truncated ==
  ASSUME NEW p \in Int, NEW y \in Int, y # 0
  PROVE  LET q == Laws!Quotient(p, y)
             r == Laws!Remainder(p, y) IN
         /\ q \in Int /\ r \in Int
         /\ p = q * y + r
         /\ Laws!Abs(r) < Laws!Abs(y)
         /\ Laws!Sign(r) \in {0, Laws!Sign(p)}
         /\ -Laws!Abs(p) <= q /\ q <= Laws!Abs(p)
         /\ y > 0 /\ p < 0 => q <= 0
         /\ y <= -2 => 2 * q <= Laws!Abs(p)
<1> DEFINE u == Laws!Abs(p)
           v == Laws!Abs(y)
           w == u \div v
           t == u % v
           q == Laws!Quotient(p, y)
           r == Laws!Remainder(p, y)
<1>1. /\ u \in Nat /\ u = (IF p < 0 THEN -p ELSE p)
      /\ v \in Nat \ {0} /\ v = (IF y < 0 THEN -y ELSE y)
  BY DEF Laws!Abs
<1>2. q = IF (p < 0) = (y < 0) THEN w ELSE -w
  BY DEF Laws!Quotient
<1>3. r = p - y * q
  BY DEF Laws!Remainder
<1> HIDE DEF u, v
<1>4. /\ w \in Nat /\ w <= u /\ (v >= 2 => 2 * w <= u)
      /\ t \in 0 .. v - 1 /\ u = v * w + t
  <2>1. u \in Nat /\ v \in Nat \ {0}
    BY <1>1
  <2> QED BY <2>1, DivisionBounds, Zenon
<1> HIDE DEF w, t, q, r
<1>5. r = IF p < 0 THEN -t ELSE t
  <2>1. q \in Int /\ y * q = q * y
    BY <1>2, <1>4, SMT
  <2>2. v * w \in Int /\ (-v) * w = -(v * w) /\ (-v) * (-w) = v * w /\ v * (-w) = -(v * w)
    BY <1>1, <1>4, SMT
  <2>3. CASE p < 0 /\ y < 0
    <3>1. y = -v /\ q = w /\ p = -u
      BY <1>1, <1>2, <2>3
    <3>2. y * q = -(v * w)
      BY <2>2, <3>1
    <3> QED BY <1>1, <1>3, <1>4, <2>2, <2>3, <3>1, <3>2
  <2>4. CASE p < 0 /\ ~(y < 0)
    <3>1. y = v /\ q = -w /\ p = -u
      BY <1>1, <1>2, <2>4
    <3>2. y * q = -(v * w)
      BY <2>2, <3>1
    <3> QED BY <1>1, <1>3, <1>4, <2>2, <2>4, <3>1, <3>2
  <2>5. CASE ~(p < 0) /\ y < 0
    <3>1. y = -v /\ q = -w /\ p = u
      BY <1>1, <1>2, <2>5
    <3>2. y * q = v * w
      BY <2>2, <3>1
    <3> QED BY <1>1, <1>3, <1>4, <2>2, <2>5, <3>1, <3>2
  <2>6. CASE ~(p < 0) /\ ~(y < 0)
    <3>1. y = v /\ q = w /\ p = u
      BY <1>1, <1>2, <2>6
    <3>2. y * q = v * w
      BY <2>2, <3>1
    <3> QED BY <1>1, <1>3, <1>4, <2>2, <2>6, <3>1, <3>2
  <2> QED BY <2>3, <2>4, <2>5, <2>6
<1>6. q \in Int /\ r \in Int
  BY <1>1, <1>2, <1>4, <1>5
<1>7. p = q * y + r
  <2>1. y * q = q * y /\ y * q \in Int
    BY <1>6, SMT
  <2> QED BY <1>3, <1>6, <2>1
<1>8. Laws!Abs(r) < v
  BY <1>1, <1>4, <1>5 DEF Laws!Abs
<1>9. Laws!Sign(r) \in {0, Laws!Sign(p)}
  BY <1>1, <1>4, <1>5 DEF Laws!Sign
<1>10. /\ -u <= q /\ q <= u
       /\ y > 0 /\ p < 0 => q <= 0
       /\ y <= -2 => 2 * q <= u
  BY <1>1, <1>2, <1>4
<1> QED BY <1>6, <1>7, <1>8, <1>9, <1>10 DEF q, r, u, v

LEMMA QuotientAndRemainder ==
  ASSUME left \in Laws!Word, right \in Laws!Word
  PROVE  OneDivision
<1> DEFINE m == Laws!WordSize
           x1 == Laws!Value(left)
           y1 == Laws!Value(right)
<1>1. m \in Nat \ {0} /\ Half \in Nat \ {0} /\ m = 2 * Half
  BY Halves
<1>2. /\ left \in Nat /\ left < m /\ right \in Nat /\ right < m
      /\ x1 \in Int /\ -Half <= x1 /\ x1 < Half
      /\ y1 \in Int /\ -Half <= y1 /\ y1 < Half
      /\ left = (IF x1 < 0 THEN x1 + m ELSE x1)
      /\ right = (IF y1 < 0 THEN y1 + m ELSE y1)
      /\ Laws!Signed(left) = x1 /\ Laws!Signed(right) = y1
  BY Signs
<1> HIDE DEF x1, y1
<1>3. ASSUME Laws!Div \in Laws!Executable
      PROVE  LET q == Laws!Value(Laws!Result(Laws!Div))
                 r == Laws!Value(Laws!Result(Laws!Rem)) IN
             /\ x1 = q * y1 + r
             /\ Laws!Abs(r) < Laws!Abs(y1)
             /\ Laws!Sign(r) \in {0, Laws!Sign(x1)}
  <2> DEFINE q == Laws!Quotient(x1, y1)
             r == Laws!Remainder(x1, y1)
  <2>1. Laws!Div.special = 1 /\ Laws!Div.sel = 4
    BY DEF Laws!Div, Laws!Insn
  <2>2. ~Laws!OpTraps(Laws!Div, left, right)
    BY <1>3 DEF Laws!Executable
  <2>3. right # 0 /\ ~(2 * left = m /\ right = m - 1)
    BY <2>1, <2>2 DEF Laws!OpTraps, m
  <2> HIDE DEF m
  <2>4. y1 # 0 /\ ~(x1 = -Half /\ y1 = -1)
    BY <1>1, <1>2, <2>3
  <2>5. /\ q \in Int /\ r \in Int /\ x1 = q * y1 + r
        /\ Laws!Abs(r) < Laws!Abs(y1) /\ Laws!Sign(r) \in {0, Laws!Sign(x1)}
        /\ -Laws!Abs(x1) <= q /\ q <= Laws!Abs(x1)
        /\ (y1 > 0 /\ x1 < 0 => q <= 0)
        /\ (y1 <= -2 => 2 * q <= Laws!Abs(x1))
    BY <1>2, <2>4, Truncated
  <2> HIDE DEF q, r
  <2>6. -Half <= q /\ q < Half
    BY <1>1, <1>2, <2>4, <2>5 DEF Laws!Abs
  <2>7. -Half <= r /\ r < Half
    BY <1>1, <1>2, <2>5 DEF Laws!Abs
  <2>8. Laws!Value(Laws!Result(Laws!Div)) = q /\ Laws!Value(Laws!Result(Laws!Rem)) = r
    BY <1>2, <2>5, <2>6, <2>7, Results, Truncation DEF q, r
  <2> QED BY <2>5, <2>8
<1>4. ASSUME Laws!Divu \in Laws!Executable
      PROVE  /\ left = Laws!Result(Laws!Divu) * right + Laws!Result(Laws!Remu)
             /\ Laws!Result(Laws!Remu) < right
  <2> DEFINE q == Laws!Quotient(left, right)
             r == Laws!Remainder(left, right)
  <2>1. Laws!Divu.special = 1 /\ Laws!Divu.sel = 5
    BY DEF Laws!Divu, Laws!Insn
  <2>2. ~Laws!OpTraps(Laws!Divu, left, right)
    BY <1>4 DEF Laws!Executable
  <2>3. right # 0
    BY <2>1, <2>2 DEF Laws!OpTraps
  <2> HIDE DEF m
  <2>4. /\ q \in Int /\ r \in Int /\ left = q * right + r
        /\ Laws!Abs(r) < Laws!Abs(right) /\ Laws!Sign(r) \in {0, Laws!Sign(left)}
        /\ q <= Laws!Abs(left)
    <3>1. left \in Int /\ right \in Int
      BY <1>2
    <3> QED BY <2>3, <3>1, Truncated, Zenon
  <2>5. q = left \div right
    BY <1>2, <2>3 DEF Laws!Quotient, Laws!Abs
  <2>6. q >= 0
    BY <1>2, <2>3, <2>5, DivisionBounds
  <2> HIDE DEF q, r
  <2>7. 0 <= r /\ r < right /\ q < m
    BY <1>1, <1>2, <2>4 DEF Laws!Abs, Laws!Sign
  <2>8. Laws!Result(Laws!Divu) = q /\ Laws!Result(Laws!Remu) = r
    <3>1. r < m
      BY <1>1, <1>2, <2>4, <2>7
    <3>2. Laws!ToWord(q) = q /\ Laws!ToWord(r) = r
      BY <2>4, <2>6, <2>7, <3>1, Truncation DEF m
    <3> QED BY <3>2, Results DEF q, r
  <2> QED BY <2>4, <2>7, <2>8
<1> QED BY <1>3, <1>4 DEF OneDivision, Laws!OneDivision, x1, y1

-----------------------------------------------------------------------------
(* Comparisons, branches and shifts.                                       *)

LEMMA Orders ==
  ASSUME left \in Laws!Word, right \in Laws!Word
  PROVE  Laws!OneOrder
<1> DEFINE m == Laws!WordSize
           x1 == Laws!Value(left)
           y1 == Laws!Value(right)
<1>1. m \in Nat \ {0, 1} /\ Half \in Nat \ {0} /\ m = 2 * Half
  BY Halves
<1>2. /\ left \in Nat /\ left < m /\ right \in Nat /\ right < m
      /\ x1 \in Int /\ -Half <= x1 /\ x1 < Half
      /\ y1 \in Int /\ -Half <= y1 /\ y1 < Half
      /\ left = (IF x1 < 0 THEN x1 + m ELSE x1)
      /\ right = (IF y1 < 0 THEN y1 + m ELSE y1)
      /\ Laws!Signed(left) = x1 /\ Laws!Signed(right) = y1
  BY Signs
<1>3. /\ Laws!Branch(0) <=> left = right
      /\ Laws!Branch(1) <=> left # right
      /\ Laws!Branch(4) <=> Laws!Signed(left) < Laws!Signed(right)
      /\ Laws!Branch(5) <=> Laws!Signed(left) >= Laws!Signed(right)
      /\ Laws!Branch(6) <=> left < right
      /\ Laws!Branch(7) <=> left >= right
  <2>1. \A s : Laws!Insn(0, s).sel = s
    BY DEF Laws!Insn
  <2>2. /\ 1 # 0
        /\ 4 # 0 /\ 4 # 1
        /\ 5 # 0 /\ 5 # 1 /\ 5 # 4
        /\ 6 # 0 /\ 6 # 1 /\ 6 # 4 /\ 6 # 5
        /\ 7 # 0 /\ 7 # 1 /\ 7 # 4 /\ 7 # 5 /\ 7 # 6
    OBVIOUS
  <2>3. Laws!Branch(0) <=> left = right
    BY <2>1, <2>2, Zenon DEF Laws!Branch, Laws!Taken
  <2>4. Laws!Branch(1) <=> left # right
    BY <2>1, <2>2, Zenon DEF Laws!Branch, Laws!Taken
  <2>5. Laws!Branch(4) <=> Laws!Signed(left) < Laws!Signed(right)
    BY <2>1, <2>2, Zenon DEF Laws!Branch, Laws!Taken
  <2>6. Laws!Branch(5) <=> Laws!Signed(left) >= Laws!Signed(right)
    BY <2>1, <2>2, Zenon DEF Laws!Branch, Laws!Taken
  <2>7. Laws!Branch(6) <=> left < right
    BY <2>1, <2>2, Zenon DEF Laws!Branch, Laws!Taken
  <2>8. Laws!Branch(7) <=> left >= right
    BY <2>1, <2>2, Zenon DEF Laws!Branch, Laws!Taken
  <2> QED BY <2>3, <2>4, <2>5, <2>6, <2>7, <2>8, Zenon
<1> HIDE DEF m, x1, y1
<1>4. Laws!ToWord(0) = 0 /\ Laws!ToWord(1) = 1
  <2>1. 0 \in Int /\ 1 \in Int /\ 0 < m /\ 1 < m
    BY <1>1
  <2> QED BY <2>1, Truncation DEF m
<1>5. /\ Laws!Result(Laws!Slt) = 1 <=> x1 < y1
      /\ Laws!Result(Laws!Sltu) = 1 <=> left < right
  BY <1>2, <1>4, Results DEF Laws!Flag
<1>6. Laws!Result(Laws!Sub) = 0 <=> left = right
  <2>1. left - right \in Int
    BY <1>2
  <2>2. /\ 0 <= left - right /\ left - right < m => Laws!ToWord(left - right) = left - right
        /\ -m <= left - right /\ left - right < 0 =>
             Laws!ToWord(left - right) = left - right + m
    BY <2>1, Truncation DEF m
  <2>3. Laws!ToWord(left - right) = 0 <=> left = right
    BY <1>1, <1>2, <2>2
  <2> QED BY <2>3, Results
<1>7. (x1 < y1 <=> left < right) <=> (x1 < 0 <=> y1 < 0)
  BY <1>1, <1>2
<1> QED BY <1>2, <1>3, <1>5, <1>6, <1>7 DEF Laws!OneOrder, x1, y1

\* A shift to the right of a number below zero, and of its complement.
LEMMA FloorBelowZero ==
  ASSUME NEW p \in Nat, NEW y \in Nat \ {0}
  PROVE  (-1 - p) \div y = -1 - (p \div y)
<1> DEFINE q == p \div y
           r == p % y
<1>1. q \in Int /\ r \in 0 .. y - 1 /\ p = y * q + r
  BY DivisionWithRemainder
<1> HIDE DEF q, r
<1>2. y * (-1 - q) = -y - y * q /\ y * q \in Int
  BY <1>1, SMT
<1>3. -1 - p = y * (-1 - q) + (y - 1 - r)
  BY <1>1, <1>2
<1>4. -1 - p \in Int /\ -1 - q \in Int /\ y - 1 - r \in 0 .. y - 1
  BY <1>1
<1>5. (-1 - p) \div y = -1 - q
  BY <1>3, <1>4, DivisionIsOne, Zenon
<1> QED BY <1>5 DEF q

\* What the shifts do to a register.
LEMMA Shifted ==
  \A w, z : /\ Laws!OpResult(Laws!Sll, w, z) = w * Pow2(z % W)
            /\ Laws!OpResult(Laws!Srl, w, z) = w \div Pow2(z % W)
            /\ Laws!OpResult(Laws!Sra, w, z) = Laws!Signed(w) \div Pow2(z % W)
<1>1. \A p, s : Laws!Insn(p, s).special = p /\ Laws!Insn(p, s).sel = s
  BY DEF Laws!Insn
<1> USE <1>1 DEF Laws!OpResult
<1>2. \A w, z : Laws!OpResult(Laws!Sll, w, z) = w * Pow2(z % W)
  BY DEF Laws!Sll, Laws!ShiftLeft
<1>3. \A w, z : Laws!OpResult(Laws!Srl, w, z) = w \div Pow2(z % W)
  BY DEF Laws!Srl, Laws!ShiftRight
<1>4. \A w, z : Laws!OpResult(Laws!Sra, w, z) = Laws!Signed(w) \div Pow2(z % W)
  BY DEF Laws!Sra, Laws!ShiftArith
<1> HIDE DEF Laws!OpResult
<1> QED BY <1>2, <1>3, <1>4, Zenon

LEMMA Shifts ==
  ASSUME left \in Laws!Word, right \in Laws!Word
  PROVE  Laws!ShiftsAgree
<1> DEFINE m == Laws!WordSize
           v == Laws!Value(left)
           amount == right % W
           p == Pow2(amount)
           r == Pow2(W - amount)
           t == left \div p
           low == left % p
           kept == left % r
           lost == left \div r
<1>1. m \in Nat \ {0} /\ Half \in Nat \ {0} /\ m = 2 * Half
  BY Halves
<1>2. /\ left \in Nat /\ left < m /\ right \in Int
      /\ v \in Int /\ v < Half /\ left = (IF v < 0 THEN v + m ELSE v)
      /\ Laws!Signed(left) = v
  BY Signs
<1>3. /\ W \in Nat \ {0} /\ IsWidth(W)
      /\ amount \in 0 .. W /\ W - amount \in 0 .. W - amount /\ W - amount \in 0 .. W
  BY <1>2, Powers DEF IsWidth
<1>4. p \in Nat \ {0} /\ r \in Nat \ {0} /\ p * r = m
  <2>1. p \in Nat \ {0} /\ r \in Nat \ {0}
    BY <1>3, PowerTypes
  <2>2. Pow2(amount + (W - amount)) = p * r /\ amount + (W - amount) = W
    BY <1>3, PowerSum
  <2> QED BY <2>1, <2>2, MachineWords
<1> HIDE DEF m, v, amount, p, r
<1>5. /\ t \in Nat /\ t <= left /\ low \in 0 .. p - 1 /\ left = p * t + low
      /\ lost \in Nat /\ kept \in 0 .. r - 1 /\ left = r * lost + kept
  BY <1>2, <1>4, DivisionBounds
<1>6. p <= m /\ r <= m
  BY <1>4, SMT
<1>7. \A w \in Int : 0 <= w /\ w < m => Laws!ToWord(w) = w
  BY Truncation DEF m
<1> HIDE DEF t, low, kept, lost
<1>8. Laws!ToWord(v \div p) =
        IF v >= 0 THEN Laws!ToWord(left \div p)
        ELSE m - 1 - Laws!ToWord((m - 1 - left) \div p)
  <2>1. CASE v >= 0
    BY <1>2, <2>1
  <2>2. CASE v < 0
    <3> DEFINE c1 == m - 1 - left
               s == c1 \div p
    <3>1. c1 \in Nat /\ c1 < m /\ v = -1 - c1
      BY <1>1, <1>2, <2>2
    <3> HIDE DEF c1
    <3>2. s \in Nat /\ s <= c1
      BY <1>4, <3>1, DivisionBounds
    <3>3. v \div p = -1 - s
      BY <1>4, <3>1, FloorBelowZero
    <3> HIDE DEF s
    <3>4. Laws!ToWord(-1 - s) = m - 1 - s
      <4>1. -1 - s \in Int /\ -m <= -1 - s /\ -1 - s < 0
        BY <1>1, <3>1, <3>2
      <4>2. Laws!ToWord(-1 - s) = (-1 - s) + m
        BY <4>1, Truncation DEF m
      <4> QED BY <1>1, <3>2, <4>2
    <3>5. Laws!ToWord(s) = s
      BY <1>1, <1>7, <3>1, <3>2
    <3> QED BY <1>2, <2>2, <3>3, <3>4, <3>5 DEF s, c1
  <2> QED BY <1>2, <2>1, <2>2
<1>9. Laws!ToWord(Laws!ToWord(left * p) \div p) = kept
  <2>1. p * kept \in 0 .. m - 1
    <3>1. kept <= r - 1 /\ kept \in Nat /\ r - 1 \in Nat
      BY <1>4, <1>5
    <3>2. p * kept \in Nat /\ p * kept <= p * (r - 1)
      BY <1>4, <3>1, SMT
    <3>3. p * (r - 1) = m - p
      BY <1>4, SMT
    <3> QED BY <1>1, <1>4, <3>2, <3>3
  <2>2. left * p = m * lost + p * kept
    <3>1. left * p = (r * lost + kept) * p
      BY <1>5
    <3>2. (r * lost + kept) * p = (p * r) * lost + p * kept
      BY <1>4, <1>5, SMT
    <3> QED BY <1>4, <3>1, <3>2
  <2>3. left * p \in Int /\ lost \in Int
    BY <1>2, <1>4, <1>5, SMT
  <2>4. (left * p) % m = p * kept
    BY <1>1, <2>1, <2>2, <2>3, DivisionIsOne, Zenon
  <2>5. (p * kept) \div p = kept
    <3>1. p * kept = p * kept + 0 /\ p * kept \in Int /\ kept \in Int /\ 0 \in 0 .. p - 1
      BY <1>4, <1>5, <2>1
    <3> QED BY <1>4, <3>1, DivisionIsOne, Zenon
  <2>6. Laws!ToWord(kept) = kept
    BY <1>5, <1>6, <1>7, <1>4, <1>1
  <2> QED BY <2>4, <2>5, <2>6 DEF Laws!ToWord, m
<1>10. Laws!ToWord(Laws!ToWord(left \div p) * p) = left - low
  <2>1. Laws!ToWord(t) = t
    BY <1>2, <1>5, <1>7, <1>1
  <2>2. t * p = left - low /\ left - low \in Int /\ 0 <= left - low /\ left - low < m
    <3>1. t * p = p * t /\ p * t \in Nat
      BY <1>4, <1>5, SMT
    <3> QED BY <1>1, <1>2, <1>4, <1>5, <3>1
  <2>3. Laws!ToWord(t * p) = left - low
    BY <1>7, <2>2
  <2> QED BY <2>1, <2>3 DEF t
<1> QED BY <1>2, <1>8, <1>9, <1>10, Shifted DEF Laws!ShiftsAgree, m, v, amount, p, r, low, kept

-----------------------------------------------------------------------------
\* Registers hold words.
RegistersAreWords == left \in Laws!Word /\ right \in Laws!Word

LEMMA WordsInvariance == Laws!Spec => []RegistersAreWords
<1>1. Laws!Init => RegistersAreWords
  BY MachineWords DEF Laws!Init, RegistersAreWords
<1>2. RegistersAreWords /\ [Laws!Next]_<<left, right>> => RegistersAreWords'
  <2> SUFFICES ASSUME RegistersAreWords, Laws!Next PROVE RegistersAreWords'
    BY DEF RegistersAreWords
  <2>1. left \in Int /\ right \in Int
    BY Signs DEF RegistersAreWords
  <2>2. left + right \in Int /\ left - right \in Int /\ left * Pow2(right % W) \in Int
    <3>1. right % W \in 0 .. W /\ IsWidth(W)
      BY <2>1, Powers DEF IsWidth
    <3>2. Pow2(right % W) \in Int
      BY <3>1, PowerTypes
    <3> QED BY <2>1, <3>2, SMT
  <2>3. \A i \in Laws!Steps : Laws!Result(i) \in Laws!Word
    BY <2>2, Results, Truncation DEF Laws!Steps, Laws!Sub, Laws!Sll
  <2> QED BY <2>3 DEF Laws!Next, RegistersAreWords
<1> QED BY <1>1, <1>2, PTL DEF Laws!Spec

\* 64-bit products are put together from mul and mulh or mulhu, for every even
\* number of values in a byte and every pair of words.
THEOREM ProductsHold == Laws!Spec => []HalvesOfProduct
<1>1. RegistersAreWords => HalvesOfProduct
  BY ProductHalves DEF RegistersAreWords
<1> QED BY <1>1, WordsInvariance, PTL

\* Quotients and remainders of all words, but the two divisions with no result.
THEOREM DivisionsHold == Laws!Spec => []OneDivision
<1>1. RegistersAreWords => OneDivision
  BY QuotientAndRemainder DEF RegistersAreWords
<1> QED BY <1>1, WordsInvariance, PTL

\* Comparisons, branches and shifts of all words.
THEOREM SignsHold == Laws!Spec => []SignsAgree
<1>1. RegistersAreWords => SignsAgree
  BY Orders, Shifts DEF RegistersAreWords, SignsAgree, Laws!SignsAgree
<1> QED BY <1>1, WordsInvariance, PTL

-----------------------------------------------------------------------------
(* The flags of open.                                                      *)

\* The name of each line of the two tables.
NameOf ==
  <<"O_RDONLY", "O_WRONLY", "O_RDWR", "O_APPEND", "O_CREAT", "O_TRUNC", "O_EXCL",
    "O_SYNC", "O_NONBLOCK", "O_NOCTTY">>

\* The two tables name the same flags in the same order.
LEMMA Tables ==
  /\ Len(Open!simIOFlags) = 10
  /\ NameOf \in [1 .. 10 -> Open!Names]
  /\ \A name \in Open!Names : \E j \in 1 .. 10 : NameOf[j] = name
  /\ \A j \in 1 .. 10 : /\ Open!simIOFlags[j] = Open!Sim[NameOf[j]]
                        /\ Open!hostIOFlags[j] = Host[NameOf[j]]
<1>1. Len(Open!simIOFlags) = 10
  BY DEF Open!simIOFlags
<1>2. \A j \in 1 .. 10 : \/ j = 1 \/ j = 2 \/ j = 3 \/ j = 4 \/ j = 5
                         \/ j = 6 \/ j = 7 \/ j = 8 \/ j = 9 \/ j = 10
  OBVIOUS
<1>3. NameOf \in [1 .. 10 -> Open!Names]
  BY <1>2 DEF NameOf, Open!Names, Open!Sim
<1>4. \A name \in Open!Names : \E j \in 1 .. 10 : NameOf[j] = name
  BY DEF NameOf, Open!Names, Open!Sim
<1>5. ASSUME NEW j \in 1 .. 10
      PROVE  /\ Open!simIOFlags[j] = Open!Sim[NameOf[j]]
             /\ Open!hostIOFlags[j] = Host[NameOf[j]]
  BY <1>2 DEF NameOf, Open!simIOFlags, Open!hostIOFlags
<1> QED BY <1>1, <1>3, <1>4, <1>5

\* Each of newlib's names is one bit; the read-only mode is none.
LEMMA OneBit ==
  \A name \in Open!Names : \A s :
    s \cap Open!Sim[name] # {} <=> Open!Sim[name] # {} /\ Open!Sim[name] \subseteq s
<1> SUFFICES ASSUME NEW name \in Open!Names
             PROVE  Open!Sim[name] = {} \/ \E bit : Open!Sim[name] = {bit}
  OBVIOUS
<1>1. name \in {"O_RDONLY", "O_WRONLY", "O_RDWR", "O_APPEND", "O_CREAT", "O_TRUNC",
                "O_EXCL", "O_SYNC", "O_NONBLOCK", "O_NOCTTY"}
  BY DEF Open!Names, Open!Sim
<1>2. /\ Open!Sim.O_RDONLY = {}   /\ Open!Sim.O_WRONLY = {0}    /\ Open!Sim.O_RDWR = {1}
      /\ Open!Sim.O_APPEND = {3}  /\ Open!Sim.O_CREAT = {9}     /\ Open!Sim.O_TRUNC = {10}
      /\ Open!Sim.O_EXCL = {11}   /\ Open!Sim.O_SYNC = {13}     /\ Open!Sim.O_NONBLOCK = {14}
      /\ Open!Sim.O_NOCTTY = {15}
  BY DEF Open!Sim
<1> QED BY <1>1, <1>2, Zenon

\* Up to this line, the bits of the names given.

Remapped ==
  /\ flags = word \cap 0 .. 31
  /\ row \in 1 .. 11
  /\ nflags = UNION {Open!hostIOFlags[j] : j \in {l \in 1 .. row - 1 : flags \cap Open!simIOFlags[l] # {}}}

LEMMA RemapInvariance == Open!Spec => []Remapped
<1>1. Open!Init => Remapped
  BY DEF Open!Init, Remapped
<1>2. Remapped /\ Open!Step => Remapped'
  <2> SUFFICES ASSUME Remapped, Open!Step PROVE Remapped'
    OBVIOUS
  <2>1. row \in 1 .. 10 /\ row' = row + 1 /\ flags' = flags /\ word' = word
    BY Tables DEF Remapped, Open!Step
  <2> DEFINE Rows(r) == {l \in 1 .. r - 1 : flags \cap Open!simIOFlags[l] # {}}
  <2>2. CASE flags \cap Open!simIOFlags[row] # {}
    <3>1. Rows(row') = Rows(row) \cup {row}
      BY <2>1, <2>2
    <3>2. nflags' = nflags \cup Open!hostIOFlags[row]
      BY <2>2 DEF Open!Step
    <3>3. nflags' = UNION {Open!hostIOFlags[j] : j \in Rows(row')}
      BY <3>1, <3>2 DEF Remapped
    <3> QED BY <2>1, <3>3 DEF Remapped
  <2>3. CASE flags \cap Open!simIOFlags[row] = {}
    <3>1. Rows(row') = Rows(row)
      BY <2>1, <2>3
    <3>2. nflags' = nflags
      BY <2>3 DEF Open!Step
    <3>3. nflags' = UNION {Open!hostIOFlags[j] : j \in Rows(row')}
      BY <3>1, <3>2 DEF Remapped
    <3> QED BY <2>1, <3>3 DEF Remapped
  <2> QED BY <2>2, <2>3
<1>3. Remapped /\ UNCHANGED Open!vars => Remapped'
  BY DEF Remapped, Open!vars
<1> QED BY <1>1, <1>2, <1>3, PTL DEF Open!Spec

\* Whatever word a guest sends, on every host that numbers its access modes as
\* newlib does and keeps its other flags apart.
THEOREM OpenFlagsHold == Open!Spec => []OpensAsAsked
<1>1. Remapped => OpensAsAsked
  <2> SUFFICES ASSUME Remapped, Open!Returned
               PROVE  LET given == {name \in Open!Names :
                                      Open!Sim[name] # {} /\ Open!Sim[name] \subseteq flags}
                      IN  /\ nflags \cap {0, 1} = word \cap {0, 1}
                          /\ \A name \in Open!Names :
                               Host[name] # {} => (Host[name] \subseteq nflags <=> name \in given)
                          /\ nflags \subseteq UNION {Host[name] : name \in given}
    BY DEF OpensAsAsked, Open!OpensAsAsked
  <2> DEFINE given == {name \in Open!Names :
                         Open!Sim[name] # {} /\ Open!Sim[name] \subseteq flags}
  <2>1. row = 11
    BY Tables DEF Open!Returned, Remapped
  <2>2. \A name \in Open!Names : name \in given <=> flags \cap Open!Sim[name] # {}
    BY OneBit
  <2>3. nflags = UNION {Host[name] : name \in given}
    <3>1. ASSUME NEW bit PROVE bit \in nflags <=> \E name \in given : bit \in Host[name]
      <4>1. bit \in nflags <=> \E j \in 1 .. 10 : /\ flags \cap Open!simIOFlags[j] # {}
                                                  /\ bit \in Open!hostIOFlags[j]
        BY <2>1 DEF Remapped
      <4>2. bit \in nflags <=> \E j \in 1 .. 10 : NameOf[j] \in given /\ bit \in Host[NameOf[j]]
        BY <2>2, <4>1, Tables
      <4> QED BY <4>2, Tables
    <3> QED BY <3>1
  <2>4. /\ "O_WRONLY" \in given <=> 0 \in word
        /\ "O_RDWR" \in given <=> 1 \in word
        /\ "O_RDONLY" \notin given
    BY DEF Remapped, Open!Names, Open!Sim
  <2> HIDE DEF given
  <2>5. \A name \in given : name \in Open!Names
    BY DEF given
  <2>6. nflags \cap {0, 1} = word \cap {0, 1}
    <3>1. 0 \in nflags <=> "O_WRONLY" \in given
      BY <2>3, <2>5, HostNames
    <3>2. 1 \in nflags <=> "O_RDWR" \in given
      BY <2>3, <2>5, HostNames
    <3> QED BY <2>4, <3>1, <3>2
  <2>7. ASSUME NEW name \in Open!Names, Host[name] # {}, Host[name] \subseteq nflags
        PROVE  name \in given
    <3>1. name # "O_RDONLY"
      BY <2>7, HostNames
    <3>2. \E bit \in Host[name] : \A m \in Open!Names \ {name} : bit \notin Host[m]
      BY <3>1, HostNames
    <3>3. PICK bit \in Host[name] : \A m \in Open!Names \ {name} : bit \notin Host[m]
      BY <3>2
    <3>4. bit \in nflags
      BY <2>7
    <3>5. PICK m \in given : bit \in Host[m]
      BY <2>3, <3>4
    <3> QED BY <2>5, <3>3, <3>5
  <2> QED BY <2>3, <2>6, <2>7 DEF given
<1> QED BY <1>1, RemapInvariance, PTL

-----------------------------------------------------------------------------
(* The numbers that bits make.                                             *)

\* What holds at bit 31, and at a bit if at the one above it, holds at all.
Inherited(S) == \A b \in 0 .. 30 : b + 1 \in S => b \in S

LEMMA Downward ==
  ASSUME NEW S, 31 \in S, Inherited(S)
  PROVE  \A b \in 0 .. 31 : b \in S
<1> SUFFICES ASSUME NEW b0 \in 0 .. 31, b0 \notin S PROVE FALSE
  OBVIOUS
<1> DEFINE D == {e \in 0 .. 31 : 31 - e \notin S}
<1>1. D \in SUBSET Nat
  OBVIOUS
<1>2. D # {}
  <2>1. 31 - b0 \in 0 .. 31 /\ 31 - (31 - b0) = b0
    OBVIOUS
  <2> QED BY <2>1
<1>3. PICK m \in D : \A e \in D : <<e, m>> \notin OpToRel(<, Nat)
  BY <1>1, <1>2, WFMin, NatLessThanWellFounded, Zenon
<1>4. \A e \in D : ~(e < m)
  BY <1>1, <1>3, Zenon DEF OpToRel
<1>5. m \in 0 .. 31 /\ 31 - m \notin S /\ m # 0
  <2>1. 31 - 0 = 31
    OBVIOUS
  <2> QED BY <2>1
<1>6. m - 1 \in 0 .. 31 /\ 31 - m \in 0 .. 30 /\ (31 - m) + 1 = 31 - (m - 1) /\ m - 1 < m
  BY <1>5
<1>7. 31 - (m - 1) \in S
  BY <1>4, <1>6
<1> QED BY <1>5, <1>6, <1>7 DEF Inherited

\* The recursion of From ends in a function of integers.
LEMMA FromExists ==
  ASSUME NEW set
  PROVE  \E f \in [0 .. 31 -> Int] :
           /\ f[31] = -Words!Has(set, 31)
           /\ \A b \in 0 .. 30 : f[b] = Words!Has(set, b) + 2 * f[b + 1]
<1> DEFINE Above(f, low) ==
             /\ f[31] = -Words!Has(set, 31)
             /\ \A b \in 0 .. 30 : b >= low => f[b] = Words!Has(set, b) + 2 * f[b + 1]
           S == {low \in 0 .. 31 : \E f \in [0 .. 31 -> Int] : Above(f, low)}
<1>1. \A b : Words!Has(set, b) \in Int
  BY DEF Words!Has
<1>2. 31 \in S
  <2> DEFINE f == [b \in 0 .. 31 |-> -Words!Has(set, 31)]
  <2>1. f \in [0 .. 31 -> Int]
    BY <1>1
  <2>2. f[31] = -Words!Has(set, 31)
    OBVIOUS
  <2> HIDE DEF f
  <2>3. Above(f, 31)
    BY <2>2
  <2> QED BY <2>1, <2>3
<1>3. ASSUME NEW low \in 0 .. 30, low + 1 \in S PROVE low \in S
  <2>1. PICK f \in [0 .. 31 -> Int] : Above(f, low + 1)
    BY <1>3
  <2> DEFINE v == Words!Has(set, low) + 2 * f[low + 1]
             g == [f EXCEPT ![low] = v]
  <2>2. v \in Int
    BY <1>1
  <2> HIDE DEF v
  <2>3. g \in [0 .. 31 -> Int]
    BY <2>2
  <2>4. g[low] = v /\ \A b \in 0 .. 31 : b # low => g[b] = f[b]
    OBVIOUS
  <2> HIDE DEF g
  <2>5. Above(g, low)
    <3>1. g[31] = -Words!Has(set, 31)
      BY <2>1, <2>4
    <3>2. ASSUME NEW b \in 0 .. 30, b >= low
          PROVE  g[b] = Words!Has(set, b) + 2 * g[b + 1]
      <4>1. b + 1 \in 0 .. 31 /\ b + 1 # low
        BY <3>2
      <4>2. CASE b = low
        BY <2>4, <4>1, <4>2 DEF v
      <4>3. CASE b # low
        <5>1. b >= low + 1
          BY <3>2, <4>3
        <5>2. f[b] = Words!Has(set, b) + 2 * f[b + 1]
          BY <2>1, <5>1
        <5> QED BY <2>4, <4>1, <4>3, <5>2
      <4> QED BY <4>2, <4>3
    <3> QED BY <3>1, <3>2
  <2> QED BY <2>3, <2>5
<1> HIDE DEF S
<1>4. 0 \in S
  <2>1. \A b \in 0 .. 31 : b \in S
    <3>1. Inherited(S)
      BY <1>3 DEF Inherited
    <3> QED BY <1>2, <3>1, Downward
  <2> QED BY <2>1
<1> QED BY <1>4 DEF S

LEMMA FromIs ==
  ASSUME NEW set
  PROVE  /\ \A b \in 0 .. 31 : Words!From(set)[b] \in Int
         /\ Words!From(set)[31] = -Words!Has(set, 31)
         /\ \A b \in 0 .. 30 :
              Words!From(set)[b] = Words!Has(set, b) + 2 * Words!From(set)[b + 1]
<1> DEFINE Whole(f) == f = [b \in 0 .. 31 |-> IF b = 31 THEN -Words!Has(set, 31)
                                               ELSE Words!Has(set, b) + 2 * f[b + 1]]
           number == CHOOSE f : Whole(f)
<1>1. PICK f \in [0 .. 31 -> Int] :
        /\ f[31] = -Words!Has(set, 31)
        /\ \A b \in 0 .. 30 : f[b] = Words!Has(set, b) + 2 * f[b + 1]
  BY FromExists
<1>2. Whole(f)
  <2>1. \A b \in 0 .. 31 : f[b] = IF b = 31 THEN -Words!Has(set, 31)
                                  ELSE Words!Has(set, b) + 2 * f[b + 1]
    BY <1>1
  <2> QED BY <2>1
<1>3. Whole(number)
  <2> HIDE DEF Whole
  <2> QED BY <1>2
<1>4. number = Words!From(set)
  BY DEF Words!From
<1> HIDE DEF number
<1>5. /\ number[31] = -Words!Has(set, 31)
      /\ \A b \in 0 .. 30 : number[b] = Words!Has(set, b) + 2 * number[b + 1]
  <2>1. \A b \in 0 .. 31 : number[b] = IF b = 31 THEN -Words!Has(set, 31)
                                       ELSE Words!Has(set, b) + 2 * number[b + 1]
    BY <1>3
  <2> QED BY <2>1
<1>6. \A b \in 0 .. 31 : number[b] \in Int
  <2> HIDE DEF Whole
  <2> DEFINE S == {b \in 0 .. 31 : number[b] \in Int}
  <2>1. 31 \in S
    BY <1>5 DEF Words!Has
  <2>2. Inherited(S)
    BY <1>5 DEF Words!Has, Inherited
  <2> HIDE DEF S
  <2>3. \A b \in 0 .. 31 : b \in S
    BY <2>1, <2>2, Downward
  <2> QED BY <2>3 DEF S
<1> QED BY <1>4, <1>5, <1>6

\* From a bit on, all bits are alike: the bit 31 that extends them.
LEMMA Extended ==
  ASSUME NEW set, NEW low \in 0 .. 31, NEW h \in Int,
         \A b \in low .. 31 : Words!Has(set, b) = h
  PROVE  Words!From(set)[low] = -h /\ (h = 0 => Words!From(set)[low] = 0)
<1> DEFINE F == Words!From(set)
           S == {b \in 0 .. 31 : b >= low => F[b] = -h}
<1>1. /\ F[31] = -Words!Has(set, 31)
      /\ \A b \in 0 .. 30 : F[b] = Words!Has(set, b) + 2 * F[b + 1]
  BY FromIs
<1> HIDE DEF F
<1>2. 31 \in S
  BY <1>1
<1>3. ASSUME NEW b \in 0 .. 30, b + 1 \in S, b >= low PROVE F[b] = -h
  <2>1. F[b + 1] = -h /\ Words!Has(set, b) = h
    BY <1>3
  <2> QED BY <1>1, <2>1
<1> HIDE DEF S
<1>4. \A b \in 0 .. 31 : b \in S
  <2>1. Inherited(S)
    BY <1>3 DEF S, Inherited
  <2> QED BY <1>2, <2>1, Downward
<1>5. F[low] = -h
  BY <1>4 DEF S
<1> QED BY <1>5 DEF F

\* Two and four bits from a place on.
Two(set, b)  == Words!Has(set, b) + 2 * Words!Has(set, b + 1)
Four(set, b) == Two(set, b) + 4 * Two(set, b + 2)

LEMMA Digits ==
  ASSUME NEW set
  PROVE  /\ \A b \in Int : /\ Words!Has(set, b) \in 0 .. 1
                           /\ Two(set, b) \in 0 .. 3
                           /\ Four(set, b) \in 0 .. 15
         /\ \A b \in 0 .. 29 : Words!From(set)[b] = Two(set, b) + 4 * Words!From(set)[b + 2]
         /\ \A b \in 0 .. 27 : Words!From(set)[b] = Four(set, b) + 16 * Words!From(set)[b + 4]
<1> DEFINE F == Words!From(set)
<1>1. \A b : Words!Has(set, b) \in 0 .. 1
  BY DEF Words!Has
<1>2. \A b \in Int : Two(set, b) \in 0 .. 3
  BY <1>1 DEF Two
<1>3. \A b \in Int : Four(set, b) \in 0 .. 15
  BY <1>2 DEF Four
<1>4. /\ \A b \in 0 .. 31 : F[b] \in Int
      /\ \A b \in 0 .. 30 : F[b] = Words!Has(set, b) + 2 * F[b + 1]
  BY FromIs
<1> HIDE DEF F
<1>5. ASSUME NEW b \in 0 .. 29 PROVE F[b] = Two(set, b) + 4 * F[b + 2]
  <2>1. b + 1 \in 0 .. 30 /\ b \in 0 .. 30 /\ (b + 1) + 1 = b + 2 /\ b + 2 \in 0 .. 31
    OBVIOUS
  <2>2. F[b] = Words!Has(set, b) + 2 * F[b + 1] /\ F[b + 1] = Words!Has(set, b + 1) + 2 * F[b + 2]
    BY <1>4, <2>1
  <2> QED BY <1>1, <1>4, <2>1, <2>2 DEF Two
<1>6. ASSUME NEW b \in 0 .. 27 PROVE F[b] = Four(set, b) + 16 * F[b + 4]
  <2>1. b + 2 \in 0 .. 29 /\ b \in 0 .. 29 /\ (b + 2) + 2 = b + 4 /\ b + 4 \in 0 .. 31
        /\ b + 2 \in Int
    OBVIOUS
  <2>2. F[b] = Two(set, b) + 4 * F[b + 2] /\ F[b + 2] = Two(set, b + 2) + 4 * F[b + 4]
    BY <1>5, <2>1
  <2>3. F[b + 2] \in Int /\ F[b + 4] \in Int /\ Two(set, b) \in Int /\ Two(set, b + 2) \in Int
    BY <1>2, <1>4, <2>1
  <2> QED BY <2>2, <2>3 DEF Four
<1> QED BY <1>1, <1>2, <1>3, <1>5, <1>6 DEF F

-----------------------------------------------------------------------------
(* The formats.                                                            *)

Bit(b) == Words!Has(inst, b)

\* The parts of a word that no field and no immediate takes apart further: the
\* bits from each place to the next.
At0  == Four(inst, 0) + 16 * Two(inst, 4) + 64 * Bit(6)
At7  == Bit(7)
At8  == Four(inst, 8)
At12 == Two(inst, 12) + 4 * Bit(14)
At15 == Four(inst, 15) + 16 * Bit(19)
At20 == Bit(20)
At21 == Four(inst, 21)
At25 == Four(inst, 25) + 16 * Two(inst, 29)
Top  == Bit(31)

\* A word of these parts.
MadeOf(w) ==
  /\ At0 \in 0 .. 127 /\ At7 \in 0 .. 1 /\ At8 \in 0 .. 15 /\ At12 \in 0 .. 7
  /\ At15 \in 0 .. 31 /\ At20 \in 0 .. 1 /\ At21 \in 0 .. 15 /\ At25 \in 0 .. 63
  /\ Top \in 0 .. 1
  /\ w = At0 + 128 * At7 + 256 * At8 + 4096 * At12 + 32768 * At15 + 1048576 * At20
           + 2097152 * At21 + 33554432 * At25 - 2147483648 * Top

LEMMA Parts ==
  /\ MadeOf(Words!inst)
  /\ Words!inst = At0 + 128 * At7 + 256 * At8 + 4096 * Words!From(inst)[12]
<1> DEFINE F == Words!From(inst)
<1>1. /\ \A b \in Int : /\ Words!Has(inst, b) \in 0 .. 1
                        /\ Two(inst, b) \in 0 .. 3
                        /\ Four(inst, b) \in 0 .. 15
      /\ \A b \in 0 .. 29 : F[b] = Two(inst, b) + 4 * F[b + 2]
      /\ \A b \in 0 .. 27 : F[b] = Four(inst, b) + 16 * F[b + 4]
  BY Digits
<1>2. /\ \A b \in 0 .. 31 : F[b] \in Int
      /\ F[31] = -Words!Has(inst, 31)
      /\ \A b \in 0 .. 30 : F[b] = Words!Has(inst, b) + 2 * F[b + 1]
  BY FromIs
<1> HIDE DEF F
<1>3. /\ At0 \in 0 .. 127 /\ At7 \in 0 .. 1 /\ At8 \in 0 .. 15 /\ At12 \in 0 .. 7
      /\ At15 \in 0 .. 31 /\ At20 \in 0 .. 1 /\ At21 \in 0 .. 15 /\ At25 \in 0 .. 63
      /\ Top \in 0 .. 1
  BY <1>1, SMT DEF At0, At7, At8, At12, At15, At20, At21, At25, Top, Bit
<1>4. F[0] = At0 + 128 * F[7]
  <2>1. F[0] = Four(inst, 0) + 16 * F[4]
    BY <1>1, SMT
  <2>2. F[4] = Two(inst, 4) + 4 * F[6]
    BY <1>1, SMT
  <2>3. F[6] = Bit(6) + 2 * F[7]
    BY <1>2, SMT DEF Bit
  <2>4. /\ F[0] \in Int /\ F[4] \in Int /\ F[6] \in Int /\ F[7] \in Int
        /\ Four(inst, 0) \in Int /\ Two(inst, 4) \in Int /\ Bit(6) \in Int
    BY <1>1, <1>2, SMT DEF Bit
  <2> QED BY <2>1, <2>2, <2>3, <2>4, SMT DEF At0
<1>5. F[7] = At7 + 2 * F[8] /\ F[8] = At8 + 16 * F[12]
  BY <1>1, <1>2, SMT DEF At7, At8, Bit
<1>6. F[12] = At12 + 8 * F[15]
  <2>1. F[12] = Two(inst, 12) + 4 * F[14]
    BY <1>1, SMT
  <2>2. F[14] = Bit(14) + 2 * F[15]
    BY <1>2, SMT DEF Bit
  <2>3. F[14] \in Int /\ F[15] \in Int /\ Two(inst, 12) \in Int /\ Bit(14) \in Int
    BY <1>1, <1>2, SMT DEF Bit
  <2> QED BY <2>1, <2>2, <2>3, SMT DEF At12
<1>7. F[15] = At15 + 32 * F[20]
  <2>1. F[15] = Four(inst, 15) + 16 * F[19]
    BY <1>1, SMT
  <2>2. F[19] = Bit(19) + 2 * F[20]
    BY <1>2, SMT DEF Bit
  <2>3. F[19] \in Int /\ F[20] \in Int /\ Four(inst, 15) \in Int /\ Bit(19) \in Int
    BY <1>1, <1>2, SMT DEF Bit
  <2> QED BY <2>1, <2>2, <2>3, SMT DEF At15
<1>8. F[20] = At20 + 2 * F[21] /\ F[21] = At21 + 16 * F[25]
  BY <1>1, <1>2, SMT DEF At20, At21, Bit
<1>9. F[25] = At25 - 64 * Top
  <2>1. F[25] = Four(inst, 25) + 16 * F[29]
    BY <1>1, SMT
  <2>2. F[29] = Two(inst, 29) + 4 * F[31]
    BY <1>1, SMT
  <2>3. F[31] = -Top
    BY <1>2 DEF Top, Bit
  <2>4. F[29] \in Int /\ Top \in Int /\ Four(inst, 25) \in Int /\ Two(inst, 29) \in Int
    BY <1>1, <1>2, <1>3, SMT
  <2> QED BY <2>1, <2>2, <2>3, <2>4, SMT DEF At25
<1>10. /\ F[7] \in Int /\ F[8] \in Int /\ F[12] \in Int /\ F[15] \in Int /\ F[20] \in Int
       /\ F[21] \in Int /\ F[25] \in Int
  BY <1>2, SMT
<1>11. Words!inst = F[0]
  BY DEF Words!inst, Words!Number, F
<1>12. F[0] = At0 + 128 * At7 + 256 * At8 + 4096 * At12 + 32768 * At15 + 1048576 * At20
                + 2097152 * At21 + 33554432 * At25 - 2147483648 * Top
  BY <1>3, <1>4, <1>5, <1>6, <1>7, <1>8, <1>9, <1>10, SMT
<1>13. F[0] = At0 + 128 * At7 + 256 * At8 + 4096 * F[12]
  BY <1>3, <1>4, <1>5, <1>10, SMT
<1> QED BY <1>3, <1>11, <1>12, <1>13 DEF MadeOf, F

\* What is left of a word when the bits below a place are cut off.
Rest25 == At25 - 64 * Top
Rest21 == At21 + 16 * Rest25
Rest20 == At20 + 2 * Rest21
Rest15 == At15 + 32 * Rest20
Rest12 == At12 + 8 * Rest15
Rest8  == At8 + 16 * Rest12
Rest7  == At7 + 2 * Rest8

LEMMA Cuts ==
  ASSUME NEW w, MadeOf(w)
  PROVE  /\ w \in Int /\ Words!Sign(w) = Top
         /\ Rest7 \in Int /\ Rest8 \in Int /\ Rest12 \in Int /\ Rest15 \in Int
         /\ Rest20 \in Int /\ Rest21 \in Int /\ Rest25 \in Int
         /\ w \div 128 = Rest7 /\ w \div 256 = Rest8 /\ w \div 4096 = Rest12
         /\ w \div 32768 = Rest15 /\ w \div 1048576 = Rest20
         /\ w \div 2097152 = Rest21 /\ w \div 33554432 = Rest25
         /\ w % 4096 = At0 + 128 * At7 + 256 * At8
<1> DEFINE l8  == At0 + 128 * At7
           l12 == l8 + 256 * At8
           l15 == l12 + 4096 * At12
           l20 == l15 + 32768 * At15
           l21 == l20 + 1048576 * At20
           l25 == l21 + 2097152 * At21
<1>1. /\ At0 \in 0 .. 127 /\ At7 \in 0 .. 1 /\ At8 \in 0 .. 15 /\ At12 \in 0 .. 7
      /\ At15 \in 0 .. 31 /\ At20 \in 0 .. 1 /\ At21 \in 0 .. 15 /\ At25 \in 0 .. 63
      /\ Top \in 0 .. 1
      /\ w = At0 + 128 * At7 + 256 * At8 + 4096 * At12 + 32768 * At15 + 1048576 * At20
               + 2097152 * At21 + 33554432 * At25 - 2147483648 * Top
  BY DEF MadeOf
<1>2. w \in Int /\ Words!Sign(w) = Top
  BY <1>1, SMT DEF Words!Sign
<1>3. l8 \in Int /\ 0 <= l8 /\ l8 < 256
  BY <1>1, SMT
<1>4. l12 = l8 + 256 * At8
  OBVIOUS
<1> HIDE DEF l8
<1>5. l12 \in Int /\ 0 <= l12 /\ l12 < 4096
  BY <1>1, <1>3, SMT
<1> HIDE DEF l12
<1>6. l15 \in Int /\ 0 <= l15 /\ l15 < 32768
  BY <1>1, <1>5, SMT
<1> HIDE DEF l15
<1>7. l20 \in Int /\ 0 <= l20 /\ l20 < 1048576
  BY <1>1, <1>6, SMT
<1> HIDE DEF l20
<1>8. l21 \in Int /\ 0 <= l21 /\ l21 < 2097152
  BY <1>1, <1>7, SMT
<1> HIDE DEF l21
<1>9. l25 \in Int /\ 0 <= l25 /\ l25 < 33554432
  BY <1>1, <1>8, SMT
<1>10. w = l25 + 33554432 * Rest25 /\ Rest25 \in Int
  BY <1>1, SMT DEF l8, l12, l15, l20, l21, l25, Rest25
<1>11. w = l21 + 2097152 * Rest21 /\ Rest21 \in Int
  BY <1>1, <1>8, <1>10, SMT DEF l25, Rest21
<1>12. w = l20 + 1048576 * Rest20 /\ Rest20 \in Int
  BY <1>1, <1>7, <1>11, SMT DEF l21, Rest20
<1>13. w = l15 + 32768 * Rest15 /\ Rest15 \in Int
  BY <1>1, <1>6, <1>12, SMT DEF l20, Rest15
<1>14. w = l12 + 4096 * Rest12 /\ Rest12 \in Int
  BY <1>1, <1>5, <1>13, SMT DEF l15, Rest12
<1>15. w = l8 + 256 * Rest8 /\ Rest8 \in Int
  BY <1>1, <1>3, <1>14, SMT DEF l12, Rest8
<1>16. w = At0 + 128 * Rest7 /\ Rest7 \in Int
  BY <1>1, <1>15, SMT DEF l8, Rest7
<1> HIDE DEF l25
<1>17. w \div 128 = Rest7 /\ w \div 256 = Rest8 /\ w \div 4096 = Rest12 /\ w % 4096 = l12
  <2>1. At0 \in Int /\ 0 <= At0 /\ At0 < 128
    BY <1>1
  <2>2. w \div 128 = Rest7
    BY <1>16, <2>1, SMT
  <2>3. w \div 256 = Rest8
    BY <1>3, <1>15, SMT
  <2>4. w \div 4096 = Rest12 /\ w % 4096 = l12
    BY <1>5, <1>14, SMT
  <2> QED BY <2>2, <2>3, <2>4
<1>18. w \div 32768 = Rest15
  BY <1>6, <1>13, SMT
<1>19. w \div 1048576 = Rest20
  BY <1>7, <1>12, SMT
<1>20. w \div 2097152 = Rest21
  BY <1>8, <1>11, SMT
<1>21. w \div 33554432 = Rest25
  BY <1>9, <1>10, SMT
<1>22. w % 4096 = At0 + 128 * At7 + 256 * At8
  BY <1>17 DEF l8, l12
<1> QED BY <1>2, <1>10, <1>11, <1>12, <1>13, <1>14, <1>15, <1>16, <1>17, <1>18, <1>19,
           <1>20, <1>21, <1>22, SMT

\* What the fields read of such a word.
LEMMA FieldsRead ==
  ASSUME NEW w, MadeOf(w)
  PROVE  /\ Words!Field(w, 128, 32) = At7 + 2 * At8
         /\ Words!Field(w, 4096, 8) = At12
         /\ Words!Field(w, 32768, 32) = At15
         /\ Words!Field(w, 1048576, 32) = At20 + 2 * At21
         /\ Words!Field(w, 33554432, 128) = At25 + 64 * Top
         /\ Words!Field(w, 1048576, 4096) = At20 + 2 * At21 + 32 * At25 + 2048 * Top
         /\ Words!Field(w, 128, 2) = At7
         /\ Words!Field(w, 256, 16) = At8
         /\ Words!Field(w, 33554432, 64) = At25
         /\ Words!Field(w, 4096, 256) = At12 + 8 * At15
         /\ Words!Field(w, 1048576, 2) = At20
         /\ Words!Field(w, 2097152, 1024) = At21 + 16 * At25
<1>1. /\ At7 \in 0 .. 1 /\ At8 \in 0 .. 15 /\ At12 \in 0 .. 7
      /\ At15 \in 0 .. 31 /\ At20 \in 0 .. 1 /\ At21 \in 0 .. 15 /\ At25 \in 0 .. 63
      /\ Top \in 0 .. 1
  BY DEF MadeOf
<1>2. /\ Rest8 \in Int /\ Rest12 \in Int /\ Rest15 \in Int
      /\ Rest20 \in Int /\ Rest21 \in Int /\ Rest25 \in Int
  BY Cuts
<1>3. /\ w \div 128 = Rest7 /\ w \div 256 = Rest8 /\ w \div 4096 = Rest12
      /\ w \div 32768 = Rest15 /\ w \div 1048576 = Rest20
      /\ w \div 2097152 = Rest21 /\ w \div 33554432 = Rest25
  BY Cuts
<1>4. Rest7 % 32 = At7 + 2 * At8 /\ Rest7 % 2 = At7 /\ Rest8 % 16 = At8
  BY <1>1, <1>2, SMT DEF Rest7, Rest8
<1>5. Rest12 % 8 = At12 /\ Rest12 % 256 = At12 + 8 * At15 /\ Rest15 % 32 = At15
  BY <1>1, <1>2, SMT DEF Rest12, Rest15
<1>6. Rest20 % 2 = At20 /\ Rest20 % 32 = At20 + 2 * At21
  BY <1>1, <1>2, SMT DEF Rest20, Rest21
<1>7. Rest20 % 4096 = At20 + 2 * At21 + 32 * At25 + 2048 * Top
  BY <1>1, SMT DEF Rest20, Rest21, Rest25
<1>8. Rest21 % 1024 = At21 + 16 * At25
  BY <1>1, SMT DEF Rest21, Rest25
<1>9. Rest25 % 128 = At25 + 64 * Top /\ Rest25 % 64 = At25
  BY <1>1, SMT DEF Rest25
<1> QED BY <1>3, <1>4, <1>5, <1>6, <1>7, <1>8, <1>9, SMT DEF Words!Field

LEMMA ImmediatesRead ==
  ASSUME NEW w, MadeOf(w)
  PROVE  /\ Words!ImmI(w) = At20 + 2 * At21 + 32 * At25 - 2048 * Top
         /\ Words!ImmS(w) = At7 + 2 * At8 + 32 * At25 - 2048 * Top
         /\ Words!ImmB(w) = 2 * At8 + 32 * At25 + 2048 * At7 - 4096 * Top
         /\ Words!ImmU(w) = w - (At0 + 128 * At7 + 256 * At8)
         /\ Words!ImmJ(w) = 2 * At21 + 32 * At25 + 2048 * At20 + 4096 * At12 + 32768 * At15
                              - 1048576 * Top
<1>1. /\ Words!Field(w, 128, 32) = At7 + 2 * At8
      /\ Words!Field(w, 33554432, 128) = At25 + 64 * Top
      /\ Words!Field(w, 1048576, 4096) = At20 + 2 * At21 + 32 * At25 + 2048 * Top
      /\ Words!Field(w, 128, 2) = At7
      /\ Words!Field(w, 256, 16) = At8
      /\ Words!Field(w, 33554432, 64) = At25
      /\ Words!Field(w, 4096, 256) = At12 + 8 * At15
      /\ Words!Field(w, 1048576, 2) = At20
      /\ Words!Field(w, 2097152, 1024) = At21 + 16 * At25
  BY FieldsRead
<1>2. /\ Words!Sign(w) = Top /\ w \in Int
      /\ w % 4096 = At0 + 128 * At7 + 256 * At8
  BY Cuts
<1>3. /\ At0 \in Int /\ At7 \in Int /\ At8 \in Int /\ At12 \in Int /\ At15 \in Int
      /\ At20 \in Int /\ At21 \in Int /\ At25 \in Int /\ Top \in Int
  BY SMT DEF MadeOf
<1>4. Words!ImmI(w) = At20 + 2 * At21 + 32 * At25 - 2048 * Top
  BY <1>1, <1>2, <1>3, SMT DEF Words!ImmI, Words!imm11_0
<1>5. Words!ImmS(w) = At7 + 2 * At8 + 32 * At25 - 2048 * Top
  BY <1>1, <1>2, <1>3, SMT DEF Words!ImmS, Words!store_t
<1>6. Words!ImmB(w) = 2 * At8 + 32 * At25 + 2048 * At7 - 4096 * Top
  BY <1>1, <1>2, <1>3, SMT DEF Words!ImmB, Words!branch_t
<1>7. Words!ImmU(w) = w - (At0 + 128 * At7 + 256 * At8)
  BY <1>2 DEF Words!ImmU
<1>8. Words!ImmJ(w) = 2 * At21 + 32 * At25 + 2048 * At20 + 4096 * At12 + 32768 * At15
                        - 1048576 * Top
  BY <1>1, <1>2, <1>3, SMT DEF Words!ImmJ, Words!jal_t
<1> QED BY <1>4, <1>5, <1>6, <1>7, <1>8

\* Numbers with the same bits from a place on.
LEMMA Alike ==
  ASSUME NEW p, NEW q, NEW low \in 0 .. 31,
         \A b \in low .. 31 : Words!Has(p, b) = Words!Has(q, b)
  PROVE  Words!From(p)[low] = Words!From(q)[low]
<1> DEFINE F == Words!From(p)
           G == Words!From(q)
           S == {b \in 0 .. 31 : b >= low => F[b] = G[b]}
<1>1. /\ F[31] = -Words!Has(p, 31)
      /\ \A b \in 0 .. 30 : F[b] = Words!Has(p, b) + 2 * F[b + 1]
  BY FromIs
<1>2. /\ G[31] = -Words!Has(q, 31)
      /\ \A b \in 0 .. 30 : G[b] = Words!Has(q, b) + 2 * G[b + 1]
  BY FromIs
<1> HIDE DEF F, G
<1>3. 31 \in S
  BY <1>1, <1>2
<1>4. ASSUME NEW b \in 0 .. 30, b + 1 \in S, b >= low PROVE F[b] = G[b]
  <2>1. F[b + 1] = G[b + 1] /\ Words!Has(p, b) = Words!Has(q, b)
    BY <1>4
  <2> QED BY <1>1, <1>2, <2>1
<1> HIDE DEF S
<1>5. \A b \in 0 .. 31 : b \in S
  <2>1. Inherited(S)
    BY <1>4 DEF S, Inherited
  <2> QED BY <1>3, <2>1, Downward
<1> QED BY <1>5 DEF S, F, G

\* Where the bits of an immediate come from.
Drawn(format) == {b \in DOMAIN format : format[b] \in inst}

LEMMA DrawnIs ==
  ASSUME NEW format, NEW b
  PROVE  /\ b \in DOMAIN format => Words!Has(Drawn(format), b) = Bit(format[b])
         /\ b \notin DOMAIN format => Words!Has(Drawn(format), b) = 0
BY DEF Drawn, Words!Has, Bit

\* Bits 5 to 10 of every immediate but the upper one are bits 25 to 30.
LEMMA Middle ==
  ASSUME NEW s, \A b \in 5 .. 10 : Words!Has(s, b) = Bit(20 + b)
  PROVE  /\ Words!From(s)[5] = At25 + 64 * Words!From(s)[11]
         /\ Words!From(s)[1] = Four(s, 1) + 16 * Words!From(s)[5]
         /\ Words!From(s)[0] = Words!Has(s, 0) + 2 * Words!From(s)[1]
         /\ Words!From(s)[11] = Words!Has(s, 11) + 2 * Words!From(s)[12]
         /\ \A b \in 0 .. 31 : Words!From(s)[b] \in Int
<1> DEFINE F == Words!From(s)
<1>1. /\ \A b \in 0 .. 29 : F[b] = Two(s, b) + 4 * F[b + 2]
      /\ \A b \in 0 .. 27 : F[b] = Four(s, b) + 16 * F[b + 4]
      /\ \A b \in Int : Two(s, b) \in 0 .. 3 /\ Four(s, b) \in 0 .. 15
  BY Digits
<1>2. /\ \A b \in 0 .. 31 : F[b] \in Int
      /\ \A b \in 0 .. 30 : F[b] = Words!Has(s, b) + 2 * F[b + 1]
  BY FromIs
<1> HIDE DEF F
<1>3. F[5] = Four(s, 5) + 16 * F[9] /\ F[9] = Two(s, 9) + 4 * F[11] /\ F[1] = Four(s, 1) + 16 * F[5]
  BY <1>1, SMT
<1>4. F[0] = Words!Has(s, 0) + 2 * F[1] /\ F[11] = Words!Has(s, 11) + 2 * F[12]
  BY <1>2, SMT
<1>5. Four(s, 5) = Four(inst, 25) /\ Two(s, 9) = Two(inst, 29)
  <2>1. /\ Words!Has(s, 5) = Bit(25) /\ Words!Has(s, 6) = Bit(26) /\ Words!Has(s, 7) = Bit(27)
        /\ Words!Has(s, 8) = Bit(28) /\ Words!Has(s, 9) = Bit(29) /\ Words!Has(s, 10) = Bit(30)
    OBVIOUS
  <2> QED BY <2>1, SMT DEF Four, Two, Bit
<1>6. /\ F[9] \in Int /\ F[11] \in Int /\ Four(s, 5) \in Int /\ Two(s, 9) \in Int
  BY <1>1, <1>2, SMT
<1>7. F[5] = At25 + 64 * F[11]
  BY <1>3, <1>5, <1>6, SMT DEF At25
<1> QED BY <1>2, <1>3, <1>4, <1>7 DEF F

LEMMA DrawnI == Words!Number(Drawn(Words!Formats.I)) = At20 + 2 * At21 + 32 * At25 - 2048 * Top
<1> DEFINE f == Words!Formats.I
           s == Drawn(f)
           F == Words!From(s)
<1>1. f = [b \in 0 .. 31 |-> IF b <= 10 THEN 20 + b ELSE 31]
  BY DEF Words!Formats
<1> HIDE DEF f
<1>2. \A b \in 0 .. 31 : Words!Has(s, b) = IF b <= 10 THEN Bit(20 + b) ELSE Top
  BY <1>1, DrawnIs DEF Top
<1> HIDE DEF s
<1>3. F[11] = -Top
  <2>1. Top \in Int /\ \A b \in 11 .. 31 : Words!Has(s, b) = Top
    BY <1>2 DEF Top, Bit, Words!Has
  <2> QED BY <2>1, Extended
<1>4. /\ F[5] = At25 + 64 * F[11] /\ F[1] = Four(s, 1) + 16 * F[5]
      /\ F[0] = Words!Has(s, 0) + 2 * F[1]
  <2>1. \A b \in 5 .. 10 : Words!Has(s, b) = Bit(20 + b)
    BY <1>2
  <2> QED BY <2>1, Middle
<1> HIDE DEF F
<1>5. Words!Has(s, 0) = At20
  BY <1>2 DEF At20
<1>6. Four(s, 1) = At21
  <2>1. /\ Words!Has(s, 1) = Bit(21) /\ Words!Has(s, 2) = Bit(22)
        /\ Words!Has(s, 3) = Bit(23) /\ Words!Has(s, 4) = Bit(24)
    BY <1>2
  <2> QED BY <2>1, SMT DEF Four, Two, At21, Bit
<1>7. At20 \in Int /\ At21 \in Int /\ At25 \in Int /\ Top \in Int
  BY Parts DEF MadeOf
<1>8. F[0] = At20 + 2 * At21 + 32 * At25 - 2048 * Top
  BY <1>3, <1>4, <1>5, <1>6, <1>7, SMT
<1> QED BY <1>8 DEF Words!Number, F, s, f

LEMMA DrawnS ==
  Words!Number(Drawn(Words!Formats.S)) = At7 + 2 * At8 + 32 * At25 - 2048 * Top
<1> DEFINE f == Words!Formats.S
           s == Drawn(f)
           F == Words!From(s)
<1>1. f = [b \in 0 .. 31 |-> IF b <= 4 THEN 7 + b ELSE IF b <= 10 THEN 20 + b ELSE 31]
  BY DEF Words!Formats
<1> HIDE DEF f
<1>2. \A b \in 0 .. 31 : Words!Has(s, b) =
        IF b = 0 THEN At7 ELSE IF b <= 4 THEN Bit(7 + b) ELSE IF b <= 10 THEN Bit(20 + b) ELSE Top
  BY <1>1, DrawnIs DEF Top, At7, At20
<1> HIDE DEF s
<1>3. At7 \in Int /\ At8 \in Int /\ At12 \in Int /\ At15 \in Int /\ At20 \in Int
      /\ At21 \in Int /\ At25 \in Int /\ Top \in Int
  BY Parts DEF MadeOf
<1>4. /\ F[5] = At25 + 64 * F[11] /\ F[1] = Four(s, 1) + 16 * F[5]
      /\ F[0] = Words!Has(s, 0) + 2 * F[1]
      /\ F[11] = Words!Has(s, 11) + 2 * F[12]
      /\ \A b \in 0 .. 31 : F[b] \in Int
  <2>1. \A b \in 5 .. 10 : Words!Has(s, b) = Bit(20 + b)
    BY <1>2
  <2> QED BY <2>1, Middle
<1>5. F[11] = -Top
  <2>1. \A b \in 11 .. 31 : Words!Has(s, b) = Top
    BY <1>2
  <2> QED BY <1>3, <2>1, Extended
<1> HIDE DEF F
<1>6. Four(s, 1) = At8
  <2>1. /\ Words!Has(s, 1) = Bit(8) /\ Words!Has(s, 2) = Bit(9)
        /\ Words!Has(s, 3) = Bit(10) /\ Words!Has(s, 4) = Bit(11)
    BY <1>2
  <2> QED BY <2>1, SMT DEF Four, Two, At8, Bit
<1>7. Words!Has(s, 0) = At7
  BY <1>2
<1>8. F[0] = At7 + 2 * At8 + 32 * At25 - 2048 * Top
  BY <1>3, <1>4, <1>5, <1>6, <1>7, SMT
<1> QED BY <1>8 DEF Words!Number, F, s, f

LEMMA DrawnB ==
  Words!Number(Drawn(Words!Formats.B)) = 2 * At8 + 32 * At25 + 2048 * At7 - 4096 * Top
<1> DEFINE f == Words!Formats.B
           s == Drawn(f)
           F == Words!From(s)
<1>1. f = [b \in 1 .. 31 |-> IF b <= 4 THEN 7 + b ELSE IF b <= 10 THEN 20 + b
                           ELSE IF b = 11 THEN 7 ELSE 31]
  BY DEF Words!Formats
<1> HIDE DEF f
<1>2. \A b \in 0 .. 31 : Words!Has(s, b) =
        IF b = 0 THEN 0 ELSE IF b <= 4 THEN Bit(7 + b) ELSE IF b <= 10 THEN Bit(20 + b)
        ELSE IF b = 11 THEN At7 ELSE Top
  BY <1>1, DrawnIs DEF Top, At7, At20
<1> HIDE DEF s
<1>3. At7 \in Int /\ At8 \in Int /\ At12 \in Int /\ At15 \in Int /\ At20 \in Int
      /\ At21 \in Int /\ At25 \in Int /\ Top \in Int
  BY Parts DEF MadeOf
<1>4. /\ F[5] = At25 + 64 * F[11] /\ F[1] = Four(s, 1) + 16 * F[5]
      /\ F[0] = Words!Has(s, 0) + 2 * F[1]
      /\ F[11] = Words!Has(s, 11) + 2 * F[12]
      /\ \A b \in 0 .. 31 : F[b] \in Int
  <2>1. \A b \in 5 .. 10 : Words!Has(s, b) = Bit(20 + b)
    BY <1>2
  <2> QED BY <2>1, Middle
<1>5. F[12] = -Top
  <2>1. \A b \in 12 .. 31 : Words!Has(s, b) = Top
    BY <1>2
  <2> QED BY <1>3, <2>1, Extended
<1> HIDE DEF F
<1>6. Four(s, 1) = At8
  <2>1. /\ Words!Has(s, 1) = Bit(8) /\ Words!Has(s, 2) = Bit(9)
        /\ Words!Has(s, 3) = Bit(10) /\ Words!Has(s, 4) = Bit(11)
    BY <1>2
  <2> QED BY <2>1, SMT DEF Four, Two, At8, Bit
<1>7. Words!Has(s, 0) = 0 /\ Words!Has(s, 11) = At7
  BY <1>2
<1>8. F[0] = 2 * At8 + 32 * At25 + 2048 * At7 - 4096 * Top
  BY <1>3, <1>4, <1>5, <1>6, <1>7, SMT
<1> QED BY <1>8 DEF Words!Number, F, s, f

LEMMA DrawnJ ==
  Words!Number(Drawn(Words!Formats.J)) = 2 * At21 + 32 * At25 + 2048 * At20 + 4096 * At12 + 32768 * At15 - 1048576 * Top
<1> DEFINE f == Words!Formats.J
           s == Drawn(f)
           F == Words!From(s)
<1>1. f = [b \in 1 .. 31 |-> IF b <= 10 THEN 20 + b ELSE IF b = 11 THEN 20
                           ELSE IF b <= 19 THEN b ELSE 31]
  BY DEF Words!Formats
<1> HIDE DEF f
<1>2. \A b \in 0 .. 31 : Words!Has(s, b) =
        IF b = 0 THEN 0 ELSE IF b <= 10 THEN Bit(20 + b) ELSE IF b = 11 THEN At20
        ELSE IF b <= 19 THEN Bit(b) ELSE Top
  BY <1>1, DrawnIs DEF Top, At7, At20
<1> HIDE DEF s
<1>3. At7 \in Int /\ At8 \in Int /\ At12 \in Int /\ At15 \in Int /\ At20 \in Int
      /\ At21 \in Int /\ At25 \in Int /\ Top \in Int
  BY Parts DEF MadeOf
<1>4. /\ F[5] = At25 + 64 * F[11] /\ F[1] = Four(s, 1) + 16 * F[5]
      /\ F[0] = Words!Has(s, 0) + 2 * F[1]
      /\ F[11] = Words!Has(s, 11) + 2 * F[12]
      /\ \A b \in 0 .. 31 : F[b] \in Int
  <2>1. \A b \in 5 .. 10 : Words!Has(s, b) = Bit(20 + b)
    BY <1>2
  <2> QED BY <2>1, Middle
<1>5. F[20] = -Top
  <2>1. \A b \in 20 .. 31 : Words!Has(s, b) = Top
    BY <1>2
  <2> QED BY <1>3, <2>1, Extended
<1>6. Four(s, 1) = At21
  <2>1. /\ Words!Has(s, 1) = Bit(21) /\ Words!Has(s, 2) = Bit(22)
        /\ Words!Has(s, 3) = Bit(23) /\ Words!Has(s, 4) = Bit(24)
    BY <1>2
  <2> QED BY <2>1, SMT DEF Four, Two, At21, Bit
<1>7. Words!Has(s, 0) = 0 /\ Words!Has(s, 11) = At20
  BY <1>2
<1>8. F[12] = At12 + 8 * F[15]
  <2>1. F[12] = Two(s, 12) + 4 * F[14] /\ Two(s, 12) \in Int
    BY Digits
  <2>2. F[14] = Words!Has(s, 14) + 2 * F[15]
    BY FromIs
  <2>3. Words!Has(s, 12) = Bit(12) /\ Words!Has(s, 13) = Bit(13) /\ Words!Has(s, 14) = Bit(14)
    BY <1>2
  <2>4. Two(s, 12) = Two(inst, 12) /\ Bit(14) \in Int
    BY <2>3, SMT DEF Two, Bit, Words!Has
  <2>5. F[14] \in Int /\ F[15] \in Int
    BY <1>4, SMT
  <2> HIDE DEF F
  <2> QED BY <2>1, <2>2, <2>3, <2>4, <2>5, SMT DEF At12
<1>9. F[15] = At15 + 32 * F[20]
  <2>1. F[15] = Four(s, 15) + 16 * F[19] /\ Four(s, 15) \in Int
    BY Digits
  <2>2. F[19] = Words!Has(s, 19) + 2 * F[20]
    BY FromIs
  <2>3. /\ Words!Has(s, 15) = Bit(15) /\ Words!Has(s, 16) = Bit(16) /\ Words!Has(s, 17) = Bit(17)
        /\ Words!Has(s, 18) = Bit(18) /\ Words!Has(s, 19) = Bit(19)
    BY <1>2
  <2>4. Four(s, 15) = Four(inst, 15) /\ Bit(19) \in Int
    BY <2>3, SMT DEF Four, Two, Bit, Words!Has
  <2>5. F[19] \in Int /\ F[20] \in Int
    BY <1>4, SMT
  <2> HIDE DEF F
  <2> QED BY <2>1, <2>2, <2>3, <2>4, <2>5, SMT DEF At15
<1> HIDE DEF F
<1>10. F[0] = 2 * At21 + 32 * At25 + 2048 * At20 + 4096 * At12 + 32768 * At15 - 1048576 * Top
  BY <1>3, <1>4, <1>5, <1>6, <1>7, <1>8, <1>9, SMT
<1> QED BY <1>10 DEF Words!Number, F, s, f

LEMMA DrawnU ==
  Words!Number(Drawn(Words!Formats.U)) = Words!inst - (At0 + 128 * At7 + 256 * At8)
<1> DEFINE f == Words!Formats.U
           s == Drawn(f)
           F == Words!From(s)
<1>1. f = [b \in 12 .. 31 |-> b]
  BY DEF Words!Formats
<1> HIDE DEF f
<1>2. \A b \in 0 .. 31 : Words!Has(s, b) = IF b < 12 THEN 0 ELSE Bit(b)
  BY <1>1, DrawnIs
<1> HIDE DEF s
<1>3. F[12] = Words!From(inst)[12]
  <2>1. \A b \in 12 .. 31 : Words!Has(s, b) = Words!Has(inst, b)
    BY <1>2 DEF Bit
  <2> QED BY <2>1, Alike
<1>4. \A b \in 0 .. 27 : F[b] = Four(s, b) + 16 * F[b + 4]
  BY Digits
<1>5. \A b \in 0 .. 31 : F[b] \in Int
  BY FromIs
<1> HIDE DEF F
<1>6. F[0] = Four(s, 0) + 16 * F[4] /\ F[4] = Four(s, 4) + 16 * F[8] /\ F[8] = Four(s, 8) + 16 * F[12]
  BY <1>4, SMT
<1>7. Four(s, 0) = 0 /\ Four(s, 4) = 0 /\ Four(s, 8) = 0
  <2>1. \A b \in 0 .. 10 : Two(s, b) = 0
    BY <1>2, SMT DEF Two
  <2> QED BY <2>1, SMT DEF Four
<1>8. F[4] \in Int /\ F[8] \in Int /\ F[12] \in Int
  BY <1>5, SMT
<1>9. F[0] = 4096 * F[12]
  BY <1>6, <1>7, <1>8, SMT
<1>10. At0 \in Int /\ At7 \in Int /\ At8 \in Int
  BY Parts DEF MadeOf
<1>11. Words!inst = At0 + 128 * At7 + 256 * At8 + 4096 * F[12]
  BY <1>3, Parts
<1>12. F[0] = Words!inst - (At0 + 128 * At7 + 256 * At8)
  BY <1>8, <1>9, <1>10, <1>11, SMT
<1> QED BY <1>12 DEF Words!Number, F, s, f

\* The immediate of every format.
LEMMA Immediates == Words!ImmediatesAsDrawn
<1> DEFINE w == Words!inst
           op == Words!Operation(w)
<1>1. /\ Words!ImmI(w) = Words!Number(Drawn(Words!Formats.I))
      /\ Words!ImmS(w) = Words!Number(Drawn(Words!Formats.S))
      /\ Words!ImmB(w) = Words!Number(Drawn(Words!Formats.B))
      /\ Words!ImmU(w) = Words!Number(Drawn(Words!Formats.U))
      /\ Words!ImmJ(w) = Words!Number(Drawn(Words!Formats.J))
  <2>1. MadeOf(w)
    BY Parts
  <2> QED BY <2>1, ImmediatesRead, DrawnI, DrawnS, DrawnB, DrawnU, DrawnJ
<1>2. Words!Decoded(w).op = op /\ Words!Decoded(w).imm = Words!Immediate(w)
  BY DEF Words!Decoded
<1> HIDE DEF w, op
<1>3. ASSUME op \in DOMAIN Words!FormatOf
      PROVE  Words!Immediate(w) = Words!Number(Drawn(Words!Formats[Words!FormatOf[op]]))
  <2>1. op \in {"load", "opimm", "jalr", "store", "branch", "lui", "auipc", "jal"}
    BY <1>3 DEF Words!FormatOf
  <2>2. CASE op \in {"load", "opimm", "jalr"}
    <3>1. Words!FormatOf[op] = "I" /\ Words!Immediate(w) = Words!ImmI(w)
      BY <2>2 DEF Words!FormatOf, Words!Immediate, op
    <3> QED BY <1>1, <3>1, Zenon
  <2>3. CASE op = "store"
    <3>1. Words!FormatOf[op] = "S" /\ Words!Immediate(w) = Words!ImmS(w)
      BY <2>3 DEF Words!FormatOf, Words!Immediate, op
    <3> QED BY <1>1, <3>1, Zenon
  <2>4. CASE op = "branch"
    <3>1. Words!FormatOf[op] = "B" /\ Words!Immediate(w) = Words!ImmB(w)
      BY <2>4 DEF Words!FormatOf, Words!Immediate, op
    <3> QED BY <1>1, <3>1, Zenon
  <2>5. CASE op \in {"lui", "auipc"}
    <3>1. Words!FormatOf[op] = "U" /\ Words!Immediate(w) = Words!ImmU(w)
      BY <2>5 DEF Words!FormatOf, Words!Immediate, op
    <3> QED BY <1>1, <3>1, Zenon
  <2>6. CASE op = "jal"
    <3>1. Words!FormatOf[op] = "J" /\ Words!Immediate(w) = Words!ImmJ(w)
      BY <2>6 DEF Words!FormatOf, Words!Immediate, op
    <3> QED BY <1>1, <3>1, Zenon
  <2> QED BY <2>1, <2>2, <2>3, <2>4, <2>5, <2>6
<1> QED BY <1>2, <1>3 DEF Words!ImmediatesAsDrawn, Drawn, w

-----------------------------------------------------------------------------
(* The fields.                                                             *)

Part(low, size) == {b \in 0 .. size - 1 : low + b \in inst}

LEMMA PartIs ==
  ASSUME NEW low \in Int, NEW size \in 1 .. 12
  PROVE  /\ \A b \in 0 .. size - 1 : Words!Has(Part(low, size), b) = Bit(low + b)
         /\ Words!From(Part(low, size))[size] = 0
<1>1. \A b \in size .. 31 : Words!Has(Part(low, size), b) = 0
  BY DEF Part, Words!Has
<1>2. Words!From(Part(low, size))[size] = 0
  <2>1. size \in 0 .. 31 /\ 0 \in Int
    OBVIOUS
  <2> QED BY <1>1, <2>1, Extended
<1>3. \A b \in 0 .. size - 1 : Words!Has(Part(low, size), b) = Bit(low + b)
  BY DEF Part, Words!Has, Bit
<1> QED BY <1>2, <1>3

LEMMA PartRd == Words!Number(Part(7, 5)) = At7 + 2 * At8
<1> DEFINE s == Part(7, 5)
           F == Words!From(s)
<1>1. (\A b \in 0 .. 4 : Words!Has(s, b) = Bit(7 + b)) /\ F[5] = 0
  <2>1. 7 \in Int /\ 5 \in 1 .. 12 /\ 5 - 1 = 4
    OBVIOUS
  <2> QED BY <2>1, PartIs
<1>2. /\ \A b \in 0 .. 30 : F[b] = Words!Has(s, b) + 2 * F[b + 1]
      /\ \A b \in 0 .. 31 : F[b] \in Int
  BY FromIs
<1>3. /\ \A b \in 0 .. 29 : F[b] = Two(s, b) + 4 * F[b + 2]
      /\ \A b \in 0 .. 27 : F[b] = Four(s, b) + 16 * F[b + 4]
  BY Digits
<1> HIDE DEF s, F
<1>4. /\ F[0] = Words!Has(s, 0) + 2 * F[1]
      /\ F[1] = Four(s, 1) + 16 * F[5]
  BY <1>2, <1>3, SMT
<1>5. F[0] \in Int /\ F[1] \in Int
  BY <1>2, SMT
<1>6. /\ Words!Has(s, 0) = Bit(7)
      /\ Four(s, 1) = Four(inst, 8)
  <2>1. /\ Words!Has(s, 0) = Bit(7)
        /\ Words!Has(s, 1) = Bit(8)
        /\ Words!Has(s, 2) = Bit(9)
        /\ Words!Has(s, 3) = Bit(10)
        /\ Words!Has(s, 4) = Bit(11)
    BY <1>1, SMT
  <2> QED BY <2>1, SMT DEF Four, Two, Bit
<1>7. Bit(7) \in Int /\ Four(inst, 8) \in Int
  BY Digits, SMT DEF Bit
<1>8. F[0] = At7 + 2 * At8
  BY <1>1, <1>4, <1>5, <1>6, <1>7, SMT DEF At7, At8
<1> QED BY <1>8 DEF Words!Number, F, s

LEMMA PartSel == Words!Number(Part(12, 3)) = At12
<1> DEFINE s == Part(12, 3)
           F == Words!From(s)
<1>1. (\A b \in 0 .. 2 : Words!Has(s, b) = Bit(12 + b)) /\ F[3] = 0
  <2>1. 12 \in Int /\ 3 \in 1 .. 12 /\ 3 - 1 = 2
    OBVIOUS
  <2> QED BY <2>1, PartIs
<1>2. /\ \A b \in 0 .. 30 : F[b] = Words!Has(s, b) + 2 * F[b + 1]
      /\ \A b \in 0 .. 31 : F[b] \in Int
  BY FromIs
<1>3. /\ \A b \in 0 .. 29 : F[b] = Two(s, b) + 4 * F[b + 2]
      /\ \A b \in 0 .. 27 : F[b] = Four(s, b) + 16 * F[b + 4]
  BY Digits
<1> HIDE DEF s, F
<1>4. /\ F[0] = Two(s, 0) + 4 * F[2]
      /\ F[2] = Words!Has(s, 2) + 2 * F[3]
  BY <1>2, <1>3, SMT
<1>5. F[0] \in Int /\ F[2] \in Int
  BY <1>2, SMT
<1>6. /\ Two(s, 0) = Two(inst, 12)
      /\ Words!Has(s, 2) = Bit(14)
  <2>1. /\ Words!Has(s, 0) = Bit(12)
        /\ Words!Has(s, 1) = Bit(13)
        /\ Words!Has(s, 2) = Bit(14)
    BY <1>1, SMT
  <2> QED BY <2>1, SMT DEF Four, Two, Bit
<1>7. Two(inst, 12) \in Int /\ Bit(14) \in Int
  BY Digits, SMT DEF Bit
<1>8. F[0] = At12
  BY <1>1, <1>4, <1>5, <1>6, <1>7, SMT DEF At12
<1> QED BY <1>8 DEF Words!Number, F, s

LEMMA PartRs1 == Words!Number(Part(15, 5)) = At15
<1> DEFINE s == Part(15, 5)
           F == Words!From(s)
<1>1. (\A b \in 0 .. 4 : Words!Has(s, b) = Bit(15 + b)) /\ F[5] = 0
  <2>1. 15 \in Int /\ 5 \in 1 .. 12 /\ 5 - 1 = 4
    OBVIOUS
  <2> QED BY <2>1, PartIs
<1>2. /\ \A b \in 0 .. 30 : F[b] = Words!Has(s, b) + 2 * F[b + 1]
      /\ \A b \in 0 .. 31 : F[b] \in Int
  BY FromIs
<1>3. /\ \A b \in 0 .. 29 : F[b] = Two(s, b) + 4 * F[b + 2]
      /\ \A b \in 0 .. 27 : F[b] = Four(s, b) + 16 * F[b + 4]
  BY Digits
<1> HIDE DEF s, F
<1>4. /\ F[0] = Four(s, 0) + 16 * F[4]
      /\ F[4] = Words!Has(s, 4) + 2 * F[5]
  BY <1>2, <1>3, SMT
<1>5. F[0] \in Int /\ F[4] \in Int
  BY <1>2, SMT
<1>6. /\ Four(s, 0) = Four(inst, 15)
      /\ Words!Has(s, 4) = Bit(19)
  <2>1. /\ Words!Has(s, 0) = Bit(15)
        /\ Words!Has(s, 1) = Bit(16)
        /\ Words!Has(s, 2) = Bit(17)
        /\ Words!Has(s, 3) = Bit(18)
        /\ Words!Has(s, 4) = Bit(19)
    BY <1>1, SMT
  <2> QED BY <2>1, SMT DEF Four, Two, Bit
<1>7. Four(inst, 15) \in Int /\ Bit(19) \in Int
  BY Digits, SMT DEF Bit
<1>8. F[0] = At15
  BY <1>1, <1>4, <1>5, <1>6, <1>7, SMT DEF At15
<1> QED BY <1>8 DEF Words!Number, F, s

LEMMA PartRs2 == Words!Number(Part(20, 5)) = At20 + 2 * At21
<1> DEFINE s == Part(20, 5)
           F == Words!From(s)
<1>1. (\A b \in 0 .. 4 : Words!Has(s, b) = Bit(20 + b)) /\ F[5] = 0
  <2>1. 20 \in Int /\ 5 \in 1 .. 12 /\ 5 - 1 = 4
    OBVIOUS
  <2> QED BY <2>1, PartIs
<1>2. /\ \A b \in 0 .. 30 : F[b] = Words!Has(s, b) + 2 * F[b + 1]
      /\ \A b \in 0 .. 31 : F[b] \in Int
  BY FromIs
<1>3. /\ \A b \in 0 .. 29 : F[b] = Two(s, b) + 4 * F[b + 2]
      /\ \A b \in 0 .. 27 : F[b] = Four(s, b) + 16 * F[b + 4]
  BY Digits
<1> HIDE DEF s, F
<1>4. /\ F[0] = Words!Has(s, 0) + 2 * F[1]
      /\ F[1] = Four(s, 1) + 16 * F[5]
  BY <1>2, <1>3, SMT
<1>5. F[0] \in Int /\ F[1] \in Int
  BY <1>2, SMT
<1>6. /\ Words!Has(s, 0) = Bit(20)
      /\ Four(s, 1) = Four(inst, 21)
  <2>1. /\ Words!Has(s, 0) = Bit(20)
        /\ Words!Has(s, 1) = Bit(21)
        /\ Words!Has(s, 2) = Bit(22)
        /\ Words!Has(s, 3) = Bit(23)
        /\ Words!Has(s, 4) = Bit(24)
    BY <1>1, SMT
  <2> QED BY <2>1, SMT DEF Four, Two, Bit
<1>7. Bit(20) \in Int /\ Four(inst, 21) \in Int
  BY Digits, SMT DEF Bit
<1>8. F[0] = At20 + 2 * At21
  BY <1>1, <1>4, <1>5, <1>6, <1>7, SMT DEF At20, At21
<1> QED BY <1>8 DEF Words!Number, F, s

LEMMA PartSpecial == Words!Number(Part(25, 7)) = At25 + 64 * Top
<1> DEFINE s == Part(25, 7)
           F == Words!From(s)
<1>1. (\A b \in 0 .. 6 : Words!Has(s, b) = Bit(25 + b)) /\ F[7] = 0
  <2>1. 25 \in Int /\ 7 \in 1 .. 12 /\ 7 - 1 = 6
    OBVIOUS
  <2> QED BY <2>1, PartIs
<1>2. /\ \A b \in 0 .. 30 : F[b] = Words!Has(s, b) + 2 * F[b + 1]
      /\ \A b \in 0 .. 31 : F[b] \in Int
  BY FromIs
<1>3. /\ \A b \in 0 .. 29 : F[b] = Two(s, b) + 4 * F[b + 2]
      /\ \A b \in 0 .. 27 : F[b] = Four(s, b) + 16 * F[b + 4]
  BY Digits
<1> HIDE DEF s, F
<1>4. /\ F[0] = Four(s, 0) + 16 * F[4]
      /\ F[4] = Two(s, 4) + 4 * F[6]
      /\ F[6] = Words!Has(s, 6) + 2 * F[7]
  BY <1>2, <1>3, SMT
<1>5. F[0] \in Int /\ F[4] \in Int /\ F[6] \in Int
  BY <1>2, SMT
<1>6. /\ Four(s, 0) = Four(inst, 25)
      /\ Two(s, 4) = Two(inst, 29)
      /\ Words!Has(s, 6) = Bit(31)
  <2>1. /\ Words!Has(s, 0) = Bit(25)
        /\ Words!Has(s, 1) = Bit(26)
        /\ Words!Has(s, 2) = Bit(27)
        /\ Words!Has(s, 3) = Bit(28)
        /\ Words!Has(s, 4) = Bit(29)
        /\ Words!Has(s, 5) = Bit(30)
        /\ Words!Has(s, 6) = Bit(31)
    BY <1>1, SMT
  <2> QED BY <2>1, SMT DEF Four, Two, Bit
<1>7. Four(inst, 25) \in Int /\ Two(inst, 29) \in Int /\ Bit(31) \in Int
  BY Digits, SMT DEF Bit
<1>8. F[0] = At25 + 64 * Top
  BY <1>1, <1>4, <1>5, <1>6, <1>7, SMT DEF At25, Top
<1> QED BY <1>8 DEF Words!Number, F, s

LEMMA PartCsr == Words!Number(Part(20, 12)) = At20 + 2 * At21 + 32 * At25 + 2048 * Top
<1> DEFINE s == Part(20, 12)
           F == Words!From(s)
<1>1. (\A b \in 0 .. 11 : Words!Has(s, b) = Bit(20 + b)) /\ F[12] = 0
  <2>1. 20 \in Int /\ 12 \in 1 .. 12 /\ 12 - 1 = 11
    OBVIOUS
  <2> QED BY <2>1, PartIs
<1>2. /\ \A b \in 0 .. 30 : F[b] = Words!Has(s, b) + 2 * F[b + 1]
      /\ \A b \in 0 .. 31 : F[b] \in Int
  BY FromIs
<1>3. /\ \A b \in 0 .. 29 : F[b] = Two(s, b) + 4 * F[b + 2]
      /\ \A b \in 0 .. 27 : F[b] = Four(s, b) + 16 * F[b + 4]
  BY Digits
<1> HIDE DEF s, F
<1>4. /\ F[0] = Words!Has(s, 0) + 2 * F[1]
      /\ F[1] = Four(s, 1) + 16 * F[5]
      /\ F[5] = Four(s, 5) + 16 * F[9]
      /\ F[9] = Two(s, 9) + 4 * F[11]
      /\ F[11] = Words!Has(s, 11) + 2 * F[12]
  BY <1>2, <1>3, SMT
<1>5. F[0] \in Int /\ F[1] \in Int /\ F[5] \in Int /\ F[9] \in Int /\ F[11] \in Int
  BY <1>2, SMT
<1>6. /\ Words!Has(s, 0) = Bit(20)
      /\ Four(s, 1) = Four(inst, 21)
      /\ Four(s, 5) = Four(inst, 25)
      /\ Two(s, 9) = Two(inst, 29)
      /\ Words!Has(s, 11) = Bit(31)
  <2>1. /\ Words!Has(s, 0) = Bit(20)
        /\ Words!Has(s, 1) = Bit(21)
        /\ Words!Has(s, 2) = Bit(22)
        /\ Words!Has(s, 3) = Bit(23)
        /\ Words!Has(s, 4) = Bit(24)
        /\ Words!Has(s, 5) = Bit(25)
        /\ Words!Has(s, 6) = Bit(26)
        /\ Words!Has(s, 7) = Bit(27)
        /\ Words!Has(s, 8) = Bit(28)
        /\ Words!Has(s, 9) = Bit(29)
        /\ Words!Has(s, 10) = Bit(30)
        /\ Words!Has(s, 11) = Bit(31)
    BY <1>1, SMT
  <2> QED BY <2>1, SMT DEF Four, Two, Bit
<1>7. /\ Bit(20) \in Int /\ Four(inst, 21) \in Int /\ Four(inst, 25) \in Int
      /\ Two(inst, 29) \in Int /\ Bit(31) \in Int
  BY Digits, SMT DEF Bit
<1>8. F[0] = At20 + 2 * At21 + 32 * At25 + 2048 * Top
  BY <1>1, <1>4, <1>5, <1>6, <1>7, SMT DEF At20, At21, At25, Top
<1> QED BY <1>8 DEF Words!Number, F, s

LEMMA FieldsAre == Words!FieldsAsDrawn
<1> DEFINE w == Words!inst
<1>1. MadeOf(w)
  BY Parts
<1> HIDE DEF w
<1>2. /\ Words!rd(w) = At7 + 2 * At8 /\ Words!sel(w) = At12 /\ Words!rs1(w) = At15
      /\ Words!rs2(w) = At20 + 2 * At21 /\ Words!special(w) = At25 + 64 * Top
      /\ Words!imm11_0(w) = At20 + 2 * At21 + 32 * At25 + 2048 * Top
  BY <1>1, FieldsRead
     DEF Words!rd, Words!sel, Words!rs1, Words!rs2, Words!special, Words!imm11_0
<1>3. LET i == Words!Decoded(w) IN
      /\ i.rd = Words!Number(Part(7, 5)) /\ i.sel = Words!Number(Part(12, 3))
      /\ i.rs1 = Words!Number(Part(15, 5)) /\ i.rs2 = Words!Number(Part(20, 5))
      /\ i.special = Words!Number(Part(25, 7)) /\ i.csr = Words!Number(Part(20, 12))
  BY <1>2, PartRd, PartSel, PartRs1, PartRs2, PartSpecial, PartCsr DEF Words!Decoded
<1> QED BY <1>3 DEF Words!FieldsAsDrawn, Part, w

\* Every word of 32 bits, not only those a few flips from the opcodes.
THEOREM DrawnAsRead == Words!Spec => []DecodedAsDrawn
<1>1. DecodedAsDrawn
  BY Immediates, FieldsAre DEF DecodedAsDrawn, Words!DecodedAsDrawn
<1> QED BY <1>1, PTL

-----------------------------------------------------------------------------
(* What every word decodes to, whatever its bits: an instruction of Alu,   *)
(* with even offsets in branches and jumps, as Interp assumes of its       *)
(* constant Decode; and the immediates of every instruction an assembler   *)
(* can write, encoded as RISC-V says, come back as they were.              *)

(* Ranges are stated by their bounds, which the arithmetic needs.          *)

Between(v, low, high) == v \in Int /\ low <= v /\ v <= high

\* The fields of every word are in range.
LEMMA Fields ==
  ASSUME NEW w \in Int
  PROVE  /\ Words!rd(w) \in 0 .. 31 /\ Words!rs1(w) \in 0 .. 31 /\ Words!rs2(w) \in 0 .. 31
         /\ Words!sel(w) \in 0 .. 7 /\ Words!special(w) \in 0 .. 127
         /\ Words!imm11_0(w) \in 0 .. 4095
BY SMT DEF Words!Field, Words!rd, Words!rs1, Words!rs2, Words!sel, Words!special,
           Words!imm11_0

\* The two-bit-aligned offsets: branches and jal only reach even addresses.
THEOREM EvenImmediates ==
  ASSUME NEW w \in Int
  PROVE  /\ Words!ImmB(w) \in Int /\ Words!ImmB(w) % 2 = 0
         /\ Words!ImmJ(w) \in Int /\ Words!ImmJ(w) % 2 = 0
<1>1. /\ Words!branch_t(w).imm11 \in Int /\ Words!branch_t(w).imm4_1 \in Int
      /\ Words!branch_t(w).imm10_5 \in Int /\ Words!branch_t(w).imm12 \in Int
  BY SMT DEF Words!Field, Words!branch_t, Words!Sign
<1>2. Words!ImmB(w) = 2 * (Words!branch_t(w).imm4_1 + 16 * Words!branch_t(w).imm10_5
                       + 1024 * Words!branch_t(w).imm11 - 2048 * Words!branch_t(w).imm12)
  BY <1>1, SMT DEF Words!ImmB
<1>3. /\ Words!jal_t(w).imm19_12 \in Int /\ Words!jal_t(w).imm11 \in Int
      /\ Words!jal_t(w).imm10_1 \in Int /\ Words!jal_t(w).imm20 \in Int
  BY SMT DEF Words!Field, Words!jal_t, Words!Sign
<1>4. Words!ImmJ(w) = 2 * (Words!jal_t(w).imm10_1 + 1024 * Words!jal_t(w).imm11
                       + 2048 * Words!jal_t(w).imm19_12 - 524288 * Words!jal_t(w).imm20)
  BY <1>3, SMT DEF Words!ImmJ
<1>5. \A u \in Int : (2 * u) % 2 = 0
  BY SMT
<1> QED BY <1>1, <1>2, <1>3, <1>4, <1>5, SMT

\* The word as int32_t: what the code's casts make of the word fetched.
AsInt32(w) == IF w < 2147483648 THEN w ELSE w - 4294967296

\* The constant Decode of Interp, for bytes of eight bits.
Decoder == [w \in Laws!Word |-> [Words!Decoded(AsInt32(w)) EXCEPT !.imm = Laws!ToWord(@)]]

\* Every immediate is a number.
LEMMA ImmediateType == ASSUME NEW w \in Int PROVE Words!Immediate(w) \in Int
<1>1. Words!ImmI(w) \in Int
  BY SMT DEF Words!Field, Words!ImmI, Words!imm11_0, Words!Sign
<1>2. Words!ImmS(w) \in Int
  BY SMT DEF Words!Field, Words!ImmS, Words!store_t, Words!Sign
<1>3. Words!ImmU(w) \in Int
  BY SMT DEF Words!ImmU
<1> QED BY <1>1, <1>2, <1>3, EvenImmediates, SMT DEF Words!Immediate

\* Every word of 32 bits decodes to an instruction, and branch and jal offsets
\* are even: what Interp's Machine and EvenOffsets take from the decoder.
THEOREM DecoderFits ==
  ASSUME B = 256
  PROVE  /\ Decoder \in [Laws!Word -> Laws!Instructions]
         /\ \A w \in Laws!Word : Decoder[w].op \in {"branch", "jal"} => Decoder[w].imm % 2 = 0
<1>1. Laws!HalfSize = 65536
  BY SMT DEF Laws!HalfSize
<1>2. Laws!WordSize = 4294967296
  BY <1>1, SMT DEF Laws!WordSize
<1>3. Laws!WordSize \in Nat /\ Laws!WordSize > 0
  BY <1>2, SMT
<1>4. ASSUME NEW w \in Laws!Word
      PROVE  /\ Decoder[w] \in Laws!Instructions
             /\ Decoder[w].op \in {"branch", "jal"} => Decoder[w].imm % 2 = 0
  <2> DEFINE v == AsInt32(w)
  <2>1. v \in Int
    <3>1. w \in Int
      BY <1>3, SMT DEF Laws!Word
    <3> QED BY <3>1, SMT DEF AsInt32
  <2>2. Decoder[w] = [op |-> Words!Operation(v), rd |-> Words!rd(v),
                      rs1 |-> Words!rs1(v), rs2 |-> Words!rs2(v),
                      sel |-> Words!sel(v), special |-> Words!special(v),
                      imm |-> Words!Immediate(v) % Laws!WordSize, csr |-> Words!imm11_0(v)]
    BY SMT DEF Decoder, Words!Decoded, Laws!ToWord
  <2> HIDE DEF v
  <2>3. Words!Operation(v) \in Laws!Opcodes
    BY DEF Words!Operation, Laws!Opcodes
  <2>4. Words!Immediate(v) % Laws!WordSize \in Laws!Word
    <3>1. Words!Immediate(v) \in Int
      BY <2>1, ImmediateType
    <3> QED BY <1>3, <3>1, SMT DEF Laws!Word
  <2>5. /\ Words!rd(v) \in Laws!Reg /\ Words!rs1(v) \in Laws!Reg /\ Words!rs2(v) \in Laws!Reg
        /\ Words!sel(v) \in 0 .. 7 /\ Words!special(v) \in 0 .. 127
        /\ Words!imm11_0(v) \in 0 .. 4095
    BY <2>1, Fields DEF Laws!Reg
  <2>6. Decoder[w] \in Laws!Instructions
    BY <2>2, <2>3, <2>4, <2>5 DEF Laws!Instructions
  <2>7. ASSUME Words!Operation(v) \in {"branch", "jal"}
        PROVE  (Words!Immediate(v) % Laws!WordSize) % 2 = 0
    <3>1. Words!Immediate(v) = Words!ImmB(v) \/ Words!Immediate(v) = Words!ImmJ(v)
      BY <2>7 DEF Words!Immediate
    <3>2. Words!Immediate(v) \in Int /\ Words!Immediate(v) % 2 = 0
      BY <2>1, <3>1, EvenImmediates
    <3>3. \A u \in Int : u % 2 = 0 => (u % 4294967296) % 2 = 0
      BY SMT
    <3> QED BY <1>2, <3>2, <3>3, SMT
  <2> QED BY <2>2, <2>6, <2>7
<1>5. Decoder = [w \in Laws!Word |-> Decoder[w]]
  BY DEF Decoder
<1> QED BY <1>4, <1>5

-----------------------------------------------------------------------------
(* An assembler.  o is an opcode, e, a, b registers, f the function and v  *)
(* the immediate; bit 31 is the sign.                                      *)

EncodeI(o, e, f, a, v) == o + 128 * e + 4096 * f + 32768 * a + 1048576 * v

EncodeS(o, f, a, b, v) ==
  o + 128 * (v % 32) + 4096 * f + 32768 * a + 1048576 * b + 33554432 * (v \div 32)

\* imm[4:1|11] and imm[12|10:5].
EncodeB(o, f, a, b, v) ==
  o + 128 * ((v \div 2048) % 2) + 256 * ((v \div 2) % 16) + 4096 * f + 32768 * a
    + 1048576 * b + 33554432 * ((v \div 32) % 64) + 2147483648 * (v \div 4096)

EncodeU(o, e, v) == o + 128 * e + 4096 * v

\* imm[20|10:1|11|19:12].
EncodeJ(o, e, v) ==
  o + 128 * e + 4096 * ((v \div 4096) % 256) + 1048576 * ((v \div 2048) % 2)
    + 2097152 * ((v \div 2) % 1024) + 2147483648 * (v \div 1048576)

Opcode7(o)  == Between(o, 0, 127)
Func3(f)    == Between(f, 0, 7)
Register(r) == Between(r, 0, 31)

\* An I-type instruction: the signed immediate comes back.
THEOREM RoundTripI ==
  ASSUME NEW o, NEW e, NEW f, NEW a, NEW v,
         Opcode7(o), Register(e), Func3(f), Register(a), Between(v, -2048, 2047)
  PROVE  Words!ImmI(EncodeI(o, e, f, a, v)) = v
<1> DEFINE w == EncodeI(o, e, f, a, v)
<1> USE DEF Opcode7, Func3, Register, Between
<1>1. w \in Int /\ (w < 0 <=> v < 0)
  BY SMT DEF EncodeI
<1>2. Words!imm11_0(w) = v % 4096
  BY SMT DEF Words!imm11_0, Words!Field, EncodeI
<1> HIDE DEF w
<1>3. Words!ImmI(w) = v
  BY <1>1, <1>2, SMT DEF Words!ImmI, Words!Sign
<1> QED BY <1>3 DEF w

\* A store: its offset, split in two, comes back.
THEOREM RoundTripS ==
  ASSUME NEW o, NEW f, NEW a, NEW b, NEW v,
         Opcode7(o), Func3(f), Register(a), Register(b), Between(v, -2048, 2047)
  PROVE  Words!ImmS(EncodeS(o, f, a, b, v)) = v
<1> DEFINE w == EncodeS(o, f, a, b, v)
           l == v % 32
           h == v \div 32
<1> USE DEF Opcode7, Func3, Register, Between
<1>1. Between(l, 0, 31) /\ Between(h, -64, 63) /\ v = l + 32 * h
  BY SMT
<1>2. w = o + 128 * l + 4096 * f + 32768 * a + 1048576 * b + 33554432 * h
  BY SMT DEF EncodeS
<1> HIDE DEF w, l, h
<1>3. w \in Int /\ (w < 0 <=> h < 0)
  BY <1>1, <1>2, SMT
<1>4. (w \div 128) % 32 = l
  BY <1>1, <1>2, SMT
<1>5. (w \div 33554432) % 128 = h % 128
  BY <1>1, <1>2, SMT
<1>6. Words!ImmS(w) = l + 32 * (h % 128) - 4096 * Words!Sign(w)
  BY <1>4, <1>5, SMT DEF Words!ImmS, Words!store_t, Words!Field
<1>7. Words!ImmS(w) = v
  BY <1>1, <1>3, <1>6, SMT DEF Words!Sign
<1> QED BY <1>7 DEF w

\* A branch: every even offset of thirteen bits comes back.
THEOREM RoundTripB ==
  ASSUME NEW o, NEW f, NEW a, NEW b, NEW v,
         Opcode7(o), Func3(f), Register(a), Register(b),
         Between(v, -4096, 4095), v % 2 = 0
  PROVE  Words!ImmB(EncodeB(o, f, a, b, v)) = v
<1> DEFINE w == EncodeB(o, f, a, b, v)
           p == (v \div 2) % 16
           q == (v \div 32) % 64
           r == (v \div 2048) % 2
           t == v \div 4096
<1> USE DEF Opcode7, Func3, Register, Between
<1>1. Between(p, 0, 15) /\ Between(q, 0, 63) /\ Between(r, 0, 1) /\ Between(t, -1, 0)
  BY SMT
<1>2. v = 2 * p + 32 * q + 2048 * r + 4096 * t
  BY SMT
<1>3. w = o + 128 * r + 256 * p + 4096 * f + 32768 * a + 1048576 * b + 33554432 * q
            + 2147483648 * t
  BY SMT DEF EncodeB
<1> HIDE DEF w, p, q, r, t
<1>4. w \in Int /\ (w < 0 <=> t < 0)
  BY <1>1, <1>3, SMT
<1>5. (w \div 128) % 2 = r
  <2> DEFINE y == p + 16 * f + 128 * a + 4096 * b + 131072 * q + 8388608 * t
  <2>1. y \in Int /\ w = o + 128 * (r + 2 * y)
    BY <1>1, <1>3, SMT
  <2> HIDE DEF y
  <2>2. w \div 128 = r + 2 * y
    BY <1>1, <2>1, SMT
  <2> QED BY <1>1, <2>1, <2>2, SMT
<1>6. (w \div 256) % 16 = p
  BY <1>1, <1>3, SMT
<1>7. (w \div 33554432) % 64 = q
  BY <1>1, <1>3, SMT
<1>8. Words!ImmB(w) = 2 * p + 32 * q + 2048 * r + 4096 * Words!Sign(w) - 8192 * Words!Sign(w)
  BY <1>5, <1>6, <1>7, SMT DEF Words!ImmB, Words!branch_t, Words!Field
<1>9. Words!ImmB(w) = v
  BY <1>1, <1>2, <1>4, <1>8, SMT DEF Words!Sign
<1> QED BY <1>9 DEF w

\* lui and auipc: the upper twenty bits come back.
THEOREM RoundTripU ==
  ASSUME NEW o, NEW e, NEW v \in Int, Opcode7(o), Register(e)
  PROVE  Words!ImmU(EncodeU(o, e, v)) = 4096 * v
BY SMT DEF Words!ImmU, EncodeU, Opcode7, Register, Between

\* jal: every even offset of twenty-one bits comes back.
THEOREM RoundTripJ ==
  ASSUME NEW o, NEW e, NEW v, Opcode7(o), Register(e),
         Between(v, -1048576, 1048575), v % 2 = 0
  PROVE  Words!ImmJ(EncodeJ(o, e, v)) = v
<1> DEFINE w == EncodeJ(o, e, v)
           p == (v \div 2) % 1024
           q == (v \div 2048) % 2
           r == (v \div 4096) % 256
           t == v \div 1048576
<1> USE DEF Opcode7, Register, Between
<1>1. Between(p, 0, 1023) /\ Between(q, 0, 1) /\ Between(r, 0, 255) /\ Between(t, -1, 0)
  BY SMT
<1>2. v = 2 * p + 2048 * q + 4096 * r + 1048576 * t
  BY SMT
<1>3. w = o + 128 * e + 4096 * r + 1048576 * q + 2097152 * p + 2147483648 * t
  BY SMT DEF EncodeJ
<1> HIDE DEF w, p, q, r, t
<1>4. w \in Int /\ (w < 0 <=> t < 0)
  BY <1>1, <1>3, SMT
<1>5. (w \div 4096) % 256 = r
  BY <1>1, <1>3, SMT
<1>6. (w \div 1048576) % 2 = q
  BY <1>1, <1>3, SMT
<1>7. (w \div 2097152) % 1024 = p
  BY <1>1, <1>3, SMT
<1>8. Words!ImmJ(w) = 2 * p + 2048 * q + 4096 * r + 1048576 * Words!Sign(w) - 2097152 * Words!Sign(w)
  BY <1>5, <1>6, <1>7, SMT DEF Words!ImmJ, Words!jal_t, Words!Field
<1>9. Words!ImmJ(w) = v
  BY <1>1, <1>2, <1>4, <1>8, SMT DEF Words!Sign
<1> QED BY <1>9 DEF w

-----------------------------------------------------------------------------
(* The bit helpers: the bits of numbers.                                   *)

Has(p, s) == Helper!extractBit(p, s)

Size == Pow2(Width)

Places == 0 .. Width - 1

\* A number split at a bit.
LEMMA SplitAt ==
  ASSUME NEW s \in Places, NEW q \in Int, NEW t \in 0 .. Pow2(s) - 1, NEW p,
         p = Pow2(s) * q + t
  PROVE  Has(p, s) <=> q % 2 = 1
<1>1. Pow2(s) \in Nat \ {0} /\ p \in Int
  BY PowerTypes DEF Places, IsWidth
<1>2. p \div Pow2(s) = q
  BY <1>1, DivisionIsOne
<1> QED
  BY <1>2 DEF Has, Helper!extractBit

LEMMA Splits ==
  ASSUME NEW s \in 0 .. Width, NEW p \in Int
  PROVE  /\ p \div Pow2(s) \in Int /\ p % Pow2(s) \in 0 .. Pow2(s) - 1
         /\ p = Pow2(s) * (p \div Pow2(s)) + (p % Pow2(s))
         /\ Pow2(s) \in Nat \ {0}
<1>1. Pow2(s) \in Nat \ {0}
  BY PowerTypes DEF IsWidth
<1> QED
  BY <1>1, DivisionWithRemainder

\* Zero has no bit, and a number with no bit below s is a multiple of 2^s.
LEMMA NoBitBelow ==
  ASSUME NEW m \in 0 .. Width, NEW p \in Nat, \A s \in 0 .. m - 1 : ~Has(p, s)
  PROVE  p % Pow2(m) = 0
<1>w. IsWidth(Width) /\ Width \in Nat \ {0}
  BY PowerTypes DEF IsWidth
<1> DEFINE S == {s \in 0 .. m : p % Pow2(s) = 0}
<1>1. 0 \in S
  BY <1>w, Powers
<1>2. ASSUME NEW s \in 0 .. m - 1, s \in S PROVE s + 1 \in S
  <2> DEFINE q == p \div Pow2(s)
  <2>1. s \in Places /\ s \in 0 .. Width
    BY <1>w DEF Places
  <2>2. q \in Int /\ p = Pow2(s) * q + 0 /\ Pow2(s) \in Nat \ {0}
    BY <1>2, <2>1, Splits
  <2>3. ~Has(p, s)
    OBVIOUS
  <2> HIDE DEF q
  <2>4. q % 2 # 1
    BY <2>1, <2>2, <2>3, SplitAt
  <2>5. PICK t \in Int : q = 2 * t
    BY <2>2, <2>4
  <2>6. Pow2(s + 1) = 2 * Pow2(s)
    BY <1>w, <2>1, PowerTypes DEF Places
  <2>7. p = Pow2(s + 1) * t + 0
    <3>1. Pow2(s) * (2 * t) = (2 * Pow2(s)) * t
      BY <2>2
    <3> QED
      BY <2>2, <2>5, <2>6, <3>1
  <2>8. Pow2(s + 1) \in Nat \ {0} /\ 0 \in 0 .. Pow2(s + 1) - 1
    BY <2>2, <2>6
  <2>9. p % Pow2(s + 1) = 0
    <3> DEFINE z == Pow2(s + 1)
    <3>1. p = z * t + 0 /\ z \in Nat \ {0} /\ 0 \in 0 .. z - 1
      BY <2>7, <2>8
    <3> HIDE DEF z
    <3>2. p % z = 0
      BY <2>5, <3>1, DivisionIsOne
    <3> QED
      BY <3>2 DEF z
  <2> QED
    BY <2>9, <1>w
<1> HIDE DEF S
<1>3. 0 .. m \subseteq S
  BY <1>w, <1>1, <1>2, UpTo
<1> QED
  BY <1>3 DEF S

LEMMA Zero ==
  /\ \A s \in Places : ~Has(0, s)
  /\ \A p \in Helper!Word : (\A s \in Places : ~Has(p, s)) => p = 0
<1>1. Width \in Nat \ {0} /\ Width \in 0 .. Width /\ Size \in Nat \ {0}
  BY PowerTypes DEF IsWidth, Size
<1>2. ASSUME NEW s \in Places PROVE ~Has(0, s)
  <2>1. Pow2(s) \in Nat \ {0}
    BY PowerTypes DEF Places, IsWidth
  <2>2. 0 = Pow2(s) * 0 + 0 /\ 0 \in 0 .. Pow2(s) - 1
    BY <2>1
  <2> QED
    BY <2>2, SplitAt
<1>3. ASSUME NEW p \in Helper!Word, \A s \in Places : ~Has(p, s) PROVE p = 0
  <2>1. p \in 0 .. Size - 1
    BY DEF Helper!Word, Size
  <2>2. p % Size = 0
    BY <1>1, <1>3, <2>1, NoBitBelow DEF Size, Places
  <2> QED
    BY <1>1, <2>1, <2>2
<1> QED
  BY <1>2, <1>3

-----------------------------------------------------------------------------
(* The helpers.                                                            *)

\* A power of two has one bit.
LEMMA PowerHas ==
  ASSUME NEW p \in Places, NEW s \in Places
  PROVE  /\ Pow2(p) \in Helper!Word
         /\ Has(Pow2(p), s) <=> s = p
<1>0. IsWidth(Width) /\ Width \in Nat \ {0} /\ p \in 0 .. Width /\ s \in 0 .. Width
  BY PowerTypes DEF IsWidth, Places
<1>1. Pow2(p) \in Nat \ {0} /\ Pow2(s) \in Nat \ {0}
  BY <1>0, PowerTypes
<1>2. ASSUME NEW q \in 0 .. Width, NEW t \in 0 .. Width, q < t
      PROVE  \E u \in Nat \ {0} : Pow2(t) = Pow2(q) * (2 * u)
  <2>1. t - q \in 1 .. Width /\ t - q \in 0 .. Width - q /\ q + (t - q) = t
    BY <1>0, <1>2
  <2>2. Pow2(t) = Pow2(q) * Pow2(t - q)
    BY <1>0, <2>1, PowerSum
  <2> QED
    BY <1>0, <2>1, <2>2, PowerEven
<1>3. Pow2(p) \in Helper!Word
  <2>1. p < Width
    BY <1>0 DEF Places
  <2>2. PICK u \in Nat \ {0} : Size = Pow2(p) * (2 * u)
    BY <1>0, <1>2, <2>1 DEF Size
  <2>3. Pow2(p) < Pow2(p) * (2 * u)
    BY <1>1
  <2> QED
    BY <1>1, <2>2, <2>3 DEF Helper!Word, Size
<1>4. CASE s = p
  <2>1. Pow2(p) = Pow2(s) * 1 + 0 /\ 0 \in 0 .. Pow2(s) - 1
    BY <1>1, <1>4
  <2>2. Has(Pow2(p), s)
    BY <2>1, SplitAt
  <2> QED
    BY <1>3, <1>4, <2>2
<1>5. CASE s < p
  <2>1. PICK u \in Nat \ {0} : Pow2(p) = Pow2(s) * (2 * u)
    BY <1>0, <1>2, <1>5
  <2>2. Pow2(p) = Pow2(s) * (2 * u) + 0 /\ 0 \in 0 .. Pow2(s) - 1 /\ (2 * u) % 2 = 0
    BY <1>1, <2>1
  <2>3. ~Has(Pow2(p), s)
    BY <2>2, SplitAt
  <2> QED
    BY <1>3, <1>5, <2>3 DEF Places
<1>6. CASE p < s
  <2>1. PICK u \in Nat \ {0} : Pow2(s) = Pow2(p) * (2 * u)
    BY <1>0, <1>2, <1>6
  <2>2. Pow2(p) < Pow2(p) * (2 * u)
    BY <1>1
  <2>3. Pow2(p) = Pow2(s) * 0 + Pow2(p) /\ Pow2(p) \in 0 .. Pow2(s) - 1
    BY <1>1, <2>1, <2>2
  <2>4. ~Has(Pow2(p), s)
    BY <2>3, SplitAt
  <2> QED
    BY <1>3, <1>6, <2>4 DEF Places
<1> QED
  BY <1>0, <1>4, <1>5, <1>6

LEMMA Wraps ==
  /\ \A p \in Helper!Word : Helper!Wrap(p) = p /\ Helper!Complement(p) = Size - 1 - p
  /\ Helper!Wrap(-1) = Size - 1
  /\ 0 \in Helper!Word /\ Size - 1 \in Helper!Word /\ Size \in Nat \ {0}
<1>1. Size \in Nat \ {0}
  BY PowerTypes DEF IsWidth, Size
<1>2. \A p \in 0 .. Size - 1 : p % Size = p /\ (-1 - p) % Size = Size - 1 - p
  <2> SUFFICES ASSUME NEW p \in 0 .. Size - 1
               PROVE  p % Size = p /\ (-1 - p) % Size = Size - 1 - p
    OBVIOUS
  <2>1. p = Size * 0 + p /\ -1 - p = Size * (-1) + (Size - 1 - p)
    BY <1>1
  <2>2. Size - 1 - p \in 0 .. Size - 1 /\ -1 - p \in Int /\ p \in Int
    BY <1>1
  <2> QED
    BY <1>1, <2>1, <2>2, DivisionIsOne
<1>3. 0 \in 0 .. Size - 1 /\ -1 - 0 = -1 /\ Size - 1 - 0 = Size - 1
  BY <1>1
<1> QED
  BY <1>1, <1>2, <1>3 DEF Helper!Wrap, Helper!Complement, Helper!Word, Size

\* ~ in C.
LEMMA ComplementHas ==
  ASSUME NEW p \in Helper!Word, NEW s \in Places
  PROVE  /\ Helper!Complement(p) \in Helper!Word
         /\ Has(Helper!Complement(p), s) <=> ~Has(p, s)
<1>0. IsWidth(Width) /\ Width \in Nat \ {0} /\ s \in 0 .. Width /\ Width - s \in 1 .. Width
  BY PowerTypes DEF IsWidth, Places
<1>1. p \in 0 .. Size - 1 /\ Size \in Nat \ {0} /\ Helper!Complement(p) = Size - 1 - p
  BY Wraps DEF Helper!Word, Size
<1> DEFINE q == p \div Pow2(s)
           t == p % Pow2(s)
           z == Pow2(s)
           u == Pow2(Width - s - 1)
<1>2. q \in Int /\ t \in 0 .. z - 1 /\ p = z * q + t /\ z \in Nat \ {0}
  BY <1>0, <1>1, Splits
<1>3. Size = z * (2 * u) /\ u \in Nat \ {0}
  <2>1. Width - s \in 0 .. Width - s /\ s + (Width - s) = Width
    BY <1>0
  <2>2. Size = z * Pow2(Width - s)
    BY <1>0, <2>1, PowerSum DEF Size
  <2> QED
    BY <1>0, <2>2, PowerEven
<1> HIDE DEF q, t, z, u
<1>4. Size - 1 - p = z * (2 * u - 1 - q) + (z - 1 - t)
  <2>1. z * (2 * u - 1 - q) = z * (2 * u) - z - z * q
    BY <1>2, <1>3
  <2> QED
    BY <1>1, <1>2, <1>3, <2>1
<1>5. 2 * u - 1 - q \in Int /\ z - 1 - t \in 0 .. z - 1
  BY <1>2, <1>3
<1>6. (2 * u - 1 - q) % 2 = 1 <=> q % 2 # 1
  BY <1>2, <1>3
<1>7. Has(p, s) <=> q % 2 = 1
  BY <1>2, SplitAt DEF z
<1>8. Has(Size - 1 - p, s) <=> (2 * u - 1 - q) % 2 = 1
  BY <1>4, <1>5, SplitAt DEF z
<1>9. Size - 1 - p \in Helper!Word
  BY <1>1 DEF Helper!Word, Size
<1> QED
  BY <1>1, <1>6, <1>7, <1>8, <1>9

\* setBit sets its bit to v, and no other.
LEMMA SetHas ==
  ASSUME NEW p \in Helper!Word, NEW v \in {0, 1}, NEW b \in Places
  PROVE  /\ Helper!setBit(p, v, b) \in Helper!Word
         /\ \A s \in Places : Has(Helper!setBit(p, v, b), s) <=> IF s = b THEN v = 1 ELSE Has(p, s)
<1> DEFINE e == Helper!Complement(Helper!Wrap(v - 1))
           f == Helper!Complement(Pow2(b))
           g == Pow2(b)
<1>1. /\ e \in Helper!Word
      /\ \A s \in Places : Has(e, s) <=> v = 1
  <2>1. CASE v = 1
    <3>1. Helper!Wrap(v - 1) = 0 /\ 0 \in Helper!Word
      BY <2>1, Wraps
    <3> QED
      BY <2>1, <3>1, ComplementHas, Zero
  <2>2. CASE v = 0
    <3>1. /\ Helper!Wrap(v - 1) = Size - 1 /\ Size - 1 \in Helper!Word
          /\ Helper!Complement(Size - 1) = 0 /\ 0 \in Helper!Word
      BY <2>2, Wraps
    <3> QED
      BY <2>2, <3>1, Zero
  <2> QED
    BY <2>1, <2>2
<1>2. /\ g \in Helper!Word /\ f \in Helper!Word
      /\ \A s \in Places : (Has(g, s) <=> s = b) /\ (Has(f, s) <=> s # b)
  BY PowerHas, ComplementHas
<1> HIDE DEF e, f, g
<1>3. /\ BitAnd(f, p) \in Helper!Word /\ BitAnd(g, e) \in Helper!Word
      /\ BitOr(BitAnd(f, p), BitAnd(g, e)) \in Helper!Word
      /\ \A s \in Places :
           Has(BitOr(BitAnd(f, p), BitAnd(g, e)), s)
             <=> (Has(f, s) /\ Has(p, s)) \/ (Has(g, s) /\ Has(e, s))
  BY <1>1, <1>2, BitByBit DEF Has, Places
<1>4. Helper!setBit(p, v, b) = BitOr(BitAnd(f, p), BitAnd(g, e))
  BY DEF Helper!setBit, e, f, g
<1> QED
  BY <1>1, <1>2, <1>3, <1>4

\* x - 1 and x have no bit in common if and only if x has one bit or none.
LEMMA PowerOrZero ==
  ASSUME NEW p \in Helper!Word
  PROVE  Helper!isPow2(p) <=> \A s, t \in Places : Has(p, s) /\ Has(p, t) => s = t
<1>0. IsWidth(Width) /\ Width \in Nat \ {0} /\ Places \subseteq 0 .. Width /\ Places \subseteq Nat
  BY PowerTypes DEF IsWidth, Places
<1>1. p \in 0 .. Size - 1 /\ Size \in Nat \ {0}
  BY Wraps DEF Helper!Word, Size
<1>2. CASE p = 0
  <2>1. Helper!Wrap(p - 1) \in Helper!Word /\ 0 \in Helper!Word
    BY <1>2, Wraps
  <2>2. /\ BitAnd(Helper!Wrap(p - 1), p) \in Helper!Word
        /\ \A s \in Places : ~Has(BitAnd(Helper!Wrap(p - 1), p), s)
    BY <1>2, <2>1, Zero, BitByBit DEF Has, Places
  <2>3. BitAnd(Helper!Wrap(p - 1), p) = 0
    BY <2>2, Zero
  <2> QED
    BY <1>2, <2>3, Zero DEF Helper!isPow2
<1>3. CASE p # 0
  <2> DEFINE mine == {s \in Places : Has(p, s)}
  <2>1. mine \subseteq Nat /\ mine # {}
    BY <1>0, <1>3, Zero
  <2>2. PICK b \in mine : \A s \in mine : b <= s
    <3> HIDE DEF mine
    <3> QED
      BY <2>1, LeastNumber
  <2>3. b \in Places /\ Has(p, b) /\ \A s \in Places : Has(p, s) => b <= s
    BY <2>2
  <2> HIDE DEF mine
  <2> DEFINE q == p \div Pow2(b)
             z == Pow2(b)
  <2>4. q \in Int /\ p = z * q + 0 /\ z \in Nat \ {0}
    <3>1. \A s \in 0 .. b - 1 : ~Has(p, s)
      BY <1>0, <2>3 DEF Places
    <3>2. p % Pow2(b) = 0
      BY <1>0, <1>1, <2>3, <3>1, NoBitBelow
    <3> QED
      BY <1>0, <1>1, <2>3, <3>2, Splits
  <2> HIDE DEF q
  <2>5. q % 2 = 1
    <3>1. 0 \in 0 .. Pow2(b) - 1 /\ p = Pow2(b) * q + 0
      BY <2>4
    <3> QED
      BY <2>3, <2>4, <3>1, SplitAt
  <2>6. ASSUME NEW s \in Places, Has(p, s), s # b PROVE Has(p - 1, s)
    <3> DEFINE u == p \div Pow2(s)
               t == p % Pow2(s)
               w == Pow2(s)
               h == Pow2(s - b - 1)
    <3>1. b < s /\ s - b \in 1 .. Width /\ s - b \in 0 .. Width - b /\ b + (s - b) = s
      BY <1>0, <2>3, <2>6 DEF Places
    <3>2. w = z * (2 * h) /\ h \in Nat \ {0}
      <4>1. w = z * Pow2(s - b)
        BY <1>0, <2>3, <3>1, PowerSum
      <4> QED
        BY <1>0, <3>1, <4>1, PowerEven
    <3>3. u \in Int /\ t \in 0 .. w - 1 /\ p = w * u + t /\ w \in Nat \ {0}
      BY <1>0, <1>1, Splits
    <3> HIDE DEF u, t, h
    <3>4. t # 0
      <4> SUFFICES ASSUME t = 0 PROVE FALSE
        OBVIOUS
      <4>1. z * q = z * (2 * h * u)
        <5>1. (z * (2 * h)) * u = z * (2 * h * u)
          BY <2>4, <3>2, <3>3
        <5> QED
          BY <2>4, <3>2, <3>3, <5>1
      <4>2. q = 2 * (h * u)
        <5>1. z * q = z * (2 * h * u) + 0 /\ 2 * h * u \in Int /\ z * q = z * q + 0
              /\ 0 \in 0 .. z - 1
          BY <2>4, <3>2, <3>3, <4>1
        <5>2. (z * q) \div z = 2 * h * u /\ (z * q) \div z = q
          BY <2>4, <5>1, DivisionIsOne
        <5> QED
          BY <5>2, <3>2, <3>3
      <4> QED
        BY <2>5, <4>2, <3>2, <3>3
    <3>5. p - 1 = w * u + (t - 1) /\ t - 1 \in 0 .. w - 1
      BY <3>3, <3>4
    <3>6. u % 2 = 1
      BY <2>6, <3>3, SplitAt DEF w
    <3> QED
      BY <3>3, <3>5, <3>6, SplitAt DEF w
  <2>7. ~Has(p - 1, b)
    <3>1. z * (q - 1) = z * q - z
      BY <2>4
    <3>2. p - 1 = z * (q - 1) + (z - 1) /\ z - 1 \in 0 .. z - 1 /\ q - 1 \in Int
      BY <2>4, <3>1
    <3>3. (q - 1) % 2 # 1
      BY <2>4, <2>5
    <3> QED
      BY <2>3, <3>2, <3>3, SplitAt
  <2>8. Helper!Wrap(p - 1) = p - 1 /\ p - 1 \in Helper!Word
    <3>1. p - 1 \in Helper!Word
      BY <1>1, <1>3 DEF Helper!Word, Size
    <3> QED
      BY <3>1, Wraps
  <2> DEFINE both == BitAnd(p - 1, p)
  <2>9. /\ both \in Helper!Word
        /\ \A s \in Places : Has(both, s) <=> Has(p - 1, s) /\ Has(p, s)
    BY <2>8, BitByBit DEF Has, Places
  <2> HIDE DEF both
  <2>10. both = 0 <=> \A s \in Places : Has(p, s) => s = b
    BY <2>6, <2>7, <2>9, Zero
  <2>11. Helper!isPow2(p) <=> both = 0
    BY <2>8 DEF Helper!isPow2, both
  <2> QED
    BY <2>3, <2>10, <2>11
<1> QED
  BY <1>2, <1>3

-----------------------------------------------------------------------------
(* The checksum.                                                           *)

\* A loop over the registers has what it has after each of them.
LEMMA Loop ==
  ASSUME NEW regs
  PROVE  \E h : /\ h = [i \in 0 .. 32 |-> IF i = 0 THEN 0 ELSE BitXor(h[i - 1], regs[i - 1])]
<1> DEFINE Sofar(h, m) ==
             h = [i \in 0 .. m |-> IF i = 0 THEN 0 ELSE BitXor(h[i - 1], regs[i - 1])]
           S == {m \in 0 .. 32 : \E h : Sofar(h, m)}
<1>1. 0 \in S
  <2> DEFINE g == [i \in 0 .. 0 |-> 0]
  <2>1. \A i \in 0 .. 0 : g[i] = IF i = 0 THEN 0 ELSE BitXor(g[i - 1], regs[i - 1])
    OBVIOUS
  <2>2. g = [i \in 0 .. 0 |-> g[i]]
    OBVIOUS
  <2> HIDE DEF g
  <2>3. Sofar(g, 0)
    BY <2>1, <2>2
  <2> QED
    BY <2>3
<1>2. ASSUME NEW m \in 0 .. 31, m \in S PROVE m + 1 \in S
  <2>1. PICK h : Sofar(h, m)
    BY <1>2
  <2> DEFINE g == [i \in 0 .. m + 1 |-> IF i = m + 1 THEN BitXor(h[m], regs[m]) ELSE h[i]]
  <2>2. \A i \in 0 .. m + 1 : g[i] = IF i = 0 THEN 0 ELSE BitXor(g[i - 1], regs[i - 1])
    <3> SUFFICES ASSUME NEW i \in 0 .. m + 1
                 PROVE  g[i] = IF i = 0 THEN 0 ELSE BitXor(g[i - 1], regs[i - 1])
      OBVIOUS
    <3>1. CASE i = m + 1
      <4>1. i # 0 /\ i - 1 = m /\ g[m] = h[m] /\ g[i] = BitXor(h[m], regs[m])
        BY <3>1
      <4> QED
        BY <4>1
    <3>2. CASE i # m + 1
      <4>1. i \in 0 .. m /\ g[i] = h[i]
        BY <3>2
      <4>2. h[i] = IF i = 0 THEN 0 ELSE BitXor(h[i - 1], regs[i - 1])
        BY <2>1, <4>1
      <4>3. i # 0 => g[i - 1] = h[i - 1]
        BY <4>1
      <4> QED
        BY <4>1, <4>2, <4>3
    <3> QED
      BY <3>1, <3>2
  <2>3. g = [i \in 0 .. m + 1 |-> g[i]]
    OBVIOUS
  <2> HIDE DEF g
  <2>4. Sofar(g, m + 1)
    BY <2>2, <2>3
  <2> QED
    BY <2>4
<1> HIDE DEF S
<1>3. 32 \in S
  <2>1. 0 .. 32 \subseteq S
    BY <1>1, <1>2, UpTo
  <2> QED
    BY <2>1
<1> QED
  BY <1>3 DEF S

\* The checksum has the bits that an odd number of registers have.
LEMMA ChecksumHas ==
  ASSUME NEW regs \in [Helper!Reg -> Helper!Word], NEW sets,
         \A r \in Helper!Reg, s \in Places : Has(regs[r], s) <=> s \in sets[r]
  PROVE  \A s \in Places :
           Has(Helper!checksum_gprs(regs), s)
             <=> Cardinality({r \in Helper!Reg : s \in sets[r]}) % 2 = 1
<1> DEFINE h == CHOOSE h : h = [i \in 0 .. 32 |-> IF i = 0 THEN 0
                                                  ELSE BitXor(h[i - 1], regs[i - 1])]
           First(m, s) == {r \in Helper!Reg : r < m /\ s \in sets[r]}
           S == {m \in 0 .. 32 :
                   /\ h[m] \in Helper!Word
                   /\ \A s \in Places : Has(h[m], s) <=> Cardinality(First(m, s)) % 2 = 1}
<1>1. Helper!checksum_gprs(regs) = h[32]
  BY DEF Helper!checksum_gprs
<1>2. h = [i \in 0 .. 32 |-> IF i = 0 THEN 0 ELSE BitXor(h[i - 1], regs[i - 1])]
  BY Loop
<1> HIDE DEF h
<1>3. ASSUME NEW m \in 0 .. 32, NEW s
      PROVE  IsFiniteSet(First(m, s)) /\ Cardinality(First(m, s)) \in Nat
  <2>0. IsFiniteSet(0 .. 31)
    <3>1. \A p, q \in Int : IsFiniteSet(p .. q)
      BY FS_Interval
    <3> DEFINE last == 31
    <3>2. 0 \in Int /\ last \in Int
      OBVIOUS
    <3> HIDE DEF last
    <3>3. IsFiniteSet(0 .. last)
      BY <3>1, <3>2
    <3> QED
      BY <3>3 DEF last
  <2>1. IsFiniteSet(0 .. 31) /\ First(m, s) \in SUBSET (0 .. 31)
    BY <2>0 DEF Helper!Reg
  <2> HIDE DEF First
  <2> QED
    BY <2>1, FS_Subset, FS_CardinalityType
<1>4. 0 \in S
  <2>1. h[0] = 0 /\ 0 \in Helper!Word
    BY <1>2, Wraps
  <2>2. ASSUME NEW s PROVE Cardinality(First(0, s)) = 0
    <3>1. First(0, s) = {}
      BY DEF Helper!Reg
    <3> QED
      BY <3>1, FS_EmptySet
  <2> HIDE DEF First
  <2> QED
    BY <2>1, <2>2, Zero
<1>5. ASSUME NEW m \in 0 .. 31, m \in S PROVE m + 1 \in S
  <2>1. h[m + 1] = BitXor(h[m], regs[m]) /\ h[m] \in Helper!Word /\ m \in Helper!Reg
    BY <1>2, <1>5 DEF Helper!Reg
  <2>2. /\ h[m + 1] \in Helper!Word
        /\ \A s \in Places : Has(h[m + 1], s) <=> ~(Has(h[m], s) <=> Has(regs[m], s))
    BY <2>1, BitByBit DEF Has, Places
  <2>3. ASSUME NEW s \in Places
        PROVE  Has(h[m + 1], s) <=> Cardinality(First(m + 1, s)) % 2 = 1
    <3>1. Has(h[m], s) <=> Cardinality(First(m, s)) % 2 = 1
      BY <1>5
    <3>2. IsFiniteSet(First(m, s)) /\ Cardinality(First(m, s)) \in Nat
      <4>1. m \in 0 .. 32
        OBVIOUS
      <4> HIDE DEF First
      <4> QED
        BY <1>3, <4>1
    <3>3. CASE s \in sets[m]
      <4>1. First(m + 1, s) = First(m, s) \cup {m} /\ m \notin First(m, s)
        BY <2>1, <3>3 DEF Helper!Reg
      <4> HIDE DEF First
      <4>2. Cardinality(First(m + 1, s)) = Cardinality(First(m, s)) + 1
        BY <3>2, <4>1, FS_AddElement
      <4>3. Has(regs[m], s)
        BY <2>1, <3>3
      <4>4. Cardinality(First(m + 1, s)) % 2 = 1 <=> ~(Cardinality(First(m, s)) % 2 = 1)
        BY <3>2, <4>2
      <4> QED
        BY <2>2, <3>1, <4>3, <4>4
    <3>4. CASE s \notin sets[m]
      <4>1. First(m + 1, s) = First(m, s)
        BY <2>1, <3>4 DEF Helper!Reg
      <4> HIDE DEF First
      <4>2. ~Has(regs[m], s)
        BY <2>1, <3>4
      <4> QED
        BY <2>2, <3>1, <4>1, <4>2
    <3> QED
      BY <3>3, <3>4
  <2> HIDE DEF First
  <2>4. m + 1 \in 0 .. 32
    OBVIOUS
  <2> QED
    BY <2>2, <2>3, <2>4
<1>6. 32 \in S
  <2> HIDE DEF S
  <2>1. 0 .. 32 \subseteq S
    BY <1>4, <1>5, UpTo
  <2> QED
    BY <2>1
<1>7. \A s : First(32, s) = {r \in Helper!Reg : s \in sets[r]}
  BY DEF Helper!Reg
<1> HIDE DEF First
<1> QED
  BY <1>1, <1>6, <1>7

-----------------------------------------------------------------------------
\* The registers have the bits they are expected to have.
BitInv ==
  /\ gpr \in [Helper!Reg -> Helper!Word]
  /\ bits \in [Helper!Reg -> SUBSET Places]
  /\ \A r \in Helper!Reg, s \in Places : Has(gpr[r], s) <=> s \in bits[r]

LEMMA BitInvariance == Helper!Spec => []BitInv
<1>1. Helper!Init => BitInv
  BY Zero, Wraps DEF Helper!Init, BitInv
<1>2. ASSUME BitInv, [Helper!Next]_(Helper!vars) PROVE BitInv'
  <2>1. CASE UNCHANGED Helper!vars
    BY <1>2, <2>1 DEF BitInv, Helper!vars
  <2>2. CASE Helper!Next
    <3>1. PICK r \in Touched, v \in {0, 1}, b \in Places : Helper!SetBit(r, v, b)
      BY <2>2 DEF Helper!Next, Places
    <3>2. r \in Helper!Reg /\ gpr[r] \in Helper!Word
      BY <1>2, BitByBit DEF BitInv
    <3>3. /\ Helper!setBit(gpr[r], v, b) \in Helper!Word
          /\ \A s \in Places : Has(Helper!setBit(gpr[r], v, b), s)
                                 <=> IF s = b THEN v = 1 ELSE Has(gpr[r], s)
      BY <3>2, SetHas
    <3>4. /\ gpr' = [gpr EXCEPT ![r] = Helper!setBit(gpr[r], v, b)]
          /\ bits' = [bits EXCEPT ![r] = IF v = 1 THEN bits[r] \cup {b} ELSE bits[r] \ {b}]
      BY <3>1 DEF Helper!SetBit
    <3>5. gpr' \in [Helper!Reg -> Helper!Word] /\ bits' \in [Helper!Reg -> SUBSET Places]
      BY <1>2, <3>3, <3>4 DEF BitInv
    <3>6. ASSUME NEW q \in Helper!Reg, NEW s \in Places
          PROVE  Has(gpr'[q], s) <=> s \in bits'[q]
      <4>1. CASE q = r
        <5>1. gpr'[q] = Helper!setBit(gpr[r], v, b)
          BY <1>2, <3>4, <4>1 DEF BitInv
        <5>2. s \in bits'[q] <=> IF s = b THEN v = 1 ELSE s \in bits[r]
          BY <1>2, <3>2, <3>4, <4>1 DEF BitInv
        <5> QED
          BY <1>2, <3>2, <3>3, <5>1, <5>2 DEF BitInv
      <4>2. CASE q # r
        BY <1>2, <3>4, <4>2 DEF BitInv
      <4> QED
        BY <4>1, <4>2
    <3> QED
      BY <3>5, <3>6 DEF BitInv
  <2> QED
    BY <1>2, <2>1, <2>2
<1> QED BY <1>1, <1>2, PTL DEF Helper!Spec

\* Bits and this module count alike.
LEMMA SameCount == \A S : Helper!Cardinality(S) = Cardinality(S)
  BY Zenon DEF Cardinality, Helper!Cardinality

\* Whatever the order of the calls, for a type of any width: setBit sets its bit
\* and no other, isPow2 takes zero and the powers of two, and a bit of the checksum
\* is the parity of the registers that have it.
THEOREM BitsHold == Helper!Spec => []BitsAsSet
<1>1. ASSUME BitInv PROVE BitsAsSet
  <2>0. Touched \subseteq Helper!Reg
    BY BitByBit
  <2>1. \A r \in Touched, s \in Places : Has(gpr[r], s) <=> s \in bits[r]
    BY <1>1, <2>0 DEF BitInv
  <2>2. ASSUME NEW r \in Touched
        PROVE  Helper!isPow2(gpr[r]) <=> Cardinality(bits[r]) <= 1
    <3>1. r \in Helper!Reg /\ gpr[r] \in Helper!Word /\ bits[r] \in SUBSET Places
      BY <1>1, <2>0 DEF BitInv
    <3>2. IsFiniteSet(bits[r]) /\ Cardinality(bits[r]) \in Nat
      <4>1. 0 \in Int /\ Width - 1 \in Int
        BY Powers
      <4>2. IsFiniteSet(Places)
        BY <4>1, FS_Interval DEF Places
      <4> QED
        BY <3>1, <4>2, FS_Subset, FS_CardinalityType
    <3>3. Cardinality(bits[r]) <= 1 <=> \A s, t \in bits[r] : s = t
      <4>1. Cardinality(bits[r]) = 0 <=> bits[r] = {}
        BY <3>2, FS_EmptySet
      <4>2. Cardinality(bits[r]) = 1 <=> \E s : bits[r] = {s}
        BY <3>2, FS_Singleton
      <4>3. Cardinality(bits[r]) <= 1 <=> Cardinality(bits[r]) = 0 \/ Cardinality(bits[r]) = 1
        BY <3>2
      <4>4. (\A s, t \in bits[r] : s = t) <=> bits[r] = {} \/ \E s : bits[r] = {s}
        OBVIOUS
      <4> QED
        BY <4>1, <4>2, <4>3, <4>4
    <3>4. \A s \in Places : Has(gpr[r], s) <=> s \in bits[r]
      BY <1>1, <3>1 DEF BitInv
    <3> QED
      BY <3>1, <3>3, <3>4, PowerOrZero
  <2>3. \A s \in Places : Has(Helper!checksum_gprs(gpr), s)
                            <=> Cardinality({r \in Helper!Reg : s \in bits[r]}) % 2 = 1
    BY <1>1, ChecksumHas DEF BitInv
  <2>4. \A r \in Touched : Helper!isPow2(gpr[r]) <=> Cardinality(bits[r]) <= 1
    BY <2>2
  <2>5. \A r \in Touched, s \in 0 .. Width - 1 : Helper!extractBit(gpr[r], s) <=> s \in bits[r]
    BY <2>1, Zenon DEF Has, Places
  <2>6. \A s \in 0 .. Width - 1 :
          Helper!extractBit(Helper!checksum_gprs(gpr), s)
            <=> Cardinality({r \in Helper!Reg : s \in bits[r]}) % 2 = 1
    BY <2>3, Zenon DEF Has, Places
  <2>7. Helper!BitsAsSet <=>
          /\ \A r \in Touched, s \in 0 .. Width - 1 : Helper!extractBit(gpr[r], s) <=> s \in bits[r]
          /\ \A r \in Touched : Helper!isPow2(gpr[r]) <=> Cardinality(bits[r]) <= 1
          /\ \A s \in 0 .. Width - 1 :
               Helper!extractBit(Helper!checksum_gprs(gpr), s)
                 <=> Cardinality({r \in Helper!Reg : s \in bits[r]}) % 2 = 1
    BY SameCount, Zenon DEF Helper!BitsAsSet
  <2>8. Helper!BitsAsSet <=> BitsAsSet
    BY DEF BitsAsSet
  <2> QED
    BY <2>4, <2>5, <2>6, <2>7, <2>8, Zenon
<1> QED BY <1>1, BitInvariance, PTL

-----------------------------------------------------------------------------
(* The hash.  Hashes of memories a byte apart differ, and the hash is the  *)
(* same in both builds.  A step of the division loses no information, as   *)
(* the bit it shifts out comes back in bit 31 of POLY, so registers once   *)
(* apart stay apart; and it is a step of the division the instruction      *)
(* makes, with the bits in reverse order.                                  *)

\* ^ with the same word or byte can be undone.
LEMMA XorCancels ==
  ASSUME NEW a, NEW b, NEW z
  PROVE  Xor(a, z) = Xor(b, z) => a = b
<1> SUFFICES ASSUME Xor(a, z) = Xor(b, z) PROVE \A e : e \in a <=> e \in b
  OBVIOUS
<1>1. \A e : e \in Xor(a, z) <=> ~(e \in a <=> e \in z)
  BY DEF Xor
<1>2. \A e : e \in Xor(b, z) <=> ~(e \in b <=> e \in z)
  BY DEF Xor
<1> QED BY <1>1, <1>2

\* ^ with two words that differ, of one word, differs.
LEMMA XorLeft ==
  ASSUME NEW a, NEW b, NEW z
  PROVE  Xor(z, a) = Xor(z, b) => a = b
<1>1. Xor(z, a) = Xor(a, z) /\ Xor(z, b) = Xor(b, z)
  BY DEF Xor
<1>2. Xor(a, z) = Xor(b, z) => a = b
  BY XorCancels, Zenon
<1> QED BY <1>1, <1>2

\* Sets of bits of a word.
LEMMA XorType ==
  ASSUME NEW a \in Word, NEW b \in Word
  PROVE  Xor(a, b) \in Word
BY DEF Xor, Word

LEMMA ShiftType ==
  ASSUME NEW a \in Word
  PROVE  ShiftRight(a) \in Word /\ 31 \notin ShiftRight(a)
BY DEF ShiftRight, Word

LEMMA DivideType ==
  ASSUME NEW a \in Word
  PROVE  Divide(a) \in Word
<1>1. POLY \in Word
  BY DEF POLY, Word
<1> QED BY <1>1, ShiftType, XorType DEF Divide

\* The bits that a shift keeps can be told from its result.
LEMMA ShiftKeeps ==
  ASSUME NEW a \in Word, NEW b \in Word, ShiftRight(a) = ShiftRight(b),
         0 \in a <=> 0 \in b
  PROVE  a = b
<1>1. \A s \in Word : \A e \in 1 .. 31 : e \in s <=> e - 1 \in ShiftRight(s)
  BY DEF ShiftRight, Word
<1>2. \A e \in 0 .. 31 : e \in a <=> e \in b
  BY <1>1
<1> QED BY <1>2 DEF Word

\* Bit 31 of the result says what was shifted out.
LEMMA DivideKeeps ==
  ASSUME NEW a \in Word, NEW b \in Word, Divide(a) = Divide(b)
  PROVE  a = b
<1>1. ASSUME NEW s \in Word PROVE 31 \in Divide(s) <=> 0 \in s
  <2>1. 31 \in POLY
    BY DEF POLY
  <2> QED BY <2>1, ShiftType DEF Divide, Xor
<1>2. 0 \in a <=> 0 \in b
  BY <1>1
<1>3. ShiftRight(a) = ShiftRight(b)
  BY <1>2, XorCancels DEF Divide
<1> QED BY <1>2, <1>3, ShiftKeeps

\* What the byte a step takes in is.
LEMMA ByteType ==
  ASSUME NEW s \in Seq(Byte), NEW i \in 1 .. Len(s)
  PROVE  s[i] \in Word
<1>1. s[i] \in Byte
  OBVIOUS
<1> QED BY <1>1 DEF Byte, Word

-----------------------------------------------------------------------------
\* The registers agree as long as the memories do, and only so long.
Apart == c = d <=> \A i \in 1 .. n : ~Differ(buf, other, i)

\* TypeOK but for the register of the amd64 build.
Registers ==
  /\ buf \in Seq(Byte) /\ other \in Seq(Byte) /\ OneByteApart(buf, other)
  /\ c \in Word /\ d \in Word
  /\ n \in 0 .. Len(buf) /\ k \in 0 .. 8

HashInv == Registers /\ Apart

LEMMA HashInit == Init => HashInv
<1> SUFFICES ASSUME Init PROVE HashInv
  OBVIOUS
<1>1. PICK m \in Buffers : buf = m[1] /\ other = m[2]
  BY DEF Init
<1>2. buf \in Seq(Byte) /\ other \in Seq(Byte) /\ OneByteApart(buf, other)
  BY <1>1, Contents
<1>3. c = d /\ c \in Word /\ n = 0 /\ k = 8
  BY DEF Init, Ones, Word
<1>4. n \in 0 .. Len(buf)
  BY <1>2, <1>3
<1> QED BY <1>2, <1>3, <1>4 DEF HashInv, Registers, Apart

LEMMA ByteStep == HashInv /\ NextByte => HashInv'
<1> SUFFICES ASSUME HashInv, NextByte PROVE HashInv'
  OBVIOUS
<1> USE DEF HashInv, Registers
<1>1. n' = n + 1 /\ n' \in 1 .. Len(buf) /\ n \in Nat
  BY DEF NextByte
<1>2. buf[n'] \in Word /\ other[n'] \in Word
  BY <1>1, ByteType DEF OneByteApart
<1>3. c' = Xor(c, buf[n']) /\ d' = Xor(d, other[n']) /\ c' \in Word /\ d' \in Word
  BY <1>2, XorType DEF NextByte
<1>4. Registers'
  BY <1>1, <1>3 DEF NextByte
<1>5. Apart'
  <2>1. \A i \in 1 .. n' : i = n' \/ i \in 1 .. n
    BY <1>1
  <2>2. CASE c = d
    <3>1. c' = d' <=> ~Differ(buf, other, n')
      BY <1>3, <2>2, XorLeft DEF Differ
    <3>2. \A i \in 1 .. n : ~Differ(buf, other, i)
      BY <2>2 DEF Apart
    <3> QED BY <1>1, <2>1, <3>1, <3>2 DEF Apart, NextByte, Differ
  <2>3. CASE c # d
    <3>1. PICK i \in 1 .. n : Differ(buf, other, i)
      BY <2>3 DEF Apart
    <3>2. i \in 1 .. Len(buf) /\ i # n'
      BY <1>1
    <3>3. buf[n'] = other[n']
      BY <1>1, <3>1, <3>2 DEF OneByteApart, Differ
    <3>4. c' # d'
      BY <1>3, <2>3, <3>3, XorCancels
    <3>5. i \in 1 .. n'
      BY <1>1
    <3> QED BY <3>1, <3>4, <3>5 DEF Apart, NextByte, Differ
  <2> QED BY <2>2, <2>3
<1> QED BY <1>4, <1>5

LEMMA BitStep == HashInv /\ NextBit => HashInv'
<1> SUFFICES ASSUME HashInv, NextBit PROVE HashInv'
  OBVIOUS
<1> USE DEF HashInv, Registers
<1>1. c' = Divide(c) /\ d' = Divide(d) /\ c' \in Word /\ d' \in Word
  BY DivideType DEF NextBit
<1>2. Registers'
  BY <1>1 DEF NextBit
<1>3. c' = d' <=> c = d
  BY <1>1, DivideKeeps
<1>4. Apart'
  BY <1>3 DEF Apart, NextBit, Differ
<1> QED BY <1>2, <1>4

LEMMA HashInvariance == Spec => []HashInv
<1>1. HashInv /\ UNCHANGED vars => HashInv'
  BY DEF HashInv, Registers, Apart, Differ, OneByteApart, vars
<1>2. HashInv /\ [Next]_vars => HashInv'
  BY <1>1, ByteStep, BitStep DEF Next
<1> QED BY HashInit, <1>2, PTL DEF Spec

\* The hash tells two memories apart that differ in a byte: of any length, at any
\* place, in any bits.
THEOREM HashTells == Spec => []OneByteTells
<1>1. HashInv => OneByteTells
  <2> SUFFICES ASSUME HashInv, Ended PROVE crc32(c) = crc32(d) <=> buf = other
    BY DEF OneByteTells
  <2> USE DEF HashInv, Registers
  <2>1. crc32(c) = crc32(d) <=> c = d
    BY XorCancels DEF crc32
  <2>2. c = d <=> \A i \in 1 .. Len(buf) : buf[i] = other[i]
    BY DEF Ended, Apart, Differ
  <2>3. buf = other <=> \A i \in 1 .. Len(buf) : buf[i] = other[i]
    BY DEF OneByteApart
  <2> QED BY <2>1, <2>2, <2>3
<1> QED BY <1>1, HashInvariance, PTL

-----------------------------------------------------------------------------
(* The instruction.                                                        *)

\* Bit b of the register is, after j steps, the term of degree 39 - j - b.
Terms(j, s) == {39 - j - b : b \in s}

LEMMA TermsAre ==
  ASSUME NEW s \in SUBSET Int, NEW j \in Int
  PROVE  /\ Terms(j, s) \in SUBSET Int
         /\ \A e \in Int : e \in Terms(j, s) <=> 39 - j - e \in s
<1>1. Terms(j, s) \in SUBSET Int
  BY DEF Terms
<1>2. ASSUME NEW e \in Int, e \in Terms(j, s) PROVE 39 - j - e \in s
  <2>1. PICK b \in s : e = 39 - j - b
    BY <1>2 DEF Terms
  <2>2. 39 - j - e = b
    BY <2>1
  <2> QED BY <2>2
<1>3. ASSUME NEW e \in Int, 39 - j - e \in s PROVE e \in Terms(j, s)
  <2>1. e = 39 - j - (39 - j - e)
    OBVIOUS
  <2> QED BY <1>3, <2>1 DEF Terms
<1> QED BY <1>1, <1>2, <1>3

LEMMA WordBits == \A s \in Word : s \in SUBSET Int
  BY DEF Word

\* Generator is POLY with its bits in reverse order, and the term of degree 32.
LEMMA GeneratorIs ==
  ASSUME NEW j \in Int, NEW e \in Int
  PROVE  e \in {g + 8 - j : g \in Generator} <=> e = 40 - j \/ 39 - j - e \in POLY
<1>1. \A g \in Int : g \in Generator <=> g = 32 \/ 31 - g \in POLY
  BY DEF Generator, POLY
<1>2. Generator \subseteq Int
  BY DEF Generator
<1>3. e \in {g + 8 - j : g \in Generator} <=> e - 8 + j \in Generator
  <2>1. ASSUME NEW g \in Generator, e = g + 8 - j PROVE e - 8 + j \in Generator
    <3>1. e - 8 + j = g
      BY <1>2, <2>1
    <3> QED BY <3>1
  <2>2. e = (e - 8 + j) + 8 - j
    OBVIOUS
  <2> QED BY <2>1, <2>2
<1>4. e - 8 + j \in Int /\ 31 - (e - 8 + j) = 39 - j - e /\ (e - 8 + j = 32 <=> e = 40 - j)
  OBVIOUS
<1> QED BY <1>1, <1>3, <1>4

\* A turn of the loop is a step of the division.
LEMMA DivideIsStep ==
  ASSUME NEW s \in Word, NEW j \in 1 .. 8
  PROVE  Reduced(Terms(j - 1, s), j) = Terms(j, Divide(s))
<1> DEFINE r == Terms(j - 1, s)
           multiple == {g + 8 - j : g \in Generator}
<1>1. s \in SUBSET Int /\ Divide(s) \in SUBSET Int /\ \A e \in s : e >= 0
  BY WordBits, DivideType DEF Word
<1>2. r \in SUBSET Int /\ \A e \in Int : e \in r <=> 40 - j - e \in s
  <2>1. r \in SUBSET Int /\ \A e \in Int : e \in r <=> 39 - (j - 1) - e \in s
    BY <1>1, TermsAre
  <2>2. \A e \in Int : 39 - (j - 1) - e = 40 - j - e
    OBVIOUS
  <2> QED BY <2>1, <2>2
<1>3. 40 - j \in r <=> 0 \in s
  <2>1. 40 - j \in Int /\ 40 - j - (40 - j) = 0
    OBVIOUS
  <2> QED BY <1>2, <2>1
<1>4. multiple \subseteq Int /\ \A e \in Int : e \in multiple <=> e = 40 - j \/ 39 - j - e \in POLY
  <2>1. multiple \subseteq Int
    BY DEF Generator
  <2>2. j \in Int
    OBVIOUS
  <2> QED BY <2>1, <2>2, GeneratorIs, Zenon
<1>5. \A e \in Int : e \in Terms(j, Divide(s)) <=> 39 - j - e \in Divide(s)
  BY <1>1, TermsAre
<1>6. \A b \in Int : b \in ShiftRight(s) <=> b # -1 /\ b + 1 \in s
  BY <1>1 DEF ShiftRight
<1>7. Reduced(r, j) \subseteq Int /\ Terms(j, Divide(s)) \subseteq Int
  BY <1>1, <1>2, <1>4, TermsAre DEF Reduced, Xor
<1> HIDE DEF r, multiple
<1>8. ASSUME NEW e \in Int PROVE e \in Reduced(r, j) <=> 39 - j - e \in Divide(s)
  <2> DEFINE b == 39 - j - e
  <2>1. b \in Int /\ 40 - j - e = b + 1 /\ (e = 40 - j <=> b = -1)
    OBVIOUS
  <2>2. e \in r <=> b + 1 \in s
    BY <1>2, <2>1
  <2>3. e \in multiple <=> b = -1 \/ b \in POLY
    BY <1>4, <2>1
  <2> HIDE DEF b
  <2>4. -1 \notin POLY /\ (b = -1 => b + 1 = 0)
    BY DEF POLY
  <2>5. CASE 0 \in s
    <3>1. e \in Reduced(r, j) <=> ~(e \in r <=> e \in multiple)
      BY <1>3, <2>5 DEF Reduced, Xor, multiple
    <3>2. b \in Divide(s) <=> ~(b \in ShiftRight(s) <=> b \in POLY)
      BY <2>5 DEF Divide, Xor
    <3>3. b \in ShiftRight(s) <=> b # -1 /\ b + 1 \in s
      BY <1>6, <2>1
    <3> QED BY <2>2, <2>3, <2>4, <2>5, <3>1, <3>2, <3>3 DEF b
  <2>6. CASE 0 \notin s
    <3>1. e \in Reduced(r, j) <=> e \in r
      BY <1>3, <2>6 DEF Reduced
    <3>2. b \in Divide(s) <=> b # -1 /\ b + 1 \in s
      BY <1>6, <2>1, <2>6 DEF Divide
    <3> QED BY <2>2, <2>4, <2>6, <3>1, <3>2 DEF b
  <2> QED BY <2>5, <2>6
<1> QED BY <1>5, <1>7, <1>8 DEF r

\* Eight turns of the loop.
Turns(s) == \A j \in 1 .. 8 : s[j] = Divide(s[j - 1])

LEMMA EightTurns ==
  ASSUME NEW a \in Word
  PROVE  \E s \in [0 .. 8 -> Word] : s[0] = a /\ Turns(s)
<1> DEFINE s1 == Divide(a)
           s2 == Divide(s1)
           s3 == Divide(s2)
           s4 == Divide(s3)
           s5 == Divide(s4)
           s6 == Divide(s5)
           s7 == Divide(s6)
           s8 == Divide(s7)
           s == [j \in 0 .. 8 |->
                   CASE j = 0 -> a  [] j = 1 -> s1 [] j = 2 -> s2 [] j = 3 -> s3
                     [] j = 4 -> s4 [] j = 5 -> s5 [] j = 6 -> s6 [] j = 7 -> s7
                     [] j = 8 -> s8]
<1>1. /\ s1 \in Word /\ s2 \in Word /\ s3 \in Word /\ s4 \in Word
      /\ s5 \in Word /\ s6 \in Word /\ s7 \in Word /\ s8 \in Word
  <2>1. s1 \in Word BY DivideType
  <2> HIDE DEF s1
  <2>2. s2 \in Word BY <2>1, DivideType
  <2> HIDE DEF s2
  <2>3. s3 \in Word BY <2>2, DivideType
  <2> HIDE DEF s3
  <2>4. s4 \in Word BY <2>3, DivideType
  <2> HIDE DEF s4
  <2>5. s5 \in Word BY <2>4, DivideType
  <2> HIDE DEF s5
  <2>6. s6 \in Word BY <2>5, DivideType
  <2> HIDE DEF s6
  <2>7. s7 \in Word BY <2>6, DivideType
  <2> HIDE DEF s7
  <2>8. s8 \in Word BY <2>7, DivideType
  <2> QED BY <2>1, <2>2, <2>3, <2>4, <2>5, <2>6, <2>7, <2>8
<1>2. /\ s2 = Divide(s1) /\ s3 = Divide(s2) /\ s4 = Divide(s3) /\ s5 = Divide(s4)
      /\ s6 = Divide(s5) /\ s7 = Divide(s6) /\ s8 = Divide(s7) /\ s1 = Divide(a)
  OBVIOUS
<1> HIDE DEF s1, s2, s3, s4, s5, s6, s7, s8
<1>3. s \in [0 .. 8 -> Word]
  BY <1>1
<1>4. /\ s[0] = a  /\ s[1] = s1 /\ s[2] = s2 /\ s[3] = s3 /\ s[4] = s4
      /\ s[5] = s5 /\ s[6] = s6 /\ s[7] = s7 /\ s[8] = s8
  OBVIOUS
<1> HIDE DEF s
<1>5. Turns(s)
  BY <1>2, <1>4 DEF Turns
<1> QED BY <1>3, <1>4, <1>5

\* Terms out of the reversed byte and the reversed register.
LEMMA DividendIs ==
  ASSUME NEW a \in Word, NEW byte \in Byte
  PROVE  Xor(Reflected(byte, 32, 7), Reflected(a, 8, 31)) = Terms(0, Xor(a, byte))
<1>1. byte \in Word
  BY DEF Byte, Word
<1>2. a \in SUBSET Int /\ byte \in SUBSET Int /\ Xor(a, byte) \in SUBSET Int
  BY <1>1, WordBits DEF Xor
<1>3. \A b \in Int : 32 + 7 - b = 39 - 0 - b /\ 8 + 31 - b = 39 - 0 - b
  OBVIOUS
<1>4. Reflected(byte, 32, 7) = Terms(0, byte) /\ Reflected(a, 8, 31) = Terms(0, a)
  BY <1>2, <1>3 DEF Reflected, Terms
<1>5. \A e \in Int : e \in Xor(Terms(0, byte), Terms(0, a)) <=> e \in Terms(0, Xor(a, byte))
  BY <1>2, TermsAre DEF Xor
<1>6. Xor(Terms(0, byte), Terms(0, a)) \subseteq Int /\ Terms(0, Xor(a, byte)) \subseteq Int
  BY <1>2, TermsAre DEF Xor
<1> QED BY <1>4, <1>5, <1>6

\* The instruction is the exclusive or and eight turns of the loop.
LEMMA InstructionIs ==
  ASSUME NEW a \in Word, NEW byte \in Byte,
         NEW s \in [0 .. 8 -> Word], s[0] = Xor(a, byte), Turns(s)
  PROVE  _mm_crc32_u8(a, byte) = s[8]
<1> DEFINE dividend == Xor(Reflected(byte, 32, 7), Reflected(a, 8, 31))
           Dividing(f) == f = [j \in 0 .. 8 |-> IF j = 0 THEN dividend ELSE Reduced(f[j - 1], j)]
           r == CHOOSE f : Dividing(f)
           q == [j \in 0 .. 8 |-> Terms(j, s[j])]
<1>1. dividend = Terms(0, s[0])
  BY DividendIs
<1>2. \A j \in 1 .. 8 : Reduced(Terms(j - 1, s[j - 1]), j) = Terms(j, s[j])
  <2> SUFFICES ASSUME NEW j \in 1 .. 8
               PROVE  Reduced(Terms(j - 1, s[j - 1]), j) = Terms(j, s[j])
    OBVIOUS
  <2>1. s[j - 1] \in Word /\ s[j] = Divide(s[j - 1])
    BY DEF Turns
  <2> QED BY <2>1, DivideIsStep
<1> HIDE DEF dividend
<1>3. Dividing(q)
  <2>1. \A j \in 0 .. 8 :
          Terms(j, s[j]) = IF j = 0 THEN dividend ELSE Reduced(q[j - 1], j)
    <3> SUFFICES ASSUME NEW j \in 0 .. 8
                 PROVE  Terms(j, s[j]) = IF j = 0 THEN dividend ELSE Reduced(q[j - 1], j)
      OBVIOUS
    <3>1. CASE j = 0
      BY <1>1, <3>1
    <3>2. CASE j # 0
      <4>1. j \in 1 .. 8 /\ j - 1 \in 0 .. 8
        BY <3>2
      <4>2. q[j - 1] = Terms(j - 1, s[j - 1])
        BY <4>1
      <4> HIDE DEF q
      <4> QED BY <1>2, <3>2, <4>1, <4>2
    <3> QED BY <3>1, <3>2
  <2> QED BY <2>1
<1>4. Dividing(r)
  <2> HIDE DEF Dividing, q
  <2> QED BY <1>3
<1>5. r[0] = dividend /\ \A j \in 1 .. 8 : r[j] = Reduced(r[j - 1], j)
  <2> HIDE DEF r
  <2>1. \A j \in 0 .. 8 : r[j] = IF j = 0 THEN dividend ELSE Reduced(r[j - 1], j)
    BY <1>4
  <2> QED BY <2>1
<1> HIDE DEF r, q, Dividing
<1>6. r[0] = Terms(0, s[0])
  BY <1>1, <1>5
<1>7. \A j \in 1 .. 8 : r[j - 1] = Terms(j - 1, s[j - 1]) => r[j] = Terms(j, s[j])
  BY <1>2, <1>5
<1>8. /\ r[1] = Terms(1, s[1]) /\ r[2] = Terms(2, s[2]) /\ r[3] = Terms(3, s[3])
      /\ r[4] = Terms(4, s[4]) /\ r[5] = Terms(5, s[5]) /\ r[6] = Terms(6, s[6])
      /\ r[7] = Terms(7, s[7]) /\ r[8] = Terms(8, s[8])
  BY <1>6, <1>7
<1>9. _mm_crc32_u8(a, byte) = Reflected(r[8], 0, 31)
  BY DEF _mm_crc32_u8, r, Dividing, dividend
<1>10. Reflected(Terms(8, s[8]), 0, 31) = s[8]
  <2>1. s[8] \in SUBSET Int
    BY WordBits
  <2>2. Terms(8, s[8]) \in SUBSET Int /\ \A e \in Int : e \in Terms(8, s[8]) <=> 39 - 8 - e \in s[8]
    BY <2>1, TermsAre
  <2>3. \A b \in Int : b \in Reflected(Terms(8, s[8]), 0, 31) <=> b \in s[8]
    BY <2>1, <2>2 DEF Reflected
  <2>4. Reflected(Terms(8, s[8]), 0, 31) \subseteq Int
    BY <2>2 DEF Reflected
  <2> QED BY <2>1, <2>3, <2>4
<1> QED BY <1>8, <1>9, <1>10

-----------------------------------------------------------------------------
(***************************************************************************)
(* Both builds.  Between two bytes the registers are the same; inside one, *)
(* the amd64 build is ahead: its register is what the turns that are left  *)
(* make of the other's.                                                    *)
(***************************************************************************)
Ahead ==
  \E s \in [0 .. 8 -> Word] :
    /\ \A j \in k + 1 .. 8 : s[j] = Divide(s[j - 1])
    /\ s[k] = c /\ s[8] = x

LEMMA ByteAhead == ASSUME HashInv, Ahead, NextByte PROVE Ahead'
<1> USE DEF HashInv, Registers
<1>1. PICK s \in [0 .. 8 -> Word] : s[k] = c /\ s[8] = x
  BY DEF Ahead
<1>2. c = x /\ c \in Word
  BY <1>1 DEF NextByte
<1>3. n' \in 1 .. Len(buf) /\ k' = 0 /\ c' = Xor(c, buf[n']) /\ x' = _mm_crc32_u8(x, buf[n'])
  BY DEF NextByte
<1>4. buf[n'] \in Byte /\ buf[n'] \in Word
  BY <1>3, ByteType
<1>5. c' \in Word
  BY <1>2, <1>3, <1>4, XorType
<1>6. PICK t \in [0 .. 8 -> Word] : t[0] = c' /\ Turns(t)
  BY <1>5, EightTurns
<1>7. x' = t[8]
  BY <1>2, <1>3, <1>4, <1>6, InstructionIs
<1>8. /\ \A j \in k' + 1 .. 8 : t[j] = Divide(t[j - 1])
      /\ t[k'] = c' /\ t[8] = x'
  <2>1. \A j \in k' + 1 .. 8 : j \in 1 .. 8
    BY <1>3
  <2> QED BY <1>3, <1>6, <1>7, <2>1 DEF Turns
<1> QED BY <1>6, <1>8 DEF Ahead

LEMMA BitAhead == ASSUME HashInv, Ahead, NextBit PROVE Ahead'
<1> USE DEF HashInv, Registers
<1>1. PICK s \in [0 .. 8 -> Word] :
        /\ \A j \in k + 1 .. 8 : s[j] = Divide(s[j - 1])
        /\ s[k] = c /\ s[8] = x
  BY DEF Ahead
<1>2. k \in 0 .. 7 /\ k' = k + 1 /\ c' = Divide(c) /\ x' = x
  BY DEF NextBit
<1>3. k + 1 \in k + 1 .. 8 /\ (k + 1) - 1 = k
  BY <1>2
<1>4. s[k + 1] = Divide(s[k])
  BY <1>1, <1>3
<1>5. \A j \in k' + 1 .. 8 : j \in k + 1 .. 8
  BY <1>2
<1> QED BY <1>1, <1>2, <1>4, <1>5 DEF Ahead

LEMMA BothInvariance == Spec => [](HashInv /\ Ahead)
<1>1. Init => HashInv /\ Ahead
  <2> SUFFICES ASSUME Init PROVE Ahead
    BY HashInit
  <2>1. k = 8 /\ c = Ones /\ x = Ones /\ Ones \in Word
    BY DEF Init, Ones, Word
  <2> DEFINE s == [j \in 0 .. 8 |-> Ones]
  <2>2. s \in [0 .. 8 -> Word] /\ s[k] = c /\ s[8] = x
    BY <2>1
  <2>3. \A j \in k + 1 .. 8 : s[j] = Divide(s[j - 1])
    BY <2>1
  <2> HIDE DEF s
  <2> QED BY <2>2, <2>3 DEF Ahead
<1>2. HashInv /\ Ahead /\ [Next]_vars => (HashInv /\ Ahead)'
  <2> SUFFICES ASSUME HashInv, Ahead, [Next]_vars PROVE (HashInv /\ Ahead)'
    OBVIOUS
  <2>1. CASE NextByte
    BY <2>1, ByteStep, ByteAhead
  <2>2. CASE NextBit
    BY <2>2, BitStep, BitAhead
  <2>3. CASE UNCHANGED vars
    BY <2>3 DEF HashInv, Registers, Apart, Differ, OneByteApart, Ahead, vars
  <2> QED BY <2>1, <2>2, <2>3 DEF Next
<1> QED BY <1>1, <1>2, PTL DEF Spec

\* Whatever the memory, the build with the instruction and the build without print
\* one hash.
THEOREM BuildsAgree == Spec => []PathsAgree
<1>1. HashInv /\ Ahead => PathsAgree
  BY DEF HashInv, Registers, Ahead, PathsAgree
<1> QED BY <1>1, BothInvariance, PTL

\* The registers of both builds are words, of every memory, at every step.
THEOREM CrcTypes == Spec => []TypeOK
<1>1. HashInv /\ Ahead => TypeOK
  BY DEF HashInv, Registers, Ahead, TypeOK
<1> QED BY <1>1, BothInvariance, PTL
=============================================================================
