---------------------------- MODULE MachineFacts ----------------------------
(***************************************************************************)
(* Facts about numbers and about the sizes of Machine that the proofs of   *)
(* the CPUs and of the loader share.                                       *)
(***************************************************************************)
EXTENDS Machine, TLAPS, WellFoundedInduction
(* Euclid's division. *)
LEMMA Divides ==
  ASSUME NEW x \in Int, NEW p \in Nat \ {0}
  PROVE  x % p \in 0 .. p - 1 /\ x \div p \in Int /\ x = p * (x \div p) + (x % p)
OBVIOUS

LEMMA DividesOnce ==
  ASSUME NEW x \in Int, NEW q \in Int, NEW p \in Nat \ {0}, NEW r \in 0 .. p - 1, x = p * q + r
  PROVE  x \div p = q /\ x % p = r
<1> DEFINE a == x \div p
           s == x % p
<1>1. a \in Int /\ s \in 0 .. p - 1 /\ x = p * a + s
  BY Divides
<1> HIDE DEF a, s
<1>2. p * (a - q) = r - s
  BY <1>1
<1>3. a - q < 1
  BY <1>1, <1>2
<1>4. a - q > -1
  BY <1>1, <1>2
<1>5. a = q
  BY <1>1, <1>3, <1>4
<1>6. s = r
  BY <1>1, <1>5
<1> QED BY <1>5, <1>6 DEF a, s

LEMMA Whole ==
  ASSUME NEW x, NEW p \in Nat \ {0}, x \in 0 .. p - 1
  PROVE  x % p = x /\ x \div p = 0
<1>1. x = p * 0 + x
  OBVIOUS
<1> QED BY <1>1, DividesOnce

LEMMA Least == ASSUME NEW T, T \subseteq Nat, T # {} PROVE \E n \in T : \A m \in T : n <= m
<1>1. PICK n \in T : \A m \in T : ~(<<m, n>> \in OpToRel(<, Nat))
  BY NatLessThanWellFounded, WFMin
<1>2. \A m \in T : ~(m < n)
  BY <1>1 DEF OpToRel
<1> QED BY <1>2

(* Induction over the numbers up to w, by the least one that fails.        *)
LEMMA UpTo ==
  ASSUME NEW w \in Nat, NEW S, 0 \in S, \A k \in 0 .. w - 1 : k \in S => k + 1 \in S
  PROVE  \A k \in 0 .. w : k \in S
<1> DEFINE T == {k \in 0 .. w : k \notin S}
<1>1. SUFFICES ASSUME T # {} PROVE FALSE
  OBVIOUS
<1>2. PICK n \in T : \A m \in T : n <= m
  <2>1. T \subseteq Nat
    OBVIOUS
  <2> HIDE DEF T
  <2> QED BY <1>1, <2>1, Least
<1>3. n - 1 \in 0 .. w - 1 /\ n - 1 \in S
  BY <1>2
<1> QED BY <1>2, <1>3
-----------------------------------------------------------------------------
(* The sizes.                                                              *)
Pow(n) == 2 ^ n

LEMMA SizeFacts ==
  ASSUME NEW s \in Sizes
  PROVE  /\ Bytes(s) \in {1, 2, 4} /\ Width(s) \in {4, 8, 16, 32} /\ Width(s) <= Width("word")
         /\ Width("word") \in {16, 32}
         /\ Mod(s) = Pow(Width(s)) /\ Mod(s) \in Nat \ {0} /\ Width(s) < Mod(s) \div 2 + 1
<1>1. ByteBits = 4 \/ ByteBits = 8
  BY MachineAssumption
<1>2. s = "byte" \/ s = "half" \/ s = "word"
  BY DEF Sizes
<1>3. CASE ByteBits = 4
  BY <1>2, <1>3 DEF Mod, Width, Bytes, Pow
<1>4. CASE ByteBits = 8
  BY <1>2, <1>4 DEF Mod, Width, Bytes, Pow
<1> QED BY <1>1, <1>3, <1>4

LEMMA ModValues ==
  \/ Mod("byte") = 16 /\ Mod("half") = 256 /\ Mod("word") = 65536
  \/ Mod("byte") = 256 /\ Mod("half") = 65536 /\ Mod("word") = 4294967296
<1>1. CASE ByteBits = 4
  BY <1>1 DEF Mod, Width, Bytes
<1>2. CASE ByteBits = 8
  BY <1>2 DEF Mod, Width, Bytes
<1> QED BY <1>1, <1>2, MachineAssumption

LEMMA LowRange == ASSUME NEW s \in Sizes, NEW x \in Int PROVE Low(s, x) \in 0 .. Mod(s) - 1
BY SizeFacts, Divides DEF Low

LEMMA WordSize == "word" \in Sizes /\ "half" \in Sizes /\ "byte" \in Sizes
BY DEF Sizes

LEMMA WordFacts == /\ Word \subseteq Nat /\ Byte \subseteq Nat /\ 0 \in Word
                   /\ \A s \in Sizes : 0 .. Mod(s) - 1 \subseteq Word
<1>1. \A s \in Sizes : s = "byte" \/ s = "half" \/ s = "word"
  BY DEF Sizes
<1> QED BY <1>1, ModValues DEF Word, Byte
-----------------------------------------------------------------------------
(* A word is its four bytes again.                                         *)
BytePow(b, k) == b ^ k

LEMMA BytePowers == \A b \in {16, 256}, k \in {0, 1, 2, 3} : BytePow(b, k) \in Nat \ {0}
<1>1. /\ BytePow(16, 0) = 1 /\ BytePow(16, 1) = 16 /\ BytePow(16, 2) = 256 /\ BytePow(16, 3) = 4096
      /\ BytePow(256, 0) = 1 /\ BytePow(256, 1) = 256 /\ BytePow(256, 2) = 65536
      /\ BytePow(256, 3) = 16777216
  BY DEF BytePow
<1> QED BY <1>1

Digit(b, v, k) == (v \div BytePow(b, k)) % b
ByteOf(v, k) == Digit(Mod("byte"), v, k)
Numeral(b, d0, d1, d2, d3) == d0 + b * (d1 + b * (d2 + b * d3))

LEMMA DigitsOf ==
  ASSUME NEW b \in {16, 256}, NEW w, w = b * b * b * b, NEW v \in 0 .. w - 1
  PROVE  v = Numeral(b, Digit(b, v, 0), Digit(b, v, 1), Digit(b, v, 2), Digit(b, v, 3))
<1> DEFINE p2 == b * b
           p3 == b * b * b
           q1 == v \div b
           q2 == q1 \div b
           q3 == q2 \div b
           d0 == v % b
           d1 == q1 % b
           d2 == q2 % b
           r2 == b * d1 + d0
           r3 == b * (b * d2 + d1) + d0
<1>1. v \in Int /\ b \in Nat \ {0} /\ p2 \in Nat \ {0} /\ p3 \in Nat \ {0}
  OBVIOUS
<1>2. d0 \in 0 .. b - 1 /\ q1 \in Int /\ v = b * q1 + d0
  BY <1>1, Divides
<1>3. d1 \in 0 .. b - 1 /\ q2 \in Int /\ q1 = b * q2 + d1
  BY <1>1, <1>2, Divides
<1>4. d2 \in 0 .. b - 1 /\ q3 \in Int /\ q2 = b * q3 + d2
  BY <1>1, <1>3, Divides
<1> HIDE DEF q1, q2, q3, d0, d1, d2
<1>5. v = p2 * q2 + r2 /\ r2 \in 0 .. p2 - 1
  BY <1>1, <1>2, <1>3
<1>6. v = p3 * q3 + r3 /\ r3 \in 0 .. p3 - 1
  BY <1>1, <1>2, <1>3, <1>4
<1>7. q3 \in 0 .. b - 1
  BY <1>1, <1>2, <1>3, <1>4
<1> HIDE DEF r2, r3
<1>8. v \div p2 = q2 /\ v \div p3 = q3
  BY <1>1, <1>3, <1>4, <1>5, <1>6, DividesOnce
<1>9. BytePow(b, 0) = 1 /\ BytePow(b, 1) = b /\ BytePow(b, 2) = p2 /\ BytePow(b, 3) = p3
  <2>1. /\ BytePow(16, 0) = 1 /\ BytePow(16, 1) = 16 /\ BytePow(16, 2) = 256 /\ BytePow(16, 3) = 4096
        /\ BytePow(256, 0) = 1 /\ BytePow(256, 1) = 256 /\ BytePow(256, 2) = 65536
        /\ BytePow(256, 3) = 16777216
    BY DEF BytePow
  <2> QED BY <2>1
<1>10. v \div 1 = v /\ q3 % b = q3
  BY <1>1, <1>7, Whole
<1>11. Digit(b, v, 0) = d0 /\ Digit(b, v, 1) = d1 /\ Digit(b, v, 2) = d2 /\ Digit(b, v, 3) = q3
  BY <1>8, <1>9, <1>10 DEF q1, d0, d1, d2, Digit
<1>12. v = Numeral(b, d0, d1, d2, q3)
  BY <1>1, <1>2, <1>3, <1>4 DEF Numeral
<1> QED BY <1>11, <1>12

LEMMA Digits ==
  ASSUME NEW v \in Word
  PROVE  v = Numeral(Mod("byte"), ByteOf(v, 0), ByteOf(v, 1), ByteOf(v, 2), ByteOf(v, 3))
<1> DEFINE b == Mod("byte")
<1>1. b \in {16, 256} /\ Mod("word") = b * b * b * b /\ v \in 0 .. Mod("word") - 1
  BY ModValues DEF Word
<1> HIDE DEF b
<1>2. v = Numeral(b, Digit(b, v, 0), Digit(b, v, 1), Digit(b, v, 2), Digit(b, v, 3))
  BY <1>1, DigitsOf
<1> QED BY <1>2 DEF ByteOf, b
=============================================================================
