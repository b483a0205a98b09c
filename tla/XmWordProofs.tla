----------------------------- MODULE XmWordProofs ----------------------------
(***************************************************************************)
(* Facts about the words of the machine (XmWord) and about division, for   *)
(* any width of a byte.                                                    *)
(***************************************************************************)
EXTENDS XmWord, FiniteSetTheorems, WellFoundedInduction, TLAPS

(* A product of numbers above one is above each of them.                   *)
LEMMA Product ==
  ASSUME NEW a \in Nat, NEW b \in Nat, a > 1, b > 1
  PROVE  a * b \in Nat /\ a * b > a /\ a * b > b
<1>1. a * b \in Nat
  BY SMT
<1>2. a * b >= a * 2
  BY SMT
<1>3. a * b >= 2 * b
  BY SMT
<1> QED
  BY <1>1, <1>2, <1>3, SMT

(* Division with a remainder, and that there is only one.                  *)
LEMMA Divided ==
  ASSUME NEW x \in Nat, NEW n \in Nat, n > 0
  PROVE  x \div n \in Nat /\ x % n \in 0 .. n - 1 /\ x = n * (x \div n) + (x % n)
<1>1. x \div n \in Nat
  OBVIOUS
<1>2. x % n \in 0 .. n - 1
  OBVIOUS
<1>3. x = n * (x \div n) + (x % n)
  OBVIOUS
<1> QED BY <1>1, <1>2, <1>3

(* Quotient and remainder are the only such pair.                          *)
LEMMA DividedOnce ==
  ASSUME NEW x \in Nat, NEW n \in Nat, NEW q \in Int, NEW s \in Int,
         n > 0, x = q * n + s, 0 <= s, s < n
  PROVE  x \div n = q /\ x % n = s
<1>1. x \div n = q
  OBVIOUS
<1>2. x % n = s
  OBVIOUS
<1> QED BY <1>1, <1>2

(* A byte is narrower than a half word, and that than a word.              *)
LEMMA Widths ==
  /\ ByteMod \in Nat /\ HalfMod \in Nat /\ WordMod \in Nat
  /\ ByteMod > 1 /\ HalfMod > ByteMod /\ WordMod > HalfMod
<1>1. HalfMod \in Nat /\ HalfMod > ByteMod
  BY Product, ByteAssumption DEF HalfMod
<1>2. WordMod \in Nat /\ WordMod > HalfMod
  BY <1>1, Product, ByteAssumption DEF WordMod
<1> QED
  BY <1>1, <1>2, ByteAssumption

(* Cutting to a word gives a word, and leaves a word alone.                *)
LEMMA Cut == \A x \in Int : W(x) \in Words
<1> USE Widths
<1> QED BY SMT DEF W, Words

(* A word is not cut.                                                      *)
LEMMA CutWord == \A x \in Words : W(x) = x
BY Widths, SMT DEF W, Words

(* A set of numbers has a least one.                                       *)
LEMMA LeastIn ==
  ASSUME NEW S, S \subseteq Nat, S # {}
  PROVE  \E x \in S : \A y \in S : x <= y
<1>1. PICK x \in S : \A y \in S : ~(<<y, x>> \in OpToRel(<, Nat))
  BY NatLessThanWellFounded, WFMin, Zenon
<1>2. \A y \in S : ~(y < x)
  BY <1>1 DEF OpToRel
<1> QED BY <1>2

-----------------------------------------------------------------------------
(* Bits *)

(* The provers know the powers of two one by one.                          *)
LEMMA Powers == \A k \in 0 .. 31 : 2^k \in Nat \ {0}
<1> DEFINE P(k) == 2^k \in Nat \ {0}
<1>1. /\ P(0) /\ P(1) /\ P(2) /\ P(3) /\ P(4) /\ P(5) /\ P(6) /\ P(7)
      /\ P(8) /\ P(9) /\ P(10) /\ P(11) /\ P(12) /\ P(13) /\ P(14) /\ P(15)
      /\ P(16) /\ P(17) /\ P(18) /\ P(19) /\ P(20) /\ P(21) /\ P(22) /\ P(23)
      /\ P(24) /\ P(25) /\ P(26) /\ P(27) /\ P(28) /\ P(29) /\ P(30) /\ P(31)
  OBVIOUS
<1>2. ASSUME NEW k \in 0 .. 31 PROVE P(k)
  <2> HIDE DEF P
  <2> QED BY <1>1
<1> QED BY <1>2

(* There are at most 32 bits in a word.                                    *)
LEMMA PlacesFew ==
  /\ IsFiniteSet(Places) /\ Places \subseteq 0 .. 31
  /\ WordBits \in 1 .. 32
<1>1. Places \subseteq 0 .. 31
  BY DEF Places
<1>2. IsFiniteSet(0 .. 31) /\ Cardinality(0 .. 31) = 32
  <2>1. 0 \in Int /\ 31 \in Int /\ ~(0 > 31) /\ 31 - 0 + 1 = 32
    OBVIOUS
  <2> QED BY <2>1, FS_Interval, Zenon
<1>3. IsFiniteSet(Places) /\ Cardinality(Places) <= 32 /\ Cardinality(Places) \in Nat
  BY <1>1, <1>2, FS_Subset, FS_CardinalityType, ZenonT(60)
<1>4. 0 \in Places
  <2>1. 2^0 < WordMod
    BY Widths
  <2>2. \A j \in 0 .. 0 : j = 0
    OBVIOUS
  <2>3. \A j \in 0 .. 0 : 2^j < WordMod
    BY <2>1, <2>2
  <2>4. 0 \in 0 .. 31
    OBVIOUS
  <2> QED BY <2>3, <2>4 DEF Places
<1>5. Cardinality(Places) # 0
  BY <1>3, <1>4, FS_EmptySet
<1> QED BY <1>1, <1>3, <1>5 DEF WordBits

(* OfBits is a fold of the library, that adds one power after the other.   *)
Power(k) == 2^k
Any(s) == CHOOSE x \in s : TRUE
Adds(f, s) == IF s = {} THEN 0 ELSE Power(Any(s)) + f[s \ {Any(s)}]

(* The sum of the bits is the function on sets of places that the fold of  *)
(* the community modules is.                                               *)
LEMMA OfBitsFolds ==
  ASSUME NEW S
  PROVE  OfBits(S) = (CHOOSE f : f = [s \in SUBSET S |-> Adds(f, s)])[S]
<1>1. OfBits(S) = MapThenFoldSet(+, 0, LAMBDA k : 2^k, LAMBDA s : CHOOSE x \in s : TRUE, S)
  BY DEF OfBits, MapThenSumSet
<1>2. OfBits(S) = MapThenFoldSet(+, 0, Power, Any, S)
  BY <1>1 DEF Power, Any
<1>3. MapThenFoldSet(+, 0, Power, Any, S)
        = (CHOOSE f : f = [s \in SUBSET S |->
             IF s = {} THEN 0 ELSE Power(Any(s)) + f[s \ {Any(s)}]])[S]
  BY Zenon DEF MapThenFoldSet
<1> QED BY <1>2, <1>3, Zenon DEF Adds

(* The sum of a set of powers is a number: there is a function that the    *)
(* fold defines, and its values are numbers.                               *)
LEMMA OfBitsNumber ==
  ASSUME NEW S, S \subseteq Places
  PROVE  OfBits(S) \in Int
<1> DEFINE Upto(n) == {s \in SUBSET S : Cardinality(s) <= n}
           Sums(n, f) == f \in [Upto(n) -> Int] /\ \A s \in Upto(n) : f[s] = Adds(f, s)
           Unsummed == {n \in Nat : \A f : ~Sums(n, f)}
<1>0. IsFiniteSet(S)
  BY PlacesFew, FS_Subset
<1>1. ASSUME NEW s \in SUBSET S PROVE IsFiniteSet(s) /\ Cardinality(s) \in Nat
  BY <1>0, FS_Subset, FS_CardinalityType
<1>2. ASSUME NEW s \in SUBSET S, s # {}
      PROVE  /\ Any(s) \in s /\ Power(Any(s)) \in Int
             /\ s \ {Any(s)} \in SUBSET S
             /\ Cardinality(s \ {Any(s)}) = Cardinality(s) - 1
             /\ Cardinality(s) > 0
  <2>1. Any(s) \in s
    BY <1>2 DEF Any
  <2>2. Power(Any(s)) \in Int
    <3>1. Any(s) \in 0 .. 31
      BY <2>1 DEF Places
    <3> QED BY <3>1, Powers DEF Power
  <2>3. Cardinality(s \ {Any(s)}) = Cardinality(s) - 1
    <3>1. IsFiniteSet(s)
      BY <1>1
    <3> QED BY <2>1, <3>1, FS_RemoveElement, Zenon
  <2>4. s \ {Any(s)} \in SUBSET S
    OBVIOUS
  <2>5. Cardinality(s \ {Any(s)}) \in Nat /\ Cardinality(s) \in Nat
    BY <1>1, <2>4
  <2>6. Cardinality(s) > 0
    BY <2>3, <2>5
  <2> QED BY <2>1, <2>2, <2>3, <2>4, <2>6
<1>3. Unsummed = {}
  <2> SUFFICES ASSUME Unsummed # {} PROVE FALSE
    OBVIOUS
  <2>1. PICK n \in Unsummed : \A y \in Unsummed : n <= y
    <3>1. Unsummed \subseteq Nat
      OBVIOUS
    <3> HIDE DEF Unsummed
    <3> QED BY <3>1, LeastIn
  <2>2. CASE n = 0
    <3> DEFINE f == [s \in Upto(0) |-> 0]
    <3>1. \A s \in Upto(0) : s = {}
      <4> SUFFICES ASSUME NEW s \in Upto(0), s # {} PROVE FALSE
        OBVIOUS
      <4>1. s \in SUBSET S /\ Cardinality(s) <= 0
        OBVIOUS
      <4>2. Cardinality(s) > 0 /\ Cardinality(s) \in Nat
        BY <1>1, <1>2, <4>1
      <4> QED BY <4>1, <4>2
    <3>2. Sums(0, f)
      BY <3>1 DEF Adds
    <3> QED BY <2>2, <3>2
  <2>3. CASE n # 0
    <3>1. n \in Nat /\ n - 1 \in Nat /\ ~(n <= n - 1)
      BY <2>3
    <3>8. n - 1 \notin Unsummed
      <4> HIDE DEF Unsummed
      <4> QED BY <2>1, <3>1
    <3>2. PICK f : Sums(n - 1, f)
      BY <3>1, <3>8
    <3> DEFINE g == [s \in Upto(n) |-> Adds(f, s)]
    <3>3. \A s \in Upto(n) : s # {} => s \ {Any(s)} \in Upto(n - 1)
      BY <1>1, <1>2
    <3>4. \A s \in Upto(n) : Adds(f, s) \in Int
      BY <1>2, <3>2, <3>3 DEF Adds
    <3>5. \A s \in Upto(n - 1) : s \in Upto(n) /\ g[s] = f[s]
      BY <1>1, <3>2
    <3>6. \A s \in Upto(n) : Adds(g, s) = Adds(f, s)
      BY <3>3, <3>5 DEF Adds
    <3>7. Sums(n, g)
      BY <3>4, <3>6
    <3> QED BY <3>7
  <2> QED BY <2>2, <2>3
<1>4. Upto(Cardinality(S)) = SUBSET S
  BY <1>0, FS_Subset
<1>5. PICK f : f \in [SUBSET S -> Int] /\ \A s \in SUBSET S : f[s] = Adds(f, s)
  <2>1. Cardinality(S) \in Nat /\ Cardinality(S) \notin Unsummed
    BY <1>0, <1>3, FS_CardinalityType
  <2> QED BY <2>1, <1>4
<1> DEFINE h == CHOOSE g : g = [s \in SUBSET S |-> Adds(g, s)]
<1>6. f = [s \in SUBSET S |-> Adds(f, s)]
  BY <1>5
<1>7. h = [s \in SUBSET S |-> Adds(h, s)]
  BY <1>6, Zenon
<1> HIDE DEF h
<1>8. \A s \in SUBSET S : h[s] = Adds(h, s)
  BY <1>7
<1> DEFINE Bad == {n \in Nat : \E s \in SUBSET S : Cardinality(s) = n /\ h[s] \notin Int}
<1>9. Bad = {}
  <2> SUFFICES ASSUME Bad # {} PROVE FALSE
    OBVIOUS
  <2>1. PICK n \in Bad : \A y \in Bad : n <= y
    <3>1. Bad \subseteq Nat
      OBVIOUS
    <3> HIDE DEF Bad
    <3> QED BY <3>1, LeastIn
  <2>2. PICK s \in SUBSET S : Cardinality(s) = n /\ h[s] \notin Int
    OBVIOUS
  <2>3. s # {}
    <3>1. {} \in SUBSET S /\ h[{}] = 0
      BY <1>8 DEF Adds
    <3> QED BY <2>2, <3>1
  <2>4. h[s] = Power(Any(s)) + h[s \ {Any(s)}]
    BY <1>8, <2>3 DEF Adds
  <2>5. h[s \ {Any(s)}] \notin Int
    BY <1>2, <2>2, <2>3, <2>4
  <2>6. /\ s \ {Any(s)} \in SUBSET S /\ Cardinality(s \ {Any(s)}) = n - 1
        /\ n \in Nat /\ n > 0
    BY <1>1, <1>2, <2>2, <2>3
  <2>7. n - 1 \in Bad
    BY <2>5, <2>6
  <2> HIDE DEF Bad
  <2> QED BY <2>1, <2>6, <2>7
<1>10. h[S] \in Int
  <2>1. Cardinality(S) \in Nat /\ S \in SUBSET S
    BY <1>0, FS_CardinalityType
  <2> QED BY <1>9, <2>1
<1> QED BY <1>10, OfBitsFolds DEF h

(* The bits of a number are places of a word, and the counts of them       *)
(* numbers.                                                                *)
LEMMA BitsFew ==
  ASSUME NEW x
  PROVE  Bits(x) \subseteq Places /\ Popcount(x) \in Nat /\ Clz(x) \in Nat /\ Clo(x) \in Nat
<1>1. Bits(x) \subseteq Places
  BY DEF Bits
<1>2. Popcount(x) \in Nat
  BY <1>1, PlacesFew, FS_Subset, FS_CardinalityType DEF Popcount
<1>3. Clz(x) \in Nat
  <2>1. CASE Bits(x) = {}
    BY <2>1, PlacesFew DEF Clz
  <2>2. CASE Bits(x) # {}
    <3>1. Bits(x) \subseteq Nat
      <4>1. Bits(x) \subseteq 0 .. 31
        BY <1>1, PlacesFew, Zenon
      <4> HIDE DEF Bits
      <4> QED BY <4>1
    <3>2. \E k \in Bits(x) : \A j \in Bits(x) : k <= j
      BY <2>2, <3>1, LeastIn
    <3>3. (CHOOSE k \in Bits(x) : \A j \in Bits(x) : k <= j) \in Bits(x)
      BY <3>2
    <3>4. Clz(x) \in Bits(x)
      BY <2>2, <3>3 DEF Clz
    <3> QED BY <3>1, <3>4
  <2> QED BY <2>1, <2>2
<1> QED BY <1>1, <1>2, <1>3 DEF Clo

(* What the arithmetic of the words makes is a number.                     *)
LEMMA Shifted ==
  ASSUME NEW a \in Nat, NEW n \in Nat
  PROVE  Shl(a, n) \in Int /\ Shr(a, n) \in Int
<1>1. Shl(a, n) \in Int
  BY OfBitsNumber DEF Shl
<1>2. n % WordBits \in 0 .. 31
  BY PlacesFew
<1>3. 2^(n % WordBits) \in Nat \ {0}
  BY <1>2, Powers
<1> QED BY <1>1, <1>3 DEF Shr

(* Turning the bytes of a word gives a number.                             *)
LEMMA Reversed == ASSUME NEW x \in Nat PROVE Bswap(x) \in Int
<1> DEFINE byte(k) == (x \div k) % ByteMod
<1>1. \A k \in Nat \ {0} : byte(k) \in Int
  BY Widths
<1>2. HalfMod * ByteMod \in Nat \ {0}
  BY Widths, Product
<1>3. byte(1) \in Int /\ byte(ByteMod) \in Int /\ byte(HalfMod) \in Int /\ byte(HalfMod * ByteMod) \in Int
  BY <1>1, <1>2, Widths
<1>4. Bswap(x) = ((byte(1) * ByteMod + byte(ByteMod)) * ByteMod + byte(HalfMod)) * ByteMod
                   + byte(HalfMod * ByteMod)
  BY DEF Bswap
<1> HIDE DEF byte
<1> QED BY <1>3, <1>4, Widths, SMT

(* A product is cut to a word.                                             *)
LEMMA Multiplied == ASSUME NEW a \in Nat, NEW b \in Nat PROVE Mul(a, b) \in Words
<1> DEFINE byte(k) == (b \div k) % ByteMod
           part(x, k) == W(W(x * ByteMod) + W(a * k))
<1>1. \A k \in Nat \ {0} : byte(k) \in Int
  BY Widths
<1>2. HalfMod * ByteMod \in Nat \ {0}
  BY Widths, Product
<1>3. byte(1) \in Int /\ byte(ByteMod) \in Int /\ byte(HalfMod) \in Int /\ byte(HalfMod * ByteMod) \in Int
  BY <1>1, <1>2, Widths
<1>4. ASSUME NEW x \in Int, NEW k \in Int PROVE part(x, k) \in Words /\ part(x, k) \in Int
  <2>1. x * ByteMod \in Int /\ a * k \in Int
    BY Widths
  <2>2. W(x * ByteMod) \in Int /\ W(a * k) \in Int
    BY <2>1, Cut DEF Words
  <2>3. part(x, k) \in Words
    BY <2>2, Cut
  <2> QED BY <2>3 DEF Words
<1>5. Mul(a, b) = part(part(part(part(0, byte(HalfMod * ByteMod)), byte(HalfMod)), byte(ByteMod)), byte(1))
  BY DEF Mul
<1> HIDE DEF byte, part
<1>6. part(0, byte(HalfMod * ByteMod)) \in Int
  BY <1>3, <1>4
<1>7. part(part(0, byte(HalfMod * ByteMod)), byte(HalfMod)) \in Int
  BY <1>3, <1>4, <1>6
<1>8. part(part(part(0, byte(HalfMod * ByteMod)), byte(HalfMod)), byte(ByteMod)) \in Int
  BY <1>3, <1>4, <1>7
<1> QED BY <1>3, <1>4, <1>5, <1>8
==============================================================================
