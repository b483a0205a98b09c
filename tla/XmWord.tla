-------------------------------- MODULE XmWord --------------------------------
(***************************************************************************)
(* The machine words of the simulator (isa/sim.c) and its integer helpers. *)
(* A word is four bytes and wraps; how wide a byte is is a parameter, 256  *)
(* in the code, so that small instances wrap soon.                         *)
(***************************************************************************)
EXTENDS Integers, FiniteSets, FiniteSetsExt

CONSTANT ByteMod     \* how many values a byte has

HalfMod == ByteMod * ByteMod
WordMod == HalfMod * HalfMod

ASSUME ByteAssumption == ByteMod \in Nat /\ ByteMod > 1

Bytes == 0 .. ByteMod - 1
Words == 0 .. WordMod - 1
W(x) == x % WordMod

(* (int8_t), (int16_t) and the sign of (int32_t)                           *)
SignedIn(x, m) == IF x >= m \div 2 THEN x - m ELSE x
Negative(x) == x >= WordMod \div 2

(* The low word of a product, byte by byte: the partial products stay      *)
(* within the integers of the model checker.                               *)
Mul(a, b) ==
  LET part(x, k) == W(W(x * ByteMod) + W(a * k))
      byte(k) == (b \div k) % ByteMod
  IN part(part(part(part(0, byte(HalfMod * ByteMod)), byte(HalfMod)), byte(ByteMod)), byte(1))

(* A word as the set of its bits.                                          *)
Places == {k \in 0 .. 31 : \A j \in 0 .. k : 2^j < WordMod}
WordBits == Cardinality(Places)
Bits(x) == {k \in Places : (x \div 2^k) % 2 = 1}
OfBits(S) == MapThenSumSet(LAMBDA k : 2^k, S)

(* cpu_i_popcount *)
Popcount(x) == Cardinality(Bits(x))

(* cpu_i_clz and cpu_i_clo: one text, that counts the zeros at the low end. *)
Clz(x) == IF Bits(x) = {} THEN WordBits ELSE CHOOSE k \in Bits(x) : \A j \in Bits(x) : k <= j
Clo(x) == Clz(x)

(* cpu_i_bswap *)
Bswap(x) ==
  LET byte(k) == (x \div k) % ByteMod
  IN ((byte(1) * ByteMod + byte(ByteMod)) * ByteMod + byte(HalfMod)) * ByteMod
       + byte(HalfMod * ByteMod)

(* The shift counts of the build: the processor looks at their low bits.   *)
Shl(a, n) == OfBits({k \in Places : k - (n % WordBits) \in Bits(a)})
Shr(a, n) == a \div (2^(n % WordBits))
===============================================================================
