----------------------------- MODULE XmCpuProofs -----------------------------
(***************************************************************************)
(* Proofs about the simulator, for any instruction table, address map and  *)
(* program.  First the memory (XmMemory) and the block instructions        *)
(* (XmBlock): what each loop has done after any number of turns, on any    *)
(* memory and with any operands, and that the loops keep the promises of   *)
(* XmBlockSpec.  Then the CPU (XmCpu) that runs them.                      *)
(***************************************************************************)
EXTENDS XmCpu, XmWordProofs

-----------------------------------------------------------------------------
(* Memory *)

(* Every address is mapped somewhere.                                      *)
LEMMA Mapped == \A a \in Nat : Translate(a) \in Cells
<1> SUFFICES ASSUME NEW a \in Nat PROVE Translate(a) \in Cells
  OBVIOUS
<1>1. CASE RomBase <= a /\ a < RomBase + RomSize
  <2>1. a - RomBase \in 0 .. RomSize - 1
    BY <1>1, MapAssumption
  <2>2. ~(RamBase <= a /\ a < RamBase + RamSize)
    BY <1>1, MapAssumption
  <2>3. Translate(a) = <<"rom", a - RomBase>>
    BY <1>1, <2>2 DEF Translate
  <2> QED BY <2>1, <2>3 DEF Cells, RomCells
<1>2. CASE ~(RomBase <= a /\ a < RomBase + RomSize) /\ RamBase <= a /\ a < RamBase + RamSize
  <2>1. a - RamBase \in 0 .. RamSize - 1
    BY <1>2, MapAssumption
  <2> QED BY <1>2, <2>1 DEF Translate, Cells, RamCells
<1>3. CASE ~(RomBase <= a /\ a < RomBase + RomSize) /\ ~(RamBase <= a /\ a < RamBase + RamSize)
  <2>1. a % PageSize \in 0 .. PageSize - 1
    BY MapAssumption
  <2> QED BY <1>3, <2>1 DEF Translate, Cells, TrapCells
<1> QED BY <1>1, <1>2, <1>3

(* Neither do the addresses that are reached from a pointer by an offset   *)
(* leave the cells, whatever wraps.                                        *)
LEMMA CellMapped == \A a, k \in Int : Cell(a, k) \in Cells
<1> SUFFICES ASSUME NEW a \in Int, NEW k \in Int PROVE Cell(a, k) \in Cells
  OBVIOUS
<1>1. W(a + k) \in Nat
  BY Cut, Widths DEF Words
<1> QED BY <1>1, Mapped DEF Cell

(* A byte that is read is a byte.                                          *)
LEMMA ReadByte == \A m \in Memories : \A a \in Nat : Read8(m, a) \in Bytes
BY Mapped DEF Read8, Memories

(* A byte that is written is a byte, and the only one that changes.        *)
LEMMA WriteByte ==
  ASSUME NEW m \in Memories, NEW a \in Nat, NEW v \in Int
  PROVE  /\ Write8(m, a, v) \in Memories
         /\ \A x \in Cells :
              Write8(m, a, v)[x] = IF x = Translate(a) THEN v % ByteMod ELSE m[x]
<1>1. v % ByteMod \in Bytes
  BY Widths DEF Bytes
<1>2. Translate(a) \in Cells
  BY Mapped
<1> QED BY <1>1, <1>2 DEF Write8, Memories

(* A number of two digits, of different bases, is less than the product of *)
(* the bases.                                                              *)
LEMMA Stacked ==
  ASSUME NEW n \in Nat, NEW m \in Nat, n > 0, m > 0,
         NEW x \in 0 .. n - 1, NEW y \in 0 .. m - 1
  PROVE  x * m + y \in 0 .. n * m - 1
<1>1. x * m + y \in Nat
  BY SMT
<1>2. x + 1 <= n
  BY SMT
<1>3. (x + 1) * m <= n * m
  BY <1>2, SMT
<1>4. (x + 1) * m = x * m + m
  BY SMT
<1> QED BY <1>1, <1>3, <1>4, SMT

(* A half word that is read is two bytes wide.                             *)
LEMMA ReadHalf == \A m \in Memories : \A a \in Nat : Read16(m, a) \in 0 .. HalfMod - 1
<1> SUFFICES ASSUME NEW m \in Memories, NEW a \in Nat PROVE Read16(m, a) \in 0 .. HalfMod - 1
  OBVIOUS
<1>1. W(a + 1) \in Nat
  BY Cut, Widths DEF Words
<1>2. Read8(m, a) \in 0 .. ByteMod - 1 /\ Read8(m, W(a + 1)) \in 0 .. ByteMod - 1
  BY <1>1, ReadByte DEF Bytes
<1> HIDE DEF Read8
<1> QED BY <1>2, Stacked, Widths DEF Read16, HalfMod

(* A word that is read is four bytes wide.                                 *)
LEMMA ReadWord == \A m \in Memories : \A a \in Nat : Read32(m, a) \in Words
<1> SUFFICES ASSUME NEW m \in Memories, NEW a \in Nat PROVE Read32(m, a) \in Words
  OBVIOUS
<1>1. W(a + 2) \in Nat
  BY Cut, Widths DEF Words
<1>2. Read16(m, a) \in 0 .. HalfMod - 1 /\ Read16(m, W(a + 2)) \in 0 .. HalfMod - 1
  BY <1>1, ReadHalf
<1> QED BY <1>2, Stacked, Widths DEF Read32, WordMod, Words

-----------------------------------------------------------------------------
(* What is stored is loaded with its bytes in the opposite order           *)

(* Cutting a sum to a word may be put off: a pointer that wraps on the way *)
(* ends where the sum does.                                                *)
LEMMA CutTwice == \A x \in Nat : \A d \in Nat : W(W(x) + d) = W(x + d)
<1> SUFFICES ASSUME NEW x \in Nat, NEW d \in Nat PROVE W(W(x) + d) = W(x + d)
  OBVIOUS
<1> DEFINE q == x \div WordMod
           e == (W(x) + d) \div WordMod
           s == (W(x) + d) % WordMod
<1>1. q \in Nat /\ W(x) \in Nat /\ x = WordMod * q + W(x)
  <2>1. WordMod \in Nat /\ WordMod > 0
    BY Widths
  <2> QED BY <2>1, Divided DEF W
<1>2. e \in Nat /\ s \in 0 .. WordMod - 1 /\ W(x) + d = WordMod * e + s
  <2>1. WordMod \in Nat /\ WordMod > 0 /\ W(x) + d \in Nat
    BY <1>1, Widths
  <2> QED BY <2>1, Divided
<1> HIDE DEF q, e, s
<1>3. x + d = (q + e) * WordMod + s
  BY <1>1, <1>2, Widths
<1>4. (x + d) % WordMod = s
  <2>1. x + d \in Nat /\ q + e \in Int /\ s \in Int /\ 0 <= s /\ s < WordMod
    BY <1>1, <1>2, Widths
  <2>2. WordMod \in Nat /\ WordMod > 0
    BY Widths
  <2> QED BY <1>3, <2>1, <2>2, DividedOnce
<1> QED BY <1>4 DEF W, s

(* Nothing between 1 and 3 is a multiple of a page.                        *)
LEMMA NoSmallMultiple ==
  ASSUME NEW p \in Nat, NEW z \in Int, NEW d \in 1 .. 3, p >= 4
  PROVE  p * z # d
<1>1. CASE z >= 1
  <2>1. p * z >= p * 1
    BY <1>1
  <2> QED BY <2>1
<1>2. CASE z <= 0
  <2>1. p * z <= p * 0
    BY <1>2
  <2> QED BY <2>1
<1> QED BY <1>1, <1>2

(* Addresses less than four apart are never mapped to one cell: not across *)
(* the end of a region, nor of the trap page, nor of the address space.    *)
LEMMA NearApart ==
  ASSUME NEW x \in Words, NEW d \in 1 .. 3, PageSize >= 4
  PROVE  Translate(x) # Translate(W(x + d))
<1> DEFINE y == W(x + d)
<1>1. /\ WordMod \in Nat /\ WordMod > 3 /\ PageSize \in Nat /\ x \in Nat /\ x < WordMod
  BY Widths, MapAssumption DEF Words
<1>2. y \in Nat /\ (y = x + d \/ y = x + d - WordMod)
  <2>1. CASE x + d < WordMod
    <3>1. x + d \in Words
      BY <1>1, <2>1 DEF Words
    <3> QED BY <1>1, <3>1, CutWord
  <2>2. CASE x + d >= WordMod
    <3>1. x + d = 1 * WordMod + (x + d - WordMod) /\ x + d - WordMod \in 0 .. WordMod - 1
      BY <1>1, <2>2
    <3>2. (x + d) % WordMod = x + d - WordMod
      BY <1>1, <3>1, DividedOnce
    <3> QED BY <3>1, <3>2 DEF W
  <2> QED BY <1>1, <2>1, <2>2
<1> HIDE DEF y
<1>3. x # y
  BY <1>1, <1>2
<1>4. x % PageSize # y % PageSize
  <2> DEFINE k == x \div PageSize
             l == y \div PageSize
             q == WordMod \div PageSize
             s == x % PageSize
  <2>1. k \in Nat /\ l \in Nat /\ q \in Nat /\ s \in Nat
        /\ x = PageSize * k + s /\ y = PageSize * l + (y % PageSize)
        /\ WordMod = PageSize * q + (WordMod % PageSize)
    <3>1. PageSize > 0 /\ WordMod \in Nat
      BY <1>1
    <3> QED BY <1>1, <1>2, <3>1, Divided
  <2>2. WordMod = PageSize * q
    BY <1>1, <2>1, MapAssumption
  <2> SUFFICES ASSUME s = y % PageSize PROVE FALSE
    OBVIOUS
  <2> HIDE DEF k, l, q, s
  <2>3. CASE y = x + d
    <3>1. PageSize * (l - k) = d
      BY <1>1, <2>1, <2>3
    <3> QED BY <1>1, <2>1, <3>1, NoSmallMultiple, SMTT(30)
  <2>4. CASE y = x + d - WordMod
    <3>1. PageSize * (l - k + q) = d
      BY <1>1, <2>1, <2>2, <2>4
    <3> QED BY <1>1, <2>1, <3>1, NoSmallMultiple
  <2> QED BY <1>2, <2>3, <2>4
<1>5. Translate(x) # Translate(y)
  BY <1>1, <1>2, <1>3, <1>4, MapAssumption DEF Translate
<1> QED BY <1>5 DEF y

(* Cutting off bytes one after the other.                                  *)
LEMMA DividedTwice ==
  ASSUME NEW v \in Nat, NEW m \in Nat, NEW n \in Nat, m > 0, n > 0
  PROVE  (v \div m) \div n = v \div (m * n)
<1> DEFINE q == v \div m
           p == q \div n
           s == v % m
           t == q % n
<1>1. q \in Nat /\ s \in 0 .. m - 1 /\ v = m * q + s
  BY Divided
<1>2. p \in Nat /\ t \in 0 .. n - 1 /\ q = n * p + t
  BY <1>1, Divided
<1> HIDE DEF q, p, s, t
<1>3. m * n \in Nat /\ m * n > 0
  <2>1. m * n >= 1 * n
    OBVIOUS
  <2> QED BY <2>1
<1>4. v = p * (m * n) + (m * t + s)
  BY <1>1, <1>2
<1>5. m * t + s \in 0 .. m * n - 1
  <2>1. m * t + s \in Nat
    BY <1>1, <1>2
  <2>2. m * (t + 1) <= m * n
    BY <1>2
  <2>3. m * (t + 1) = m * t + m
    BY <1>2
  <2> QED BY <1>1, <1>2, <1>3, <2>1, <2>2, <2>3
<1>6. v \div (m * n) = p
  <2> DEFINE w == m * n
             u == m * t + s
  <2> HIDE DEF w, u
  <2>1. w \in Nat /\ w > 0 /\ u \in Int /\ 0 <= u /\ u < w /\ v = p * w + u /\ p \in Int
    BY <1>2, <1>3, <1>4, <1>5 DEF w, u
  <2>2. v \div w = p
    BY <2>1, DividedOnce
  <2> QED BY <2>2 DEF w
<1> QED BY <1>6 DEF p, q

(* A word that was stored is loaded with its bytes turned round.           *)
LEMMA LoadedTurned ==
  ASSUME NEW m \in Memories, NEW a \in Words, NEW v \in Words, PageSize >= 4
  PROVE  Read32(Write32(m, a, v), a) = Bswap(v)
<1> DEFINE a1 == W(a + 1)
           a2 == W(a + 2)
           a3 == W(a2 + 1)
           m1 == Write8(m, a, v)
           m2 == Write8(m1, a1, v \div ByteMod)
           m3 == Write8(m2, a2, v \div HalfMod)
           m4 == Write8(m3, a3, (v \div HalfMod) \div ByteMod)
<1>1. Write32(m, a, v) = m4
  BY DEF Write32, Write16
<1>2. Read32(m4, a) = (m4[Translate(a)] * ByteMod + m4[Translate(a1)]) * HalfMod
                        + (m4[Translate(a2)] * ByteMod + m4[Translate(a3)])
  BY DEF Read32, Read16, Read8
<1>3. a \in Nat /\ v \in Nat
  BY Widths DEF Words
<1>4. a1 \in Words /\ a2 \in Words /\ a3 \in Words /\ a1 \in Nat /\ a2 \in Nat /\ a3 \in Nat
  <2>1. a1 \in Words /\ a2 \in Words
    BY <1>3, Cut
  <2>2. a3 \in Words
    BY <2>1, Cut, Widths DEF Words
  <2> QED BY <2>1, <2>2, Widths DEF Words
<1>5. a2 = W(a1 + 1) /\ a3 = W(a + 3) /\ a3 = W(a1 + 2)
  <2>1. a + 1 \in Nat /\ (a + 1) + 1 = a + 2 /\ (a + 1) + 2 = a + 3 /\ (a + 2) + 1 = a + 3
    BY <1>3
  <2>2. W(W(a + 1) + 1) = W((a + 1) + 1) /\ W(W(a + 1) + 2) = W((a + 1) + 2)
    BY <2>1, CutTwice
  <2>3. W(W(a + 2) + 1) = W((a + 2) + 1)
    BY <1>3, CutTwice
  <2> QED BY <2>1, <2>2, <2>3
<1> HIDE DEF a1, a2, a3
<1>6. /\ Translate(a) # Translate(a1) /\ Translate(a) # Translate(a2) /\ Translate(a) # Translate(a3)
      /\ Translate(a1) # Translate(a2) /\ Translate(a1) # Translate(a3)
      /\ Translate(a2) # Translate(a3)
  <2>1. Translate(a) # Translate(a1) /\ Translate(a) # Translate(a2) /\ Translate(a) # Translate(a3)
    BY <1>5, NearApart DEF a1, a2
  <2>2. Translate(a1) # Translate(a2) /\ Translate(a1) # Translate(a3)
    BY <1>4, <1>5, NearApart
  <2>3. Translate(a2) # Translate(a3)
    BY <1>4, NearApart DEF a3
  <2> QED BY <2>1, <2>2, <2>3
<1> DEFINE v1 == v \div ByteMod
           v2 == v \div HalfMod
           v3 == v2 \div ByteMod
<1>7. v1 \in Nat /\ v2 \in Nat /\ v3 \in Nat
  <2>1. v1 \in Nat /\ v2 \in Nat
    BY <1>3, Divided, Widths
  <2> QED BY <2>1, Divided, Widths
<1>8. v3 = v \div (HalfMod * ByteMod)
  BY <1>3, DividedTwice, Widths
<1>9. /\ m4 = Write8(m3, a3, v3) /\ m3 = Write8(m2, a2, v2) /\ m2 = Write8(m1, a1, v1)
      /\ m1 = Write8(m, a, v)
  OBVIOUS
<1> HIDE DEF v1, v2, v3, m1, m2, m3, m4
<1>10. m1 \in Memories /\ \A x \in Cells : m1[x] = IF x = Translate(a) THEN v % ByteMod ELSE m[x]
  <2>1. v \in Int /\ m1 = Write8(m, a, v)
    BY <1>3, <1>9
  <2>2. Write8(m, a, v) \in Memories
    BY <1>3, <2>1, WriteByte
  <2>3. \A x \in Cells : Write8(m, a, v)[x] = IF x = Translate(a) THEN v % ByteMod ELSE m[x]
    BY <1>3, <2>1, WriteByte
  <2> QED BY <2>1, <2>2, <2>3
<1>11. m2 \in Memories /\ \A x \in Cells : m2[x] = IF x = Translate(a1) THEN v1 % ByteMod ELSE m1[x]
  <2>1. v1 \in Int /\ m2 = Write8(m1, a1, v1) /\ m1 \in Memories
    BY <1>7, <1>9, <1>10
  <2>2. Write8(m1, a1, v1) \in Memories
    BY <1>4, <2>1, WriteByte
  <2>3. \A x \in Cells : Write8(m1, a1, v1)[x] = IF x = Translate(a1) THEN v1 % ByteMod ELSE m1[x]
    BY <1>4, <2>1, WriteByte
  <2> QED BY <2>1, <2>2, <2>3
<1>12. m3 \in Memories /\ \A x \in Cells : m3[x] = IF x = Translate(a2) THEN v2 % ByteMod ELSE m2[x]
  BY <1>4, <1>7, <1>9, <1>11, WriteByte
<1>13. m4 \in Memories /\ \A x \in Cells : m4[x] = IF x = Translate(a3) THEN v3 % ByteMod ELSE m3[x]
  BY <1>4, <1>7, <1>9, <1>12, WriteByte
<1>14. Translate(a) \in Cells /\ Translate(a1) \in Cells /\ Translate(a2) \in Cells /\ Translate(a3) \in Cells
  BY <1>3, <1>4, Mapped
<1>15. /\ m4[Translate(a)] = v % ByteMod /\ m4[Translate(a1)] = v1 % ByteMod
       /\ m4[Translate(a2)] = v2 % ByteMod /\ m4[Translate(a3)] = v3 % ByteMod
  BY <1>6, <1>10, <1>11, <1>12, <1>13, <1>14
<1> DEFINE b0 == v % ByteMod
           b1 == v1 % ByteMod
           b2 == v2 % ByteMod
           b3 == v3 % ByteMod
<1>16. b0 \in Int /\ b1 \in Int /\ b2 \in Int /\ b3 \in Int
  BY <1>3, <1>7, Divided, Widths
<1>17. v \div 1 = v
  BY <1>3
<1>18. Bswap(v) = ((b0 * ByteMod + b1) * ByteMod + b2) * ByteMod + b3
  BY <1>8, <1>17 DEF Bswap, v1, v2
<1> HIDE DEF b0, b1, b2, b3
<1>19. (b0 * ByteMod + b1) * (ByteMod * ByteMod) + (b2 * ByteMod + b3)
         = ((b0 * ByteMod + b1) * ByteMod + b2) * ByteMod + b3
  BY <1>16, Widths
<1> QED BY <1>1, <1>2, <1>15, <1>18, <1>19 DEF b0, b1, b2, b3, HalfMod

-----------------------------------------------------------------------------
(* Cells one after the other                                               *)

(* The first n cells from p on.                                            *)
Reach(p, n) == {Cell(p, k) : k \in 0 .. n - 1}

(* m is m0 but for the first n cells from p on.                            *)
Untouched(m0, m, p, n) == \A x \in Cells \ Reach(p, n) : m[x] = m0[x]

(* The first n bytes at a are the first n that m0 holds at b; the last one *)
(* counts where the addresses come round.                                  *)
Carried(m0, m, a, b, n) ==
  \A k \in 0 .. n - 1 :
    (\A j \in k + 1 .. n - 1 : Cell(a, j) # Cell(a, k)) => m[Cell(a, k)] = m0[Cell(b, k)]

Apart(a, b, n) == Reach(a, n) \cap Reach(b, n) = {}

(* A longer reach holds a shorter one, and one more cell.                  *)
LEMMA ReachGrows ==
  ASSUME NEW p \in Words, NEW n \in Nat
  PROVE  /\ Reach(p, n + 1) = Reach(p, n) \cup {Cell(p, n)}
         /\ \A l \in 0 .. n : Reach(p, l) \subseteq Reach(p, n)
<1>1. 0 .. (n + 1) - 1 = (0 .. n - 1) \cup {n}
  OBVIOUS
<1>2. \A l \in 0 .. n : 0 .. l - 1 \subseteq 0 .. n - 1
  OBVIOUS
<1>3. ASSUME NEW l \in 0 .. n PROVE Reach(p, l) \subseteq Reach(p, n)
  BY <1>2 DEF Reach
<1> QED BY <1>1, <1>3 DEF Reach

(* One more byte written: only its cell changes.                           *)
LEMMA OneMoreWritten ==
  ASSUME NEW m0 \in Memories, NEW m \in Memories, NEW m2 \in Memories,
         NEW p \in Words, NEW n \in Nat, NEW v \in Int,
         Untouched(m0, m, p, n), m2 = Write8(m, W(p + n), v)
  PROVE  Untouched(m0, m2, p, n + 1)
<1>1. W(p + n) \in Nat
  BY Cut, Widths DEF Words
<1>2. \A x \in Cells : m2[x] = IF x = Cell(p, n) THEN v % ByteMod ELSE m[x]
  BY <1>1, WriteByte, ZenonT(60) DEF Cell
<1> QED BY <1>2, ReachGrows DEF Untouched

(* One more byte copied, from a cell that was not written to.              *)
LEMMA OneMoreCopied ==
  ASSUME NEW m0 \in Memories, NEW m \in Memories, NEW m2 \in Memories,
         NEW a \in Words, NEW b \in Words, NEW n \in Nat,
         Untouched(m0, m, a, n), Carried(m0, m, a, b, n),
         Cell(b, n) \notin Reach(a, n),
         m2 = Write8(m, W(a + n), Read8(m, W(b + n)))
  PROVE  Untouched(m0, m2, a, n + 1) /\ Carried(m0, m2, a, b, n + 1)
<1> DEFINE v == Read8(m, W(b + n))
<1>1. W(a + n) \in Nat /\ W(b + n) \in Nat
  BY Cut, Widths DEF Words
<1>2. v \in Bytes /\ v \in Int /\ v % ByteMod = v
  <2>1. v \in Bytes
    BY <1>1, ReadByte
  <2> HIDE DEF v
  <2> QED BY <2>1, Widths DEF Bytes
<1>3. Cell(b, n) \in Cells /\ Cell(a, n) \in Cells
  BY CellMapped DEF Words
<1>4. v = m0[Cell(b, n)]
  BY <1>3 DEF Read8, Cell, Untouched
<1>5. \A x \in Cells : m2[x] = IF x = Cell(a, n) THEN v ELSE m[x]
  BY <1>1, <1>2, WriteByte, ZenonT(60) DEF Cell
<1>6. Untouched(m0, m2, a, n + 1)
  BY <1>2, OneMoreWritten
<1>7. ASSUME NEW k \in 0 .. (n + 1) - 1,
             \A j \in k + 1 .. (n + 1) - 1 : Cell(a, j) # Cell(a, k)
      PROVE  m2[Cell(a, k)] = m0[Cell(b, k)]
  <2>1. CASE k = n
    BY <1>3, <1>4, <1>5, <2>1
  <2>2. CASE k < n
    <3>1. k \in 0 .. n - 1 /\ n \in k + 1 .. (n + 1) - 1
      BY <2>2
    <3>2. \A j \in k + 1 .. n - 1 : Cell(a, j) # Cell(a, k)
      BY <1>7
    <3>3. m[Cell(a, k)] = m0[Cell(b, k)]
      BY <3>1, <3>2 DEF Carried
    <3>4. Cell(a, k) # Cell(a, n) /\ Cell(a, k) \in Cells
      BY <1>7, <3>1, CellMapped DEF Words
    <3> QED BY <1>5, <3>3, <3>4
  <2> QED BY <2>1, <2>2
<1> QED BY <1>6, <1>7 DEF Carried
(* A byte written among the first n leaves the rest alone.                 *)
LEMMA WrittenWithin ==
  ASSUME NEW m0 \in Memories, NEW m \in Memories, NEW m2 \in Memories,
         NEW p \in Words, NEW n \in Nat, NEW k \in 0 .. n - 1, NEW v \in Int,
         Untouched(m0, m, p, n), m2 = Write8(m, W(p + k), v)
  PROVE  Untouched(m0, m2, p, n)
<1>1. W(p + k) \in Nat
  BY Cut, Widths DEF Words
<1>2. \A x \in Cells : m2[x] = IF x = Cell(p, k) THEN v % ByteMod ELSE m[x]
  BY <1>1, WriteByte, ZenonT(60) DEF Cell
<1>3. Cell(p, k) \in Reach(p, n)
  BY DEF Reach
<1> QED BY <1>2, <1>3 DEF Untouched

(* The whole address space reached from one word is reached from another.  *)
LEMMA AllReached ==
  ASSUME NEW a \in Words, NEW b \in Words
  PROVE  ~Apart(a, b, WordMod)
<1> DEFINE k == IF b >= a THEN b - a ELSE b - a + WordMod
<1>1. k \in 0 .. WordMod - 1 /\ 0 \in 0 .. WordMod - 1 /\ b \in Int
  BY Widths DEF Words
<1>2. W(a + k) = b
  <2>1. CASE b >= a
    <3>1. a + k = b
      BY <2>1, <1>1 DEF Words
    <3> QED BY <3>1, CutWord
  <2>2. CASE ~(b >= a)
    <3>1. a + k = b + WordMod
      BY <2>2, <1>1, Widths DEF Words
    <3>2. (b + WordMod) % WordMod = b
      BY Widths DEF Words
    <3> QED BY <3>1, <3>2 DEF W
  <2> QED BY <2>1, <2>2
<1>3. W(b + 0) = b
  BY <1>1, CutWord
<1>4. Cell(a, k) = Cell(b, 0)
  BY <1>2, <1>3 DEF Cell
<1> HIDE DEF k
<1> QED BY <1>1, <1>4 DEF Apart, Reach

-----------------------------------------------------------------------------
(* Strings *)

NoZero(m0, p, n) == \A k \in 0 .. n - 1 : m0[Cell(p, k)] # 0

(* XmBlockSpec's Length, in the memory m0.                                 *)
LengthIn(m0, p, n) ==
  LET zeros == {k \in 0 .. n - 1 : m0[Cell(p, k)] = 0}
  IN IF zeros = {} THEN n ELSE 1 + CHOOSE k \in zeros : \A j \in zeros : k <= j

(* A string ends behind its first zero, or fills all that may be read.     *)
LEMMA LengthFacts ==
  ASSUME NEW m0, NEW p, NEW n \in Nat
  PROVE  /\ LengthIn(m0, p, n) \in 0 .. n
         /\ NoZero(m0, p, LengthIn(m0, p, n) - 1)
         /\ \/ LengthIn(m0, p, n) = n /\ NoZero(m0, p, n)
            \/ LengthIn(m0, p, n) > 0 /\ m0[Cell(p, LengthIn(m0, p, n) - 1)] = 0
<1> DEFINE zeros == {k \in 0 .. n - 1 : m0[Cell(p, k)] = 0}
<1>1. CASE zeros = {}
  <2>1. NoZero(m0, p, n)
    BY <1>1 DEF NoZero
  <2>2. NoZero(m0, p, n - 1)
    BY <2>1 DEF NoZero
  <2> QED BY <1>1, <2>1, <2>2 DEF LengthIn
<1>2. CASE zeros # {}
  <2>1. zeros \subseteq Nat
    OBVIOUS
  <2>2. \E x \in zeros : \A y \in zeros : x <= y
    <3> HIDE DEF zeros
    <3> QED BY <1>2, <2>1, LeastIn
  <2> DEFINE z == CHOOSE k \in zeros : \A j \in zeros : k <= j
  <2>4. z \in zeros /\ \A j \in zeros : z <= j
    BY <2>2
  <2>5. LengthIn(m0, p, n) = 1 + z
    BY <1>2 DEF LengthIn
  <2>6. z \in 0 .. n - 1 /\ m0[Cell(p, z)] = 0
    BY <2>4
  <2> HIDE DEF z
  <2>7. NoZero(m0, p, z)
    <3> SUFFICES ASSUME NEW k \in 0 .. z - 1, m0[Cell(p, k)] = 0 PROVE FALSE
      BY DEF NoZero
    <3>1. k \in zeros /\ k < z
      BY <2>6
    <3> QED BY <3>1, <2>4, <2>6
  <2>8. (1 + z) - 1 = z /\ 1 + z \in 0 .. n /\ 1 + z > 0
    BY <2>6
  <2> QED BY <2>5, <2>6, <2>7, <2>8
<1> QED BY <1>1, <1>2

-----------------------------------------------------------------------------
(* What a loop has done after q.i turns: q is the running instruction, m0  *)
(* the memory that it started with and m the memory that it has made.      *)

Copies(q) == q.op = "memcpy" \/ (q.op = "memmov" /\ q.a > q.b)
Strings == {"strcpy", "strncpy"}
Searches == {"memchr", "memchrf"}
Chases == {"chtree", "chtreeunchk"}
Most(q) == IF q.op = "strncpy" THEN q.c ELSE WordMod

CopyLoop(q, m0, m) ==
  /\ Untouched(m0, m, q.a, q.i)
  /\ Apart(q.a, q.b, q.c) => Carried(m0, m, q.a, q.b, q.i)

SetLoop(q, m0, m) ==
  /\ Untouched(m0, m, q.a, q.i)
  /\ \A x \in Reach(q.a, q.i) : m[x] = q.b % ByteMod

Hit(q, m, k) == m[Cell(q.a, k)] = q.b

SearchLoop(q, m0, m) ==
  /\ m = m0
  /\ \A k \in 0 .. q.i - 1 : ~Hit(q, m, k)
  /\ ~q.over => q.res = 0
  /\ q.over => \/ q.i = q.c /\ q.res = 0
               \/ q.i < q.c /\ Hit(q, m, q.i) /\ q.res = q.a

StringLoop(q, m0, m) ==
  LET len == LengthIn(m0, q.b, Most(q)) IN
  /\ q.i \in Words
  /\ Untouched(m0, m, q.a, Most(q))
  /\ Apart(q.a, q.b, len) =>
       LET n == IF q.over THEN len ELSE q.i IN
         /\ Untouched(m0, m, q.a, n)
         /\ Carried(m0, m, q.a, q.b, n)
         /\ ~q.over => NoZero(m0, q.b, n)

Loop(q, m0, m) ==
  /\ q.op \notin Chases \cup {"strcpy"} => q.i <= q.c
  /\ q.op \in {"memcpy", "memmov", "memset"} /\ q.over => q.i = q.c
  /\ Copies(q) => CopyLoop(q, m0, m)
  /\ q.op = "memmov" /\ ~Copies(q) => Untouched(m0, m, q.a, q.c + 1)
  /\ q.op = "memset" => SetLoop(q, m0, m)
  /\ q.op \in Searches => SearchLoop(q, m0, m)
  /\ q.op \in Strings => StringLoop(q, m0, m)
  /\ q.op \in Chases => m = m0 /\ q.i <= IF q.over THEN q.c + 1 ELSE q.c
  /\ q.op = "idle" => q = Idle /\ m = m0

BlockRecords ==
  [op : AllBlockOps \cup {"idle"}, a : Words, b : Words, c : Words,
   i : 0 .. WordMod, res : Words, over : BOOLEAN]

BlockTypes ==
  /\ mem \in Memories /\ before \in Memories
  /\ blk \in BlockRecords
  /\ runs \in 0 .. MaxRuns

BlockInv == BlockTypes /\ Loop(blk, before, mem)

-----------------------------------------------------------------------------
(* The turns *)

(* The loop's bound keeps its counter within a word.                       *)
LEMMA CounterKept ==
  ASSUME BlockTypes, Turn, blk.i < blk.c
  PROVE  /\ blk' \in BlockRecords /\ blk'.i = blk.i + 1 /\ blk'.over = blk.over
         /\ blk'.op = blk.op /\ blk'.a = blk.a /\ blk'.b = blk.b /\ blk'.c = blk.c
         /\ blk'.res = blk.res
<1>1. blk.i + 1 \in Words
  BY Widths DEF BlockTypes, BlockRecords, Words
<1>2. W(blk.i + 1) = blk.i + 1
  BY <1>1, CutWord
<1>3. blk' = [blk EXCEPT !.i = blk.i + 1]
  BY <1>2 DEF Turn
<1>4. blk.i + 1 \in 0 .. WordMod
  BY <1>1, Widths DEF Words
<1> QED BY <1>3, <1>4 DEF BlockTypes, BlockRecords

(* Ending a loop changes neither its operands nor its counter nor its      *)
(* result.                                                                 *)
LEMMA OverKept ==
  ASSUME BlockTypes, Over
  PROVE  /\ blk' \in BlockRecords /\ blk'.i = blk.i /\ blk'.over
         /\ blk'.op = blk.op /\ blk'.a = blk.a /\ blk'.b = blk.b /\ blk'.c = blk.c
         /\ blk'.res = blk.res
BY DEF Over, BlockTypes, BlockRecords

(* What a turn writes is a byte at an address.                             *)
LEMMA CopyFacts ==
  ASSUME BlockTypes, NEW to \in Int, NEW from \in Int, Copy(to, from)
  PROVE  /\ mem' \in Memories
         /\ Read8(mem, W(blk.b + from)) \in Int
         /\ mem' = Write8(mem, W(blk.a + to), Read8(mem, W(blk.b + from)))
<1>1. blk.a \in Int /\ blk.b \in Int
  BY Widths DEF BlockTypes, BlockRecords, Words
<1>2. W(blk.b + from) \in Nat /\ W(blk.a + to) \in Nat
  BY <1>1, Cut DEF Words
<1>3. Read8(mem, W(blk.b + from)) \in Int
  BY <1>2, ReadByte DEF BlockTypes, Bytes
<1> QED BY <1>2, <1>3, WriteByte DEF Copy, BlockTypes

(* A turn of memcpy keeps the invariant: one more byte is carried over.    *)
LEMMA CopyTurnKeeps == ASSUME BlockInv, CopyTurn PROVE BlockInv'
<1> USE DEF BlockInv
<1>1. blk.op = "memcpy" /\ ~blk.over /\ blk.i < blk.c
  BY DEF CopyTurn, Runs, busy
<1>2. /\ blk' \in BlockRecords /\ blk'.i = blk.i + 1 /\ ~blk'.over
      /\ blk'.op = "memcpy" /\ blk'.a = blk.a /\ blk'.b = blk.b /\ blk'.c = blk.c
  BY <1>1, CounterKept DEF CopyTurn
<1>3. blk.a \in Words /\ blk.b \in Words /\ blk.c \in Words /\ blk.i \in Nat /\ blk.i \in Int /\ blk.c \in Nat
  BY DEF BlockTypes, BlockRecords, Words
<1>4. /\ mem' \in Memories /\ Read8(mem, W(blk.b + blk.i)) \in Int
      /\ mem' = Write8(mem, W(blk.a + blk.i), Read8(mem, W(blk.b + blk.i)))
  BY <1>3, CopyFacts DEF CopyTurn
<1>5. before' = before /\ runs' = runs
  BY DEF CopyTurn, Keep
<1>6. CopyLoop(blk, before, mem)
  BY <1>1 DEF Loop, Copies
<1>7. Untouched(before, mem', blk.a, blk.i + 1)
  BY <1>3, <1>4, <1>6, OneMoreWritten DEF CopyLoop, BlockTypes
<1>8. ASSUME Apart(blk.a, blk.b, blk.c)
      PROVE  Carried(before, mem', blk.a, blk.b, blk.i + 1)
  <2>1. Cell(blk.b, blk.i) \in Reach(blk.b, blk.c)
    BY <1>1, <1>3 DEF Reach
  <2>2. Reach(blk.a, blk.i) \subseteq Reach(blk.a, blk.c)
    BY <1>1, <1>3, ReachGrows
  <2>3. Cell(blk.b, blk.i) \notin Reach(blk.a, blk.i)
    BY <1>8, <2>1, <2>2 DEF Apart
  <2> QED BY <1>3, <1>4, <1>6, <1>8, <2>3, OneMoreCopied DEF CopyLoop, BlockTypes
<1>9. CopyLoop(blk, before, mem)'
  BY <1>2, <1>5, <1>7, <1>8 DEF CopyLoop
<1>10. Loop(blk, before, mem)'
  BY <1>1, <1>2, <1>3, <1>9 DEF Loop, Copies, Chases, Searches, Strings
<1> QED BY <1>2, <1>4, <1>5, <1>10 DEF BlockTypes

(* The end of a counted loop keeps the invariant.                          *)
LEMMA CountOverKeeps == ASSUME BlockInv, CountOver PROVE BlockInv'
<1> USE DEF BlockInv
<1>1. /\ blk.op \in {"memcpy", "memmov", "memset", "memchr", "memchrf", "strncpy"}
      /\ ~blk.over /\ blk.i >= blk.c
  BY DEF CountOver, Counted, Runs, busy
<1>2. /\ blk' \in BlockRecords /\ blk'.i = blk.i /\ blk'.over /\ blk'.res = blk.res
      /\ blk'.op = blk.op /\ blk'.a = blk.a /\ blk'.b = blk.b /\ blk'.c = blk.c
  BY OverKept DEF CountOver
<1>3. mem' = mem /\ before' = before /\ runs' = runs
  BY DEF CountOver, Keep
<1>4. blk.i = blk.c /\ blk.i \in Nat /\ blk.c \in Nat
  BY <1>1, Widths DEF BlockTypes, BlockRecords, Words, Loop, Chases
<1>5. CASE blk.op \in {"memcpy", "memmov", "memset"}
  <2>1. Copies(blk)' <=> Copies(blk)
    BY <1>2 DEF Copies
  <2>2. Copies(blk) => CopyLoop(blk, before, mem)'
    BY <1>2, <1>3 DEF Loop, CopyLoop
  <2>3. blk.op = "memset" => SetLoop(blk, before, mem)'
    BY <1>2, <1>3 DEF Loop, SetLoop
  <2> QED BY <1>2, <1>3, <1>4, <1>5, <2>1, <2>2, <2>3
          DEF Loop, Chases, Searches, Strings, BlockTypes
<1>6. CASE blk.op \in Searches
  <2>1. blk.res = 0 /\ mem = before /\ \A k \in 0 .. blk.i - 1 : ~Hit(blk, mem, k)
    BY <1>1, <1>6 DEF Loop, SearchLoop
  <2>2. SearchLoop(blk, before, mem)'
    BY <1>2, <1>3, <1>4, <2>1 DEF SearchLoop, Hit
  <2> QED BY <1>2, <1>3, <1>4, <1>6, <2>2
          DEF Loop, Chases, Searches, Strings, Copies, BlockTypes
<1>7. CASE blk.op = "strncpy"
  <2> DEFINE len == LengthIn(before, blk.b, blk.c)
  <2>1. Most(blk) = blk.c /\ Most(blk)' = blk.c
    BY <1>2, <1>7 DEF Most
  <2>2. StringLoop(blk, before, mem)
    BY <1>7 DEF Loop, Strings
  <2>3. NoZero(before, blk.b, blk.c) => len = blk.c
    <3>1. len \in 0 .. blk.c /\ (len = blk.c \/ (len > 0 /\ before[Cell(blk.b, len - 1)] = 0))
      BY <1>4, LengthFacts
    <3> HIDE DEF len
    <3>2. len > 0 => len - 1 \in 0 .. blk.c - 1
      BY <1>4, <3>1
    <3> QED BY <3>1, <3>2 DEF NoZero
  <2>4. Apart(blk.a, blk.b, len) =>
          Untouched(before, mem, blk.a, len) /\ Carried(before, mem, blk.a, blk.b, len)
    BY <1>1, <1>4, <2>1, <2>2, <2>3 DEF StringLoop
  <2>5. StringLoop(blk, before, mem)'
    BY <1>2, <1>3, <2>1, <2>2, <2>4 DEF StringLoop
  <2> QED BY <1>2, <1>3, <1>4, <1>7, <2>5
          DEF Loop, Chases, Searches, Strings, Copies, BlockTypes
<1> QED BY <1>1, <1>5, <1>6, <1>7 DEF Searches

(* A turn of memmov, in either direction, keeps the invariant.             *)
LEMMA MoveTurnKeeps == ASSUME BlockInv, MoveTurn PROVE BlockInv'
<1> USE DEF BlockInv
<1>1. blk.op = "memmov" /\ ~blk.over /\ blk.i < blk.c
  BY DEF MoveTurn, Runs, busy
<1>2. /\ blk' \in BlockRecords /\ blk'.i = blk.i + 1 /\ ~blk'.over
      /\ blk'.op = "memmov" /\ blk'.a = blk.a /\ blk'.b = blk.b /\ blk'.c = blk.c
  BY <1>1, CounterKept DEF MoveTurn
<1>3. blk.a \in Words /\ blk.b \in Words /\ blk.c \in Words /\ blk.i \in Nat /\ blk.i \in Int /\ blk.c \in Nat
  BY DEF BlockTypes, BlockRecords, Words
<1>4. before' = before /\ runs' = runs
  BY DEF MoveTurn, Keep
<1>5. Copies(blk)' <=> Copies(blk)
  BY <1>1, <1>2 DEF Copies
<1>6. CASE Copies(blk)
  <2>1. Copy(blk.i, blk.i)
    BY <1>1, <1>6 DEF MoveTurn, Copies
  <2>2. /\ mem' \in Memories /\ Read8(mem, W(blk.b + blk.i)) \in Int
        /\ mem' = Write8(mem, W(blk.a + blk.i), Read8(mem, W(blk.b + blk.i)))
    BY <1>3, <2>1, CopyFacts
  <2>3. CopyLoop(blk, before, mem)
    BY <1>6 DEF Loop
  <2>4. Untouched(before, mem', blk.a, blk.i + 1)
    BY <1>3, <2>2, <2>3, OneMoreWritten DEF CopyLoop, BlockTypes
  <2>5. ASSUME Apart(blk.a, blk.b, blk.c)
        PROVE  Carried(before, mem', blk.a, blk.b, blk.i + 1)
    <3>1. Cell(blk.b, blk.i) \in Reach(blk.b, blk.c)
      BY <1>1, <1>3 DEF Reach
    <3>2. Reach(blk.a, blk.i) \subseteq Reach(blk.a, blk.c)
      BY <1>1, <1>3, ReachGrows
    <3>3. Cell(blk.b, blk.i) \notin Reach(blk.a, blk.i)
      BY <2>5, <3>1, <3>2 DEF Apart
    <3> QED BY <1>3, <2>2, <2>3, <2>5, <3>3, OneMoreCopied DEF CopyLoop, BlockTypes
  <2>6. CopyLoop(blk, before, mem)'
    BY <1>2, <1>4, <2>4, <2>5 DEF CopyLoop
  <2> QED BY <1>1, <1>2, <1>3, <1>4, <1>5, <1>6, <2>2, <2>6
          DEF Loop, Chases, Searches, Strings, BlockTypes
<1>7. CASE ~Copies(blk)
  <2>1. Copy(blk.c - blk.i, blk.c - blk.i)
    BY <1>1, <1>7 DEF MoveTurn, Copies
  <2>2. blk.c - blk.i \in Int /\ blk.c - blk.i \in 0 .. (blk.c + 1) - 1 /\ blk.c + 1 \in Nat
    BY <1>1, <1>3
  <2>3. /\ mem' \in Memories /\ Read8(mem, W(blk.b + (blk.c - blk.i))) \in Int
        /\ mem' = Write8(mem, W(blk.a + (blk.c - blk.i)), Read8(mem, W(blk.b + (blk.c - blk.i))))
    BY <2>1, <2>2, CopyFacts
  <2>4. Untouched(before, mem, blk.a, blk.c + 1)
    BY <1>1, <1>7 DEF Loop
  <2>5. Untouched(before, mem', blk.a, blk.c + 1)
    BY <1>3, <2>2, <2>3, <2>4, WrittenWithin DEF BlockTypes
  <2>6. Untouched(before, mem, blk.a, blk.c + 1)'
    BY <1>2, <1>4, <2>5
  <2> QED BY <1>1, <1>2, <1>3, <1>4, <1>5, <1>7, <2>3, <2>6
          DEF Loop, Chases, Searches, Strings, BlockTypes
<1> QED BY <1>6, <1>7

(* A turn of memset keeps the invariant.                                   *)
LEMMA SetTurnKeeps == ASSUME BlockInv, SetTurn PROVE BlockInv'
<1> USE DEF BlockInv
<1>1. blk.op = "memset" /\ ~blk.over /\ blk.i < blk.c
  BY DEF SetTurn, Runs, busy
<1>2. /\ blk' \in BlockRecords /\ blk'.i = blk.i + 1 /\ ~blk'.over
      /\ blk'.op = "memset" /\ blk'.a = blk.a /\ blk'.b = blk.b /\ blk'.c = blk.c
  BY <1>1, CounterKept DEF SetTurn
<1>3. blk.a \in Words /\ blk.b \in Int /\ blk.c \in Words /\ blk.i \in Nat /\ blk.c \in Nat
  BY DEF BlockTypes, BlockRecords, Words
<1>4. before' = before /\ runs' = runs /\ mem' = Write8(mem, W(blk.a + blk.i), blk.b)
  BY DEF SetTurn, Keep
<1>5. W(blk.a + blk.i) \in Nat
  BY <1>3, Cut, Widths DEF Words
<1>6. mem' \in Memories /\ \A x \in Cells :
        mem'[x] = IF x = Cell(blk.a, blk.i) THEN blk.b % ByteMod ELSE mem[x]
  BY <1>3, <1>4, <1>5, WriteByte, ZenonT(60) DEF Cell, BlockTypes
<1>7. SetLoop(blk, before, mem)
  BY <1>1 DEF Loop
<1>8. Untouched(before, mem', blk.a, blk.i + 1)
  BY <1>3, <1>4, <1>6, <1>7, OneMoreWritten DEF SetLoop, BlockTypes
<1>9. \A x \in Reach(blk.a, blk.i + 1) : mem'[x] = blk.b % ByteMod
  <2>1. Reach(blk.a, blk.i + 1) = Reach(blk.a, blk.i) \cup {Cell(blk.a, blk.i)}
    BY <1>3, ReachGrows
  <2>2. Reach(blk.a, blk.i + 1) \subseteq Cells
    BY <1>3, CellMapped DEF Reach, Words
  <2> QED BY <1>6, <1>7, <2>1, <2>2 DEF SetLoop
<1>10. SetLoop(blk, before, mem)'
  BY <1>2, <1>4, <1>8, <1>9 DEF SetLoop
<1>11. Loop(blk, before, mem)'
  BY <1>1, <1>2, <1>3, <1>10 DEF Loop, Copies, Chases, Searches, Strings
<1> QED BY <1>2, <1>4, <1>6, <1>11 DEF BlockTypes

(* A turn of a search keeps the invariant: it goes on only past what       *)
(* differs, and the result is set where it ends.                           *)
LEMMA SearchTurnKeeps == ASSUME BlockInv, SearchTurn PROVE BlockInv'
<1> USE DEF BlockInv
<1>1. blk.op \in Searches /\ ~blk.over /\ blk.i < blk.c
  BY DEF SearchTurn, Runs, busy, Searches
<1>2. mem' = mem /\ before' = before /\ runs' = runs
  BY DEF SearchTurn, Keep
<1>3. blk.a \in Words /\ blk.c \in Words /\ blk.i \in Nat /\ blk.c \in Nat
  BY DEF BlockTypes, BlockRecords, Words
<1>4. Hit(blk, mem, blk.i) <=> Read8(mem, W(blk.a + blk.i)) = blk.b
  BY DEF Hit, Read8, Cell
<1>5. mem = before /\ blk.res = 0 /\ \A k \in 0 .. blk.i - 1 : ~Hit(blk, mem, k)
  BY <1>1 DEF Loop, SearchLoop
<1>6. CASE Hit(blk, mem, blk.i)
  <2>1. Found(blk.a)
    BY <1>4, <1>6 DEF SearchTurn
  <2>2. /\ blk' \in BlockRecords /\ blk'.i = blk.i /\ blk'.over /\ blk'.res = blk.a
        /\ blk'.op = blk.op /\ blk'.a = blk.a /\ blk'.b = blk.b /\ blk'.c = blk.c
    BY <2>1, <1>3 DEF Found, BlockTypes, BlockRecords
  <2>3. /\ blk'.i < blk'.c /\ Hit(blk', mem', blk'.i)
        /\ \A k \in 0 .. blk'.i - 1 : ~Hit(blk', mem', k)
    BY <1>1, <1>2, <1>5, <1>6, <2>2 DEF Hit
  <2>4. SearchLoop(blk, before, mem)'
    BY <1>2, <1>5, <2>2, <2>3 DEF SearchLoop
  <2> QED BY <1>1, <1>2, <1>3, <2>2, <2>4
          DEF Loop, Chases, Searches, Strings, Copies, BlockTypes
<1>7. CASE ~Hit(blk, mem, blk.i)
  <2>1. Turn
    BY <1>4, <1>7 DEF SearchTurn
  <2>2. /\ blk' \in BlockRecords /\ blk'.i = blk.i + 1 /\ ~blk'.over /\ blk'.res = blk.res
        /\ blk'.op = blk.op /\ blk'.a = blk.a /\ blk'.b = blk.b /\ blk'.c = blk.c
    BY <2>1, <1>1, CounterKept
  <2>3. \A k \in 0 .. (blk.i + 1) - 1 : k = blk.i \/ k \in 0 .. blk.i - 1
    BY <1>3
  <2>4. \A k \in 0 .. (blk.i + 1) - 1 : ~Hit(blk, mem, k)
    BY <1>5, <1>7, <2>3
  <2>5. SearchLoop(blk, before, mem)'
    BY <1>2, <1>5, <2>2, <2>4 DEF SearchLoop, Hit
  <2> QED BY <1>1, <1>2, <1>3, <2>2, <2>5
          DEF Loop, Chases, Searches, Strings, Copies, BlockTypes
<1> QED BY <1>6, <1>7

(* A turn of a pointer chase keeps the invariant: nothing is written.      *)
LEMMA ChaseTurnKeeps == ASSUME BlockInv, ChaseTurn PROVE BlockInv'
<1> USE DEF BlockInv
<1> DEFINE p == Read32(mem, W(blk.res + blk.b))
<1>1. blk.op \in Chases /\ ~blk.over
  BY DEF ChaseTurn, Runs, busy, Chases
<1>2. mem' = mem /\ before' = before /\ runs' = runs
  BY DEF ChaseTurn, Keep
<1>3. blk.i <= blk.c /\ mem = before
  BY <1>1 DEF Loop
<1>4. blk.res \in Int /\ blk.b \in Int /\ blk.i \in Nat /\ blk.c \in Nat /\ blk.c < WordMod
  BY Widths DEF BlockTypes, BlockRecords, Words
<1>5. p \in Words
  <2>1. W(blk.res + blk.b) \in Nat
    BY <1>4, Cut DEF Words
  <2> QED BY <2>1, ReadWord DEF BlockTypes
<1>6. blk' = [blk EXCEPT !.res = p, !.i = blk.i + 1,
                !.over = (p = 0 /\ blk.op = "chtree") \/ blk.i = blk.c]
  BY DEF ChaseTurn
<1> HIDE DEF p
<1>7. blk.i + 1 \in 0 .. WordMod
  BY <1>3, <1>4, Widths
<1>8. /\ blk' \in BlockRecords /\ blk'.i = blk.i + 1
      /\ ~blk'.over => blk.i # blk.c
      /\ blk'.op = blk.op /\ blk'.a = blk.a /\ blk'.b = blk.b /\ blk'.c = blk.c
  BY <1>5, <1>6, <1>7 DEF BlockTypes, BlockRecords
<1>9. blk'.i <= IF blk'.over THEN blk'.c + 1 ELSE blk'.c
  BY <1>3, <1>4, <1>8
<1>10. Loop(blk, before, mem)'
  BY <1>1, <1>2, <1>3, <1>8, <1>9 DEF Loop, Chases, Searches, Strings, Copies
<1> QED BY <1>2, <1>8, <1>10 DEF BlockTypes

(* While no zero was seen there is more of the string to copy.             *)
LEMMA StringGoesOn ==
  ASSUME NEW m0, NEW p, NEW n \in Nat, NEW k \in 0 .. n - 1, NoZero(m0, p, k)
  PROVE  /\ k \in 0 .. LengthIn(m0, p, n) - 1
         /\ m0[Cell(p, k)] = 0 => LengthIn(m0, p, n) = k + 1
         /\ m0[Cell(p, k)] # 0 => NoZero(m0, p, k + 1)
         /\ NoZero(m0, p, n) => LengthIn(m0, p, n) = n
<1> DEFINE len == LengthIn(m0, p, n)
<1>1. /\ len \in 0 .. n /\ NoZero(m0, p, len - 1)
      /\ \/ len = n /\ NoZero(m0, p, n)
         \/ len > 0 /\ m0[Cell(p, len - 1)] = 0
  BY LengthFacts
<1> HIDE DEF len
<1>2. len > 0 => len - 1 \in 0 .. n - 1
  BY <1>1
<1>3. NoZero(m0, p, n) => len = n
  BY <1>1, <1>2 DEF NoZero
<1>4. len > k
  <2>1. CASE len = n
    BY <2>1
  <2>2. CASE len > 0 /\ m0[Cell(p, len - 1)] = 0
    <3>1. len - 1 \notin 0 .. k - 1
      BY <2>2 DEF NoZero
    <3> QED BY <1>1, <1>2, <2>2, <3>1
  <2> QED BY <1>1, <2>1, <2>2
<1>5. k \in 0 .. len - 1
  BY <1>1, <1>4
<1>6. ASSUME m0[Cell(p, k)] = 0 PROVE len = k + 1
  <2>1. k \notin 0 .. (len - 1) - 1
    BY <1>1, <1>6 DEF NoZero
  <2> QED BY <1>1, <1>5, <2>1
<1>7. ASSUME m0[Cell(p, k)] # 0 PROVE NoZero(m0, p, k + 1)
  <2>1. \A j \in 0 .. (k + 1) - 1 : j = k \/ j \in 0 .. k - 1
    OBVIOUS
  <2> QED BY <1>7, <2>1 DEF NoZero
<1> QED BY <1>3, <1>5, <1>6, <1>7 DEF len

(* A turn of strcpy, counted or not, keeps the invariant, and with it that *)
(* no byte before the last was the terminator.                             *)
LEMMA StringTurnKeeps == ASSUME BlockInv, StringTurn PROVE BlockInv'
<1> USE DEF BlockInv
<1> DEFINE n == Most(blk)
           len == LengthIn(before, blk.b, Most(blk))
           v == Read8(mem, W(blk.b + blk.i))
<1>1. blk.op \in Strings /\ ~blk.over /\ (blk.op = "strncpy" => blk.i < blk.c)
  BY DEF StringTurn, Runs, busy, Strings
<1>2. before' = before /\ runs' = runs /\ Copy(blk.i, blk.i)
  BY DEF StringTurn, Keep
<1>3. blk.a \in Words /\ blk.b \in Words /\ blk.c \in Words /\ blk.i \in Nat /\ blk.i \in Int /\ blk.c \in Nat
  BY DEF BlockTypes, BlockRecords, Words
<1>4. mem' \in Memories /\ v \in Int /\ mem' = Write8(mem, W(blk.a + blk.i), v)
  BY <1>2, <1>3, CopyFacts
<1>5. StringLoop(blk, before, mem)
  BY <1>1 DEF Loop
<1>6. n \in Nat /\ blk.i \in Words /\ blk.i \in 0 .. n - 1
  <2>1. blk.i \in Words
    BY <1>5 DEF StringLoop
  <2>2. CASE blk.op = "strncpy"
    BY <1>1, <1>3, <2>1, <2>2 DEF Most
  <2>3. CASE blk.op # "strncpy"
    BY <2>1, <2>3, Widths DEF Most, Words
  <2> QED BY <2>2, <2>3
<1>7. /\ blk' \in BlockRecords /\ blk'.i \in Words
      /\ blk'.op = blk.op /\ blk'.a = blk.a /\ blk'.b = blk.b /\ blk'.c = blk.c
      /\ blk'.over <=> v = 0
      /\ v = 0 => blk'.i = blk.i
      /\ v # 0 => blk'.i = W(blk.i + 1)
  <2>1. CASE v = 0
    <3>1. Over
      BY <2>1 DEF StringTurn
    <3> QED BY <2>1, <3>1, <1>6, OverKept
  <2>2. CASE v # 0
    <3>1. blk' = [blk EXCEPT !.i = W(blk.i + 1)]
      BY <2>2 DEF StringTurn, Turn
    <3>2. W(blk.i + 1) \in Words
      BY <1>3, Cut
    <3>3. W(blk.i + 1) \in 0 .. WordMod
      BY <3>2, Widths DEF Words
    <3> QED BY <1>1, <2>2, <3>1, <3>2, <3>3 DEF BlockTypes, BlockRecords
  <2> QED BY <2>1, <2>2
<1>8. n' = n /\ len' = len
  BY <1>2, <1>7 DEF Most
<1>9. Untouched(before, mem', blk.a, n)
  <2>1. Untouched(before, mem, blk.a, n)
    BY <1>5 DEF StringLoop
  <2> QED BY <1>3, <1>4, <1>6, <2>1, WrittenWithin DEF BlockTypes
<1>10. blk.op = "strncpy" => blk'.i <= blk.c
  <2> SUFFICES ASSUME blk.op = "strncpy" PROVE blk'.i <= blk.c
    OBVIOUS
  <2>1. blk.i + 1 \in Words /\ blk.i + 1 <= blk.c
    BY <1>1, <1>3, Widths DEF Words
  <2>2. W(blk.i + 1) = blk.i + 1
    BY <2>1, CutWord
  <2> QED BY <1>1, <1>3, <1>7, <2>1, <2>2
<1>11. ASSUME Apart(blk.a, blk.b, len)
       PROVE  LET l == IF blk'.over THEN len ELSE blk'.i IN
                /\ Untouched(before, mem', blk.a, l)
                /\ Carried(before, mem', blk.a, blk.b, l)
                /\ ~blk'.over => NoZero(before, blk.b, l)
  <2>1. /\ Untouched(before, mem, blk.a, blk.i)
        /\ Carried(before, mem, blk.a, blk.b, blk.i)
        /\ NoZero(before, blk.b, blk.i)
    BY <1>1, <1>5, <1>11 DEF StringLoop
  <2>2. /\ blk.i \in 0 .. len - 1
        /\ before[Cell(blk.b, blk.i)] = 0 => len = blk.i + 1
        /\ before[Cell(blk.b, blk.i)] # 0 => NoZero(before, blk.b, blk.i + 1)
        /\ NoZero(before, blk.b, n) => len = n
    BY <1>6, <2>1, StringGoesOn
  <2>3. len \in 0 .. n
    BY <1>6, LengthFacts
  <2> HIDE DEF len, n
  <2>4. Cell(blk.b, blk.i) \in Reach(blk.b, len)
    BY <2>2 DEF Reach
  <2>5. Reach(blk.a, blk.i) \subseteq Reach(blk.a, len)
    BY <1>3, <1>6, <2>2, <2>3, ReachGrows
  <2>6. Cell(blk.b, blk.i) \notin Reach(blk.a, blk.i)
    BY <1>11, <2>4, <2>5 DEF Apart
  <2>7. v = before[Cell(blk.b, blk.i)]
    <3>1. Cell(blk.b, blk.i) \in Cells
      BY <1>3, CellMapped DEF Words
    <3> QED BY <2>1, <2>6, <3>1 DEF Untouched, Read8, Cell
  <2>8. Untouched(before, mem', blk.a, blk.i + 1) /\ Carried(before, mem', blk.a, blk.b, blk.i + 1)
    BY <1>3, <1>4, <2>1, <2>6, OneMoreCopied DEF BlockTypes
  <2>9. CASE v = 0
    BY <1>7, <2>2, <2>7, <2>8, <2>9
  <2>10. CASE v # 0
    <3>1. NoZero(before, blk.b, blk.i + 1)
      BY <2>2, <2>7, <2>10
    <3>2. blk.i + 1 \in Words
      <4>1. CASE blk.op = "strncpy"
        BY <1>1, <1>3, <4>1, Widths DEF Words
      <4>2. CASE blk.op # "strncpy"
        <5>1. n = WordMod
          BY <4>2 DEF n, Most
        <5>2. blk.i + 1 # WordMod
          BY <1>3, <1>11, <2>2, <3>1, <5>1, AllReached
        <5> QED BY <1>3, <1>6, <5>1, <5>2, Widths DEF Words
      <4> QED BY <4>1, <4>2
    <3>3. blk'.i = blk.i + 1
      BY <1>7, <2>10, <3>2, CutWord
    <3> QED BY <1>7, <2>8, <2>10, <3>1, <3>3
  <2> QED BY <2>9, <2>10
<1>12. StringLoop(blk, before, mem)'
  BY <1>2, <1>7, <1>8, <1>9, <1>11 DEF StringLoop
<1>13. Loop(blk, before, mem)'
  BY <1>1, <1>7, <1>10, <1>12 DEF Loop, Chases, Searches, Strings, Copies
<1> QED BY <1>2, <1>4, <1>7, <1>13 DEF BlockTypes

-----------------------------------------------------------------------------
(* The invariant *)

(* The invariant holds before the first block instruction.                 *)
LEMMA BlockInvInit == BlockInit => BlockInv
<1> SUFFICES ASSUME BlockInit PROVE BlockInv
  OBVIOUS
<1>1. 0 \in Words /\ 0 \in 0 .. WordMod /\ 0 \in 0 .. MaxRuns
  BY Widths, OperandsAssumption DEF Words
<1>2. BlockTypes
  BY <1>1, OperandsAssumption DEF BlockInit, BlockTypes, BlockRecords, Idle
<1>3. Loop(blk, before, mem)
  BY DEF BlockInit, Loop, Idle, Copies, Searches, Strings, Chases
<1> QED BY <1>2, <1>3 DEF BlockInv

(* It holds at the start of an instruction, with no turn done.             *)
LEMMA BlockStartKeeps ==
  ASSUME BlockTypes, NEW op \in BlockOps, NEW a \in Words, NEW b \in Words, NEW c \in Words,
         BlockStart(op, a, b, c)
  PROVE  BlockInv'
<1>1. op \in AllBlockOps
  BY BlockOpsAssumption
<1>2. mem' = mem /\ before' = mem /\ runs' \in 0 .. MaxRuns
  BY OperandsAssumption DEF BlockStart, BlockTypes
<1>3. 0 \in Words /\ 0 \in 0 .. WordMod
  BY Widths DEF Words
<1>4. /\ blk' \in BlockRecords /\ blk'.op = op /\ blk'.a = a /\ blk'.b = b /\ blk'.c = c
      /\ blk'.i = 0 /\ blk'.over = FALSE
      /\ op \in Searches => blk'.res = 0
  BY <1>1, <1>3 DEF BlockStart, Started, BlockRecords, Searches
<1>5. \A p : Reach(p, 0) = {}
  BY DEF Reach
<1>6. 0 <= c /\ 0 \in 0 .. WordMod
  BY Widths DEF Words
<1>7. CopyLoop(blk, before, mem)'
  BY <1>2, <1>4 DEF CopyLoop, Untouched, Carried
<1>8. SetLoop(blk, before, mem)'
  BY <1>2, <1>4, <1>5 DEF SetLoop, Untouched
<1>9. op \in Searches => SearchLoop(blk, before, mem)'
  BY <1>2, <1>4 DEF SearchLoop
<1>10. StringLoop(blk, before, mem)'
  BY <1>2, <1>3, <1>4 DEF StringLoop, Untouched, Carried, NoZero
<1>11. (Untouched(before, mem, blk.a, blk.c + 1))'
  BY <1>2 DEF Untouched
<1>12. op # "idle"
  BY <1>1 DEF AllBlockOps
<1>13. Loop(blk, before, mem)'
  BY <1>2, <1>4, <1>6, <1>7, <1>8, <1>9, <1>10, <1>11, <1>12 DEF Loop
<1> QED BY <1>2, <1>4, <1>13 DEF BlockInv, BlockTypes

(* Every turn keeps the invariant.                                         *)
LEMMA BlockTurnKeeps == BlockInv /\ BlockTurn => BlockInv'
BY CountOverKeeps, CopyTurnKeeps, MoveTurnKeeps, SetTurnKeeps, SearchTurnKeeps,
   StringTurnKeeps, ChaseTurnKeeps DEF BlockTurn

(* Every step keeps the invariant.                                         *)
LEMMA BlockInvNext == BlockInv /\ [BlockNext]_blockVars => BlockInv'
<1> SUFFICES ASSUME BlockInv, [BlockNext]_blockVars PROVE BlockInv'
  OBVIOUS
<1>1. ASSUME NEW op \in BlockOps, NEW a \in Operands, NEW b \in Operands,
             NEW c \in Operands, BlockStart(op, a, b, c)
      PROVE  BlockInv'
  <2>1. a \in Words /\ b \in Words /\ c \in Words
    BY OperandsAssumption
  <2> QED BY <1>1, <2>1, BlockStartKeeps DEF BlockInv
<1>2. CASE BlockTurn
  BY <1>2, BlockTurnKeeps
<1>3. CASE UNCHANGED blockVars
  BY <1>3 DEF blockVars, BlockInv, BlockTypes, Loop, CopyLoop, SetLoop, SearchLoop, StringLoop, Hit, Most, Copies
<1> QED BY <1>1, <1>2, <1>3 DEF BlockNext

(* So it holds in every state.                                             *)
LEMMA BlockInvariant == BlockSpec => []BlockInv
<1>1. BlockInit => BlockInv
  BY BlockInvInit
<1>2. BlockInv /\ [BlockNext]_blockVars => BlockInv'
  BY BlockInvNext
<1> QED BY <1>1, <1>2, PTL DEF BlockSpec

-----------------------------------------------------------------------------
(* Theorems *)

(* TLC's type invariant: through every loop the memory holds bytes and the *)
(* registers words, and no counter passes what a word and one more hold.   *)
THEOREM BlockTypeCorrect == BlockSpec => []BlockTypeOK
<1>1. BlockInv => BlockTypeOK
  BY DEF BlockInv, BlockTypes, BlockRecords, BlockTypeOK
<1> QED BY <1>1, BlockInvariant, PTL

(* memcpy, memset and strncpy leave alone every cell but those of their c  *)
(* destination bytes, for any operands and however the regions are mapped. *)
THEOREM BlocksWriteInTarget == BlockSpec => []WritesStayInTarget
<1>1. BlockInv => WritesStayInTarget
  <2> SUFFICES ASSUME BlockInv, blk.op \in {"memcpy", "memset", "strncpy"}
               PROVE  \A x \in Cells \ Reach(blk.a, blk.c) : mem[x] = before[x]
    BY DEF WritesStayInTarget, Target, Reach
  <2>1. blk.a \in Words /\ blk.i \in Nat /\ blk.c \in Nat
    BY DEF BlockInv, BlockTypes, BlockRecords, Words
  <2>2. CASE blk.op = "strncpy"
    BY <2>2 DEF BlockInv, Loop, Strings, StringLoop, Most, Untouched
  <2>3. CASE blk.op \in {"memcpy", "memset"}
    <3>1. blk.i \in 0 .. blk.c
      BY <2>1, <2>3 DEF BlockInv, Loop, Chases
    <3>2. Reach(blk.a, blk.i) \subseteq Reach(blk.a, blk.c)
      BY <2>1, <3>1, ReachGrows
    <3>3. Untouched(before, mem, blk.a, blk.i)
      BY <2>3 DEF BlockInv, Loop, Copies, CopyLoop, SetLoop
    <3> QED BY <3>2, <3>3 DEF Untouched
  <2> QED BY <2>2, <2>3
<1> QED BY <1>1, BlockInvariant, PTL

(* memchr and memchrf write nothing, stop at the first of the c bytes that *)
(* is equal to the register, and return the area's address exactly if      *)
(* there is one.                                                           *)
THEOREM SearchesStopAtFirst == BlockSpec => []SearchStopsAtFirst
<1>1. BlockInv => SearchStopsAtFirst
  <2> SUFFICES ASSUME BlockInv, blk.over, blk.op \in Searches
               PROVE  /\ mem = before
                      /\ IF Matches = {} THEN blk.res = 0 /\ blk.i = blk.c
                         ELSE /\ blk.res = blk.a /\ blk.i \in Matches
                              /\ \A k \in Matches : blk.i <= k
    BY DEF SearchStopsAtFirst, Searches
  <2>1. SearchLoop(blk, before, mem) /\ blk.i \in Nat /\ blk.c \in Nat
    BY DEF BlockInv, Loop, BlockTypes, BlockRecords, Words
  <2>2. mem = before /\ Matches = {k \in 0 .. blk.c - 1 : Hit(blk, mem, k)}
    BY <2>1 DEF SearchLoop, Matches, Hit
  <2>3. \A k \in Matches : k \in Nat /\ k < blk.c /\ ~(k < blk.i)
    BY <2>1, <2>2 DEF SearchLoop
  <2>4. CASE blk.i = blk.c /\ blk.res = 0
    BY <2>2, <2>3, <2>4
  <2>5. CASE blk.i < blk.c /\ Hit(blk, mem, blk.i) /\ blk.res = blk.a
    <3>1. blk.i \in Matches
      BY <2>1, <2>2, <2>5
    <3> QED BY <2>1, <2>2, <2>3, <2>5, <3>1
  <2> QED BY <2>1, <2>4, <2>5 DEF SearchLoop
<1> QED BY <1>1, BlockInvariant, PTL

-----------------------------------------------------------------------------
(* The promise *)

(* The abstract specification has the same words and cells,                *)
LEMMA PromisedWords == Promise!WordMod = WordMod /\ Promise!Cells = Cells
BY DEF Promise!WordMod, WordMod, Promise!HalfMod, HalfMod, Promise!Cells, Cells,
  Promise!RomCells, RomCells, Promise!RamCells, RamCells, Promise!TrapCells, TrapCells

(* the same byte at an offset from a pointer,                              *)
LEMMA PromisedCell == \A p, k : Promise!Cell(p, k) = Cell(p, k)
BY PromisedWords DEF Promise!Cell, Cell, Promise!Translate, Translate, Promise!W, W

(* and the same areas.                                                     *)
LEMMA PromisedArea == \A p, n : Promise!Area(p, n) = Reach(p, n)
BY PromisedCell DEF Promise!Area, Reach

(* A turn belongs to the instruction that runs.                            *)
LEMMA TurnStays ==
  ASSUME BlockInv, BlockTurn
  PROVE  /\ busy /\ blk.op \in AllBlockOps /\ before' = before
         /\ blk'.op = blk.op /\ blk'.a = blk.a /\ blk'.b = blk.b /\ blk'.c = blk.c
<1> USE DEF BlockInv, BlockTypes, BlockRecords, AllBlockOps
<1>1. CASE CountOver
  BY <1>1 DEF CountOver, Counted, Runs, Over, Keep
<1>2. CASE CopyTurn
  BY <1>2 DEF CopyTurn, Runs, Turn, Keep
<1>3. CASE MoveTurn
  BY <1>3 DEF MoveTurn, Runs, Turn, Keep
<1>4. CASE SetTurn
  BY <1>4 DEF SetTurn, Runs, Turn, Keep
<1>5. CASE SearchTurn
  BY <1>5 DEF SearchTurn, Runs, Turn, Found, Keep
<1>6. CASE StringTurn
  BY <1>6 DEF StringTurn, Runs, Turn, Over, Keep
<1>7. CASE ChaseTurn
  BY <1>7 DEF ChaseTurn, Runs, Keep
<1> QED BY <1>1, <1>2, <1>3, <1>4, <1>5, <1>6, <1>7 DEF BlockTurn

(* What XmBlockSpec says of its memory, said of the loop's two memories.   *)
LEMMA PromisedFrame ==
  ASSUME busy, ~busy', NEW p, NEW n, Untouched(before, mem', p, n)
  PROVE  Promise!Frame(p, n)
BY PromisedArea, PromisedWords DEF Promise!Frame, Untouched

(* Bytes that are carried over while the rest is untouched are the copy    *)
(* that XmBlockSpec speaks of.                                             *)
LEMMA PromisedCopy ==
  ASSUME busy, ~busy', NEW a, NEW b, NEW n,
         Untouched(before, mem', a, n), Carried(before, mem', a, b, n)
  PROVE  Promise!Copied(a, b, n)
<1>1. Promise!Frame(a, n)
  BY PromisedFrame
<1>2. ASSUME NEW x \in Promise!Area(a, n), NEW k \in Promise!Lasts(a, n, x)
      PROVE  mem'[x] = before[Promise!Cell(b, k)]
  <2>1. /\ k \in 0 .. n - 1 /\ Cell(a, k) = x
        /\ \A j \in k + 1 .. n - 1 : Cell(a, j) # x
    BY PromisedCell DEF Promise!Lasts
  <2> QED BY <2>1, PromisedCell DEF Carried
<1> QED BY <1>1, <1>2 DEF Promise!Copied

(* The length of a string is that of the memory the instruction found.     *)
LEMMA PromisedLength ==
  ASSUME busy, NEW p, NEW n
  PROVE  Promise!Length(p, n) = LengthIn(before, p, n)
<1> DEFINE there == {k \in 0 .. n - 1 : before[Promise!Cell(p, k)] = 0}
           here == {k \in 0 .. n - 1 : before[Cell(p, k)] = 0}
           to(S) == IF S = {} THEN n ELSE 1 + CHOOSE k \in S : \A j \in S : k <= j
<1>1. Promise!Length(p, n) = to(there)
  BY DEF Promise!Length
<1>2. there = here
  BY PromisedCell
<1>3. LengthIn(before, p, n) = to(here)
  BY DEF LengthIn
<1> HIDE DEF there, here, to
<1> QED BY <1>1, <1>2, <1>3

(* A loop that ends has done what its instruction promises.                *)
LEMMA LoopPerforms ==
  ASSUME BlockInv, BlockInv', busy, ~busy', blk.op \in AllBlockOps, before' = before,
         blk'.op = blk.op, blk'.a = blk.a, blk'.b = blk.b, blk'.c = blk.c
  PROVE  Promise!Perform([op |-> blk.op, a |-> blk.a, b |-> blk.b, c |-> blk.c])
<1> DEFINE q == [op |-> blk.op, a |-> blk.a, b |-> blk.b, c |-> blk.c]
<1>1. Loop(blk', before, mem') /\ blk'.over
  BY DEF BlockInv, busy
<1>2. q.op = blk.op /\ q.a = blk.a /\ q.b = blk.b /\ q.c = blk.c
  OBVIOUS
<1> HIDE DEF q
<1>3. ASSUME Copies(blk) PROVE Promise!CopiedIfApart(blk.a, blk.b, blk.c)
  <2>1. CopyLoop(blk', before, mem') /\ blk'.i = blk.c
    BY <1>1, <1>3 DEF Loop, Copies
  <2>2. Promise!Frame(blk.a, blk.c)
    BY <2>1, PromisedFrame DEF CopyLoop
  <2>3. Apart(blk.a, blk.b, blk.c) => Promise!Copied(blk.a, blk.b, blk.c)
    BY <2>1, PromisedCopy DEF CopyLoop
  <2> QED BY <2>2, <2>3, PromisedArea DEF Promise!CopiedIfApart, Apart
<1>4. CASE blk.op = "memcpy"
  BY <1>2, <1>3, <1>4 DEF Promise!Perform, Copies
<1>5. CASE blk.op = "memmov"
  <2>1. CASE blk.a > blk.b
    BY <1>2, <1>3, <1>5, <2>1 DEF Promise!Perform, Copies
  <2>2. CASE ~(blk.a > blk.b)
    <3>1. Untouched(before, mem', blk.a, blk.c + 1)
      BY <1>1, <1>5, <2>2 DEF Loop, Copies
    <3>2. Promise!Frame(blk.a, blk.c + 1)
      BY <3>1, PromisedFrame
    <3> QED BY <1>2, <1>5, <2>2, <3>2 DEF Promise!Perform
  <2> QED BY <2>1, <2>2
<1>6. CASE blk.op = "memset"
  <2>1. SetLoop(blk', before, mem') /\ blk'.i = blk.c
    BY <1>1, <1>6 DEF Loop
  <2>2. Promise!Frame(blk.a, blk.c)
    BY <2>1, PromisedFrame DEF SetLoop
  <2>3. \A x \in Promise!Area(blk.a, blk.c) : mem'[x] = blk.b % ByteMod
    BY <2>1, PromisedArea DEF SetLoop
  <2> QED BY <1>2, <1>6, <2>2, <2>3 DEF Promise!Perform
<1>7. ASSUME blk.op \in Strings PROVE Promise!StringCopied(blk.a, blk.b, Most(blk))
  <2> DEFINE len == LengthIn(before, blk.b, Most(blk))
  <2>1. StringLoop(blk', before, mem') /\ Most(blk') = Most(blk)
    BY <1>1, <1>7 DEF Loop, Most
  <2>2. Promise!Frame(blk.a, Most(blk))
    BY <2>1, PromisedFrame DEF StringLoop
  <2>3. Apart(blk.a, blk.b, len) => Promise!Copied(blk.a, blk.b, len)
    BY <1>1, <2>1, PromisedCopy DEF StringLoop
  <2>4. Promise!Length(blk.b, Most(blk)) = len
    BY PromisedLength
  <2> HIDE DEF len
  <2> QED BY <2>2, <2>3, <2>4, PromisedArea DEF Promise!StringCopied, Apart
<1>8. CASE blk.op \in Strings
  BY <1>2, <1>7, <1>8, PromisedWords DEF Promise!Perform, Strings, Most
<1>9. CASE blk.op \in Searches \cup Chases
  <2>1. mem' = before
    BY <1>1, <1>9 DEF Loop, SearchLoop
  <2> QED BY <1>2, <1>9, <2>1 DEF Promise!Perform, Searches, Chases
<1> QED BY <1>4, <1>5, <1>6, <1>8, <1>9 DEF AllBlockOps, Strings, Searches, Chases, q


Seen == IF busy THEN before ELSE mem
Command ==
  [q |-> [op |-> blk.op, a |-> blk.a, b |-> blk.b, c |-> blk.c], over |-> blk.over]

(* A command that ends changes in that only.                               *)
LEMMA CommandEnds ==
  ASSUME NEW g, NEW x, NEW y
  PROVE  [[q |-> g, over |-> x] EXCEPT !.over = y] = [q |-> g, over |-> y]
OBVIOUS

(* Every turn but the last is hidden, and the last completes the promise.  *)
LEMMA TurnImplements ==
  ASSUME BlockInv, BlockInv', BlockTurn
  PROVE  Promise!Complete \/ UNCHANGED <<Seen, Command>>
<1>1. /\ busy /\ blk.op \in AllBlockOps /\ before' = before
      /\ blk'.op = blk.op /\ blk'.a = blk.a /\ blk'.b = blk.b /\ blk'.c = blk.c
  BY TurnStays
<1>2. blk.over = FALSE /\ blk'.over \in BOOLEAN
  BY <1>1 DEF busy, BlockInv, BlockTypes, BlockRecords
<1>3. CASE blk'.over
  <2>1. Promise!Perform([op |-> blk.op, a |-> blk.a, b |-> blk.b, c |-> blk.c])
    BY <1>1, <1>3, LoopPerforms DEF busy
  <2>2. Command' = [Command EXCEPT !.over = TRUE]
    <3>1. blk'.over = TRUE
      BY <1>2, <1>3
    <3> DEFINE g == [op |-> blk.op, a |-> blk.a, b |-> blk.b, c |-> blk.c]
    <3>2. Command' = [q |-> g, over |-> TRUE]
      BY <1>1, <3>1 DEF Command
    <3>3. Command = [q |-> g, over |-> FALSE]
      BY <1>2 DEF Command
    <3> HIDE DEF g
    <3>4. [[q |-> g, over |-> FALSE] EXCEPT !.over = TRUE] = [q |-> g, over |-> TRUE]
      BY CommandEnds, Zenon
    <3> QED BY <3>2, <3>3, <3>4, Zenon
  <2> QED BY <1>2, <2>1, <2>2 DEF Promise!Complete, Command
<1>4. CASE ~blk'.over
  BY <1>1, <1>2, <1>4 DEF Seen, Command, busy
<1> QED BY <1>3, <1>4

(* Fetching the operands is the abstract specification's issue of a        *)
(* command.                                                                *)
LEMMA StartImplements ==
  ASSUME NEW op \in BlockOps, NEW a \in Operands, NEW b \in Operands, NEW c \in Operands,
         BlockStart(op, a, b, c)
  PROVE  Promise!Issue
<1> DEFINE q == [op |-> op, a |-> a, b |-> b, c |-> c]
<1>1. q \in Promise!Commands
  BY DEF Promise!Commands
<1>2. Command' = [q |-> q, over |-> FALSE]
  BY DEF BlockStart, Started, Command
<1>3. Seen' = Seen
  BY DEF BlockStart, Started, Seen, busy
<1>4. blk.over
  BY DEF BlockStart, busy
<1> HIDE DEF q
<1> QED BY <1>1, <1>2, <1>3, <1>4 DEF Promise!Issue, Command, Seen

(* The loops, whatever they do between two turns, implement instructions   *)
(* that take the memory from what it was to what is promised in one step.  *)
THEOREM BlocksKeepPromise == BlockSpec => KeepsPromise
<1>1. BlockInit => Promise!SpecInit
  BY DEF BlockInit, Idle, busy, Promise!SpecInit, Promise!NoCommand
<1>2. BlockInv /\ BlockInv' /\ [BlockNext]_blockVars
        => [Promise!SpecNext]_<<Seen, Command>>
  <2> SUFFICES ASSUME BlockInv, BlockInv', [BlockNext]_blockVars
               PROVE  Promise!SpecNext \/ UNCHANGED <<Seen, Command>>
    OBVIOUS
  <2>1. ASSUME NEW op \in BlockOps, NEW a \in Operands, NEW b \in Operands,
               NEW c \in Operands, BlockStart(op, a, b, c)
        PROVE  Promise!SpecNext
    BY <2>1, StartImplements DEF Promise!SpecNext
  <2>2. CASE BlockTurn
    BY <2>2, TurnImplements DEF Promise!SpecNext
  <2>3. CASE UNCHANGED blockVars
    BY <2>3 DEF blockVars, Seen, Command, busy
  <2> QED BY <2>1, <2>2, <2>3 DEF BlockNext
<1> QED BY <1>1, <1>2, BlockInvariant, PTL
        DEF BlockSpec, KeepsPromise, Promise!PromiseSpec, Seen, Command


-----------------------------------------------------------------------------
(* Words and registers *)

(* Half a byte is a register.                                              *)
LEMMA Nibbles == \A b \in Bytes : Lo(b) \in Registers /\ Hi(b) \in Registers
<1>1. NReg \in Nat /\ NReg > 0
  BY RegAssumption, ByteAssumption
<1>2. ASSUME NEW b \in Bytes PROVE Lo(b) \in Registers /\ Hi(b) \in Registers
  <2>1. b \in Nat /\ b < NReg * NReg
    BY RegAssumption, ByteAssumption DEF Bytes
  <2>2. b % NReg \in 0 .. NReg - 1
    BY <1>1, <2>1, Divided
  <2>3. b \div NReg \in Nat /\ b = NReg * (b \div NReg) + (b % NReg)
    BY <1>1, <2>1, Divided
  <2> DEFINE h == b \div NReg
  <2>4. ASSUME h >= NReg PROVE FALSE
    <3> HIDE DEF h
    <3>1. NReg * h >= NReg * NReg
      BY <1>1, <2>3, <2>4 DEF h
    <3> QED BY <1>1, <2>1, <2>2, <2>3, <3>1 DEF h
  <2>5. h \in 0 .. NReg - 1
    BY <1>1, <2>3, <2>4
  <2> QED BY <2>2, <2>5 DEF Lo, Hi, Registers
<1> QED BY <1>2

(* The address of a register's byte is a word, whatever the instruction.   *)
LEMMA Decoded ==
  ASSUME r \in [Registers -> Words], NEW i \in Code
  PROVE  /\ D(i) \in Registers /\ A(i) \in Words /\ B(i) \in Words /\ Addr(i) \in Words
         /\ RegB(i) \in Words /\ RegC(i) \in Words
         /\ i[1] \in Bytes /\ i[2] \in Bytes
<1>1. i[1] \in Bytes /\ i[2] \in Bytes
  BY DEF Code
<1>2. D(i) \in Registers /\ A(i) \in Words /\ RegB(i) \in Words /\ RegC(i) \in Words
      /\ r[Lo(i[2])] \in Words /\ Hi(i[2]) \in Registers
  BY <1>1, Nibbles DEF D, A, RegB, RegC
<1>3. Bytes \subseteq Words
  BY Widths DEF Bytes, Words
<1>4. NReg \in Nat /\ Hi(i[2]) \in Nat /\ Hi(i[2]) * 4 \in Nat /\ r[Lo(i[2])] \in Nat /\ A(i) \in Nat /\ i[2] \in Nat
  BY <1>1, <1>2, RegAssumption, Widths, SMTT(30) DEF Registers, Words, Bytes
<1>5. B(i) \in Words
  <2>1. W(r[Lo(i[2])] + Hi(i[2])) \in Words
    BY <1>4, Cut
  <2> QED BY <1>1, <1>3, <2>1 DEF B
<1>6. Addr(i) \in Words
  <2>1. Mul(r[Lo(i[2])], Hi(i[2]) * 4) \in Int
    <3>1. Mul(r[Lo(i[2])], Hi(i[2]) * 4) \in Words
      BY <1>4, Multiplied
    <3> QED BY <3>1 DEF Words
  <2>2. W(A(i) + i[2] * 4) \in Words
    BY <1>4, Cut
  <2>3. W(A(i) + Mul(r[Lo(i[2])], Hi(i[2]) * 4)) \in Words
    BY <1>4, <2>1, Cut
  <2> QED BY <2>2, <2>3 DEF Addr
<1> QED BY <1>1, <1>2, <1>5, <1>6

(* Every result of the arithmetic is a number, but for a division by zero. *)
LEMMA ResultNumber ==
  ASSUME NEW op \in AluOps, NEW a \in Words, NEW b \in Words,
         ~(op \in {"div", "rem"} /\ b = 0)
  PROVE  Result(op, a, b) \in Int
<1>1. a \in Nat /\ b \in Nat
  BY Widths DEF Words
<1>2. W(a + b) \in Nat /\ W(a - b) \in Nat
  BY <1>1, Cut, Widths DEF Words
<1>3. Mul(a, b) \in Int
  BY <1>1, Multiplied DEF Words
<1>4. op \in {"div", "rem"} => b \in Nat \ {0} /\ a \div b \in Int /\ a % b \in Int
  BY <1>1
<1>5. /\ OfBits(Bits(a) \cap Bits(b)) \in Int
      /\ OfBits((Bits(a) \ Bits(b)) \cup (Bits(b) \ Bits(a))) \in Int
      /\ OfBits(Bits(a) \cup Bits(b)) \in Int
  <2>1. Bits(a) \subseteq Places /\ Bits(b) \subseteq Places
    BY BitsFew
  <2>2. /\ Bits(a) \cap Bits(b) \subseteq Places
        /\ (Bits(a) \ Bits(b)) \cup (Bits(b) \ Bits(a)) \subseteq Places
        /\ Bits(a) \cup Bits(b) \subseteq Places
    BY <2>1
  <2> QED BY <2>2, OfBitsNumber
<1>6. Shl(a, b) \in Int /\ Shr(a, b) \in Int
  BY <1>1, Shifted
<1>7. /\ Popcount(W(a + b)) \in Nat /\ Clz(W(a + b)) \in Nat /\ Clo(W(a + b)) \in Nat
      /\ Bswap(W(a + b)) \in Int /\ WordBits - Popcount(W(a + b)) \in Int
  <2>1. Popcount(W(a + b)) \in Nat /\ Clz(W(a + b)) \in Nat /\ Clo(W(a + b)) \in Nat
    BY BitsFew
  <2>2. Bswap(W(a + b)) \in Int
    BY <1>2, Reversed
  <2> QED BY <2>1, <2>2, PlacesFew
<1>8. op = "add" => Result(op, a, b) = W(a + b)
  BY DEF Result
<1>9. op = "sub" => Result(op, a, b) = W(a - b)
  BY DEF Result
<1>10. op \in {"mul", "imul"} => Result(op, a, b) = Mul(a, b)
  BY DEF Result
<1>11. /\ op = "div" => Result(op, a, b) = a \div b
       /\ op = "rem" => Result(op, a, b) = a % b
  BY DEF Result
<1>12. /\ op = "and" => Result(op, a, b) = OfBits(Bits(a) \cap Bits(b))
       /\ op = "xor" => Result(op, a, b) = OfBits((Bits(a) \ Bits(b)) \cup (Bits(b) \ Bits(a)))
       /\ op = "or" => Result(op, a, b) = OfBits(Bits(a) \cup Bits(b))
  BY DEF Result
<1>13. /\ op = "shl" => Result(op, a, b) = Shl(a, b)
       /\ op = "shr" => Result(op, a, b) = Shr(a, b)
  BY DEF Result
<1>14. /\ op = "pcnt" => Result(op, a, b) = Popcount(W(a + b))
       /\ op = "clz" => Result(op, a, b) = Clz(W(a + b))
       /\ op = "clo" => Result(op, a, b) = Clo(W(a + b))
       /\ op = "bswap" => Result(op, a, b) = Bswap(W(a + b))
       /\ op = "ipcnt" => Result(op, a, b) = WordBits - Popcount(W(a + b))
  BY DEF Result
<1> HIDE DEF AluOps
<1>15. \/ op \in {"add", "sub", "mul", "imul", "div", "rem", "and", "xor"}
       \/ op \in {"or", "shl", "shr", "pcnt", "clz", "clo", "bswap", "ipcnt"}
  BY DEF AluOps
<1>16. CASE op \in {"add", "sub", "mul", "imul", "div", "rem", "and", "xor"}
  BY <1>2, <1>3, <1>4, <1>5, <1>8, <1>9, <1>10, <1>11, <1>12, <1>16
<1>17. CASE op \in {"or", "shl", "shr", "pcnt", "clz", "clo", "bswap", "ipcnt"}
  BY <1>5, <1>6, <1>7, <1>12, <1>13, <1>14, <1>17
<1> QED BY <1>15, <1>16, <1>17

-----------------------------------------------------------------------------
(* The machine stays well formed *)

Statuses == {"running", "block", "halted", "stopped", "crashed"}

Clock(st, t) ==
  /\ t \in Nat /\ (t <= MaxTicks \/ t = 1)
  /\ st = "running" /\ t > 0 => t < MaxTicks

(* Between two instructions nothing holds of the block unit's history but  *)
(* its type; while a block instruction runs, its loop's invariant does.    *)
CpuInv ==
  /\ pc \in Words /\ r \in [Registers -> Words] /\ flags \subseteq FlagNames
  /\ f \in [Registers -> FloatWords]
  /\ id \in Code /\ status \in Statuses /\ program \in Programs
  /\ Clock(status, ticks)
  /\ BlockTypes
  /\ status = "block" => Loop(blk, before, mem)

(* A register that is written is a word; what is beyond the last is        *)
(* dropped.                                                                *)
LEMMA SetKeeps ==
  ASSUME r \in [Registers -> Words], NEW k, NEW v \in Int, Set(k, v)
  PROVE  r' \in [Registers -> Words]
<1>1. W(v) \in Words
  BY Cut
<1> QED BY <1>1 DEF Set

(* The flags that a result sets are flags.                                 *)
LEMMA JudgeKeeps == \A F : \A v : F \subseteq FlagNames => Judge(F, v) \subseteq FlagNames
BY DEF Judge, FlagNames

(* A tick more: running, or stopped when there are no more; an instruction *)
(* that does not run on takes it as well.                                  *)
LEMMA ClockGoesOn ==
  ASSUME Clock("running", ticks), ticks' = ticks + 1,
         status' \in {After(ticks + 1), "halted", "crashed", "block"}
  PROVE  status' \in Statuses /\ Clock(status, ticks)'
<1>1. MaxTicks \in Nat
  BY CpuAssumption
<1>2. ticks \in Nat /\ (ticks > 0 => ticks < MaxTicks)
  BY DEF Clock
<1>3. ticks + 1 \in Nat /\ (ticks + 1 <= MaxTicks \/ ticks + 1 = 1)
  BY <1>1, <1>2
<1>4. status' \in Statuses /\ (status' = "running" => ticks + 1 < MaxTicks)
  BY <1>1, <1>2 DEF After, Statuses
<1> QED BY <1>3, <1>4 DEF Clock

(* What all instructions have in common that leave the memory alone.       *)
LEMMA QuietInstruction ==
  ASSUME CpuInv, status = "running", id' \in Code, ticks' = ticks + 1, program' = program,
         NoWrite, pc' \in Words, r' \in [Registers -> Words], flags' \subseteq FlagNames,
         f' \in [Registers -> FloatWords],
         status' \in {After(ticks + 1), "halted", "crashed"}
  PROVE  CpuInv'
<1>1. Clock("running", ticks)
  BY DEF CpuInv
<1>2. status' \in Statuses /\ Clock(status, ticks)'
  BY <1>1, ClockGoesOn
<1>3. BlockTypes'
  BY DEF CpuInv, NoWrite, BlockTypes
<1>4. status' # "block"
  BY DEF After
<1> QED BY <1>2, <1>3, <1>4 DEF CpuInv

(* What cpu_step does with every instruction.                              *)
Executes(i) ==
  /\ id' = i /\ ticks' = ticks + 1 /\ program' = program /\ status = "running"
  /\ f' \in [Registers -> FloatWords]

(* A float register is given a float, whatever the three are that it is    *)
(* made of.                                                                *)
LEMMA FloatsKeep ==
  ASSUME CpuInv, NEW i \in Code, NEW op
  PROVE  FloatsAfter(i, op) \in [Registers -> FloatWords]
<1>1. f \in [Registers -> FloatWords]
  BY DEF CpuInv
<1>2. i[1] \in Bytes /\ i[2] \in Bytes
  BY DEF Code
<1>3. f[Hi(i[1])] \in FloatWords /\ f[Lo(i[2])] \in FloatWords /\ f[Hi(i[2])] \in FloatWords
  BY <1>1, <1>2, Nibbles
<1>4. op \in FloatOps => FloatResult(op, f[Hi(i[1])], f[Lo(i[2])], f[Hi(i[2])]) \in FloatWords
  BY <1>3, FloatAssumption
<1> QED BY <1>1, <1>4 DEF FloatsAfter

(* The register that a call names, whichever file it lies in, holds a      *)
(* number.                                                                 *)
LEMMA CallBaseNumber == ASSUME CpuInv, NEW i PROVE CallBase(i) \in Nat
<1>1. r \in [Registers -> Words] /\ f \in [Registers -> FloatWords]
  BY DEF CpuInv
<1>2. FloatWords \subseteq Nat /\ Words \subseteq Nat
  BY FloatAssumption, Widths DEF Words
<1> QED BY <1>1, <1>2 DEF CallBase

(* An instruction that goes on to the next leaves the program counter a    *)
(* word and counts its tick.                                               *)
LEMMA Advances == pc \in Words /\ Advance => pc' \in Words /\ status' = After(ticks + 1)
BY Cut, Widths DEF Advance, Goto, Words

(* The integer operations keep the invariant.                              *)
LEMMA AluKeeps ==
  ASSUME CpuInv, NEW i \in Code, NEW op, Executes(i), Alu(i, op)
  PROVE  CpuInv'
<1> DEFINE v == Result(op, A(i), B(i))
<1>1. /\ op \in AluOps /\ ~(op \in {"div", "rem"} /\ B(i) = 0)
      /\ Set(D(i), v) /\ flags' = Judge(flags, v) /\ Advance /\ NoWrite
  BY DEF Alu, DividesByZero
<1>2. A(i) \in Words /\ B(i) \in Words
  BY Decoded DEF CpuInv
<1>3. v \in Int
  BY <1>1, <1>2, ResultNumber
<1> HIDE DEF v
<1>4. r' \in [Registers -> Words]
  BY <1>1, <1>3, SetKeeps DEF CpuInv
<1>5. flags' \subseteq FlagNames
  BY <1>1, JudgeKeeps DEF CpuInv
<1>6. pc' \in Words /\ status' = After(ticks + 1)
  BY <1>1, Advances DEF CpuInv
<1> QED BY <1>1, <1>4, <1>5, <1>6, QuietInstruction DEF Executes

(* The comparisons keep it.                                                *)
LEMMA CompareKeeps ==
  ASSUME CpuInv, NEW i \in Code, NEW op, Executes(i), Compare(i, op)
  PROVE  CpuInv'
<1> DEFINE sum == A(i) + B(i)
           F == Judge(IF sum >= WordMod THEN {"C"} ELSE {}, W(sum))
<1>1. /\ Set(D(i), FlagWord(F)) /\ Advance /\ NoWrite
      /\ flags' = flags \/ flags' = F
  BY DEF Compare
<1>2. F \subseteq FlagNames
  <2>1. (IF sum >= WordMod THEN {"C"} ELSE {}) \subseteq FlagNames
    BY DEF FlagNames
  <2> QED BY <2>1, JudgeKeeps
<1> HIDE DEF F
<1>3. FlagWord(F) \in Int
  BY DEF FlagWord
<1>4. r' \in [Registers -> Words]
  BY <1>1, <1>3, SetKeeps DEF CpuInv
<1>5. flags' \subseteq FlagNames
  BY <1>1, <1>2 DEF CpuInv
<1>6. pc' \in Words /\ status' = After(ticks + 1)
  BY <1>1, Advances DEF CpuInv
<1> QED BY <1>1, <1>4, <1>5, <1>6, QuietInstruction DEF Executes

(* The loads keep it.                                                      *)
LEMMA LoadKeeps ==
  ASSUME CpuInv, NEW i \in Code, NEW op, Executes(i), Load(i, op)
  PROVE  CpuInv'
<1> DEFINE v == CASE op = "ldb" -> Read8(mem, Addr(i))
                  [] op = "ldw" -> Read16(mem, Addr(i))
                  [] op = "lea" -> Addr(i)
                  [] OTHER -> Read32(mem, Addr(i))
<1>1. Set(D(i), v) /\ Advance /\ NoWrite /\ flags' = flags
  BY DEF Load
<1>2. Addr(i) \in Nat /\ mem \in Memories
  BY Decoded, Widths DEF CpuInv, BlockTypes, Words
<1>3. /\ Read8(mem, Addr(i)) \in Int /\ Read16(mem, Addr(i)) \in Int
      /\ Read32(mem, Addr(i)) \in Int /\ Addr(i) \in Int
  <2>1. Read8(mem, Addr(i)) \in Bytes /\ Read16(mem, Addr(i)) \in 0 .. HalfMod - 1
        /\ Read32(mem, Addr(i)) \in Words
    BY <1>2, ReadByte, ReadHalf, ReadWord
  <2> QED BY <1>2, <2>1 DEF Bytes, Words
<1>4. v \in Int
  BY <1>3
<1> HIDE DEF v
<1>5. r' \in [Registers -> Words]
  BY <1>1, <1>4, SetKeeps DEF CpuInv
<1>6. pc' \in Words /\ status' = After(ticks + 1)
  BY <1>1, Advances DEF CpuInv
<1> QED BY <1>1, <1>5, <1>6, QuietInstruction DEF Executes, CpuInv

(* The load through a table of pointers keeps it.                          *)
LEMMA IndTabKeeps ==
  ASSUME CpuInv, NEW i \in Code, NEW op, Executes(i), IndTab(i, op)
  PROVE  CpuInv'
<1>1. PICK size \in {4, 8} :
        Set(D(i), Read32(mem, W(A(i) + Mul(W(RegB(i) + RegC(i)), size))))
  BY DEF IndTab
<1>2. Advance /\ NoWrite /\ flags' = flags
  BY DEF IndTab
<1>3. A(i) \in Nat /\ RegB(i) \in Nat /\ RegC(i) \in Nat
  BY Decoded, Widths DEF CpuInv, Words
<1>4. W(RegB(i) + RegC(i)) \in Nat
  BY <1>3, Cut, Widths DEF Words
<1>5. Mul(W(RegB(i) + RegC(i)), size) \in Words
  BY <1>4, Multiplied
<1>6. W(A(i) + Mul(W(RegB(i) + RegC(i)), size)) \in Words
  BY <1>3, <1>5, Cut DEF Words
<1>7. Read32(mem, W(A(i) + Mul(W(RegB(i) + RegC(i)), size))) \in Words
  BY <1>6, ReadWord DEF CpuInv, BlockTypes, Words
<1>8. r' \in [Registers -> Words]
  BY <1>1, <1>7, SetKeeps DEF CpuInv, Words
<1>9. pc' \in Words /\ status' = After(ticks + 1)
  BY <1>2, Advances DEF CpuInv
<1> QED BY <1>2, <1>8, <1>9, QuietInstruction DEF Executes, CpuInv

(* A number with a sign is a number.                                       *)
LEMMA SignedNumber == \A x \in Nat : \A m \in Nat : SignedIn(x, m) \in Int
BY DEF SignedIn

(* The jumps and calls keep it, wherever they go.                          *)
LEMMA JumpKeeps ==
  ASSUME CpuInv, NEW i \in Code, NEW op, Executes(i), Jump(i, op)
  PROVE  CpuInv'
<1> DEFINE to == JumpTarget(i, op)
<1>1. /\ op \in {"jmp", "jmprel", "call", "ret"}
      /\ Goto(to) /\ NoWrite /\ flags' = flags
      /\ Set(RA, to + 4) \/ r' = r
  BY DEF Jump, JumpOps
<1>2. i[1] \in Bytes /\ i[2] \in Bytes /\ r[RA] \in Words
  <2>1. RA \in Registers
    BY CpuAssumption
  <2> QED BY <2>1, Decoded DEF CpuInv
<1>3. i[1] * ByteMod + i[2] \in 0 .. HalfMod - 1
  <2>1. PICK x \in 0 .. ByteMod - 1, y \in 0 .. ByteMod - 1 : x = i[1] /\ y = i[2]
    BY <1>2 DEF Bytes
  <2>2. x * ByteMod + y \in 0 .. ByteMod * ByteMod - 1
    BY Stacked, Widths
  <2> QED BY <2>1, <2>2 DEF HalfMod
<1>4. pc \in Nat /\ CallBase(i) \in Nat /\ Distance(i) \in Int
      /\ SignedIn(i[1] * ByteMod + i[2], HalfMod) \in Int
  <2>1. CallBase(i) \in Nat
    BY CallBaseNumber
  <2>2. Distance(i) \in Int
    BY <1>2, SignedNumber, Widths DEF Distance, Bytes
  <2>3. SignedIn(i[1] * ByteMod + i[2], HalfMod) \in Int
    BY <1>3, SignedNumber, Widths
  <2> QED BY <2>1, <2>2, <2>3, Widths DEF CpuInv, Words
<1>5. to \in Words
  <2>1. i[1] * ByteMod + i[2] \in Words
    BY <1>3, Widths DEF Words
  <2>2. W(pc + SignedIn(i[1] * ByteMod + i[2], HalfMod)) \in Words
    BY <1>4, Cut
  <2>3. W(CallBase(i) + Distance(i)) \in Words
    BY <1>4, Cut
  <2> QED BY <1>1, <1>2, <2>1, <2>2, <2>3 DEF JumpTarget
<1> HIDE DEF to
<1>6. r' \in [Registers -> Words]
  <2>1. to + 4 \in Int
    BY <1>5, Widths DEF Words
  <2> QED BY <1>1, <2>1, SetKeeps DEF CpuInv
<1>7. pc' \in Words /\ status' = After(ticks + 1)
  BY <1>1, <1>5 DEF Goto
<1> QED BY <1>1, <1>6, <1>7, QuietInstruction DEF Executes, CpuInv

(* The branches keep it, taken or not.                                     *)
LEMMA BranchKeeps ==
  ASSUME CpuInv, NEW i \in Code, NEW op, Executes(i), Branch(i, op)
  PROVE  CpuInv'
<1>1. /\ Goto(W(pc + IF Taken(i, op) THEN Distance(i) ELSE 4))
      /\ NoWrite /\ flags' = flags /\ r' = r
  BY DEF Branch
<1>2. Distance(i) \in Int
  BY SignedNumber, Widths DEF Code, Distance, Bytes
<1>3. pc \in Int
  BY Widths DEF CpuInv, Words
<1>4. W(pc + IF Taken(i, op) THEN Distance(i) ELSE 4) \in Words
  BY <1>2, <1>3, Cut
<1>5. pc' \in Words /\ status' = After(ticks + 1)
  BY <1>1, <1>4 DEF Goto
<1> QED BY <1>1, <1>5, QuietInstruction DEF Executes, CpuInv

(* The instructions that keep the registers as they are.                   *)
LEMMA RestKeeps ==
  ASSUME CpuInv, NEW i \in Code, NEW op, Executes(i),
         Float(op) \/ Halt(op) \/ Crash(i, op) \/ Unknown(op)
  PROVE  CpuInv'
<1>1. NoWrite /\ flags' = flags /\ r' = r
  BY DEF Float, Halt, Crash, Unknown, Stay
<1>2. pc' \in Words /\ status' \in {After(ticks + 1), "halted", "crashed"}
  <2>1. CASE Float(op)
    BY <2>1, Advances DEF Float, CpuInv
  <2>2. CASE Halt(op) \/ Crash(i, op) \/ Unknown(op)
    BY <2>2 DEF Halt, Crash, Unknown, Stay, CpuInv
  <2> QED BY <2>1, <2>2
<1> QED BY <1>1, <1>2, QuietInstruction DEF Executes, CpuInv

(* A store keeps the memory one of bytes.                                  *)
LEMMA WriteBytes ==
  ASSUME NEW m \in Memories, NEW a \in Nat, NEW v \in Nat
  PROVE  Write8(m, a, v) \in Memories /\ Write16(m, a, v) \in Memories /\ Write32(m, a, v) \in Memories
<1>1. \A m1 \in Memories : \A a1 \in Nat : \A v1 \in Nat : Write8(m1, a1, v1) \in Memories
  BY WriteByte
<1>2. \A m1 \in Memories : \A a1 \in Nat : \A v1 \in Nat : Write16(m1, a1, v1) \in Memories
  <2> SUFFICES ASSUME NEW m1 \in Memories, NEW a1 \in Nat, NEW v1 \in Nat
               PROVE  Write16(m1, a1, v1) \in Memories
    OBVIOUS
  <2>1. W(a1 + 1) \in Nat /\ v1 \div ByteMod \in Nat
    BY Cut, Widths, Divided DEF Words
  <2>2. Write8(m1, a1, v1) \in Memories
    BY <1>1
  <2> QED BY <1>1, <2>1, <2>2 DEF Write16
<1>3. W(a + 2) \in Nat /\ v \div HalfMod \in Nat
  BY Cut, Widths, Divided DEF Words
<1>4. Write32(m, a, v) \in Memories
  <2>1. Write16(m, a, v) \in Memories
    BY <1>2
  <2> QED BY <1>2, <1>3, <2>1 DEF Write32
<1> QED BY <1>1, <1>2, <1>4

(* The stores keep it, wherever they write.                                *)
LEMMA StoreKeeps ==
  ASSUME CpuInv, NEW i \in Code, NEW op, Executes(i), Store(i, op)
  PROVE  CpuInv'
<1> DEFINE v == r[D(i)]
<1>1. /\ mem' = CASE op = "stb" -> Write8(mem, Addr(i), v)
                   [] op = "stw" -> Write16(mem, Addr(i), v)
                   [] OTHER -> Write32(mem, Addr(i), v)
      /\ Advance /\ r' = r /\ flags' = flags /\ blk' = blk /\ before' = before /\ runs' = runs
  BY DEF Store
<1>2. v \in Nat /\ Addr(i) \in Nat /\ mem \in Memories
  BY Decoded, Widths DEF CpuInv, BlockTypes, Words
<1> HIDE DEF v
<1>3. mem' \in Memories
  BY <1>1, <1>2, WriteBytes
<1>4. BlockTypes'
  BY <1>1, <1>3 DEF CpuInv, BlockTypes
<1>5. pc' \in Words /\ status' = After(ticks + 1)
  BY <1>1, Advances DEF CpuInv
<1>6. status' \in Statuses /\ Clock(status, ticks)'
  BY <1>5, ClockGoesOn DEF CpuInv, Executes
<1>7. status' # "block"
  BY <1>5 DEF After
<1> QED BY <1>1, <1>4, <1>5, <1>6, <1>7 DEF CpuInv, Executes

(* Beginning a block instruction keeps it.                                 *)
LEMMA BlockBeginKeeps ==
  ASSUME CpuInv, NEW i \in Code, NEW op, Executes(i), BlockBegin(i, op)
  PROVE  CpuInv'
<1>1. /\ op \in BlockOps /\ BlockStart(op, A(i), RegB(i), RegC(i))
      /\ status' = "block" /\ pc' = pc /\ r' = r /\ flags' = flags
  BY DEF BlockBegin
<1>2. A(i) \in Words /\ RegB(i) \in Words /\ RegC(i) \in Words
  BY Decoded DEF CpuInv
<1>3. BlockTypes
  BY DEF CpuInv
<1>4. BlockInv'
  BY <1>1, <1>2, <1>3, BlockStartKeeps
<1>5. status' \in Statuses /\ Clock(status, ticks)'
  BY <1>1, ClockGoesOn DEF CpuInv, Executes
<1> QED BY <1>1, <1>4, <1>5 DEF CpuInv, BlockInv, Executes

(* A turn of a block instruction's loop keeps it.                          *)
LEMMA BlockGoesOnKeeps == ASSUME CpuInv, BlockGoesOn PROVE CpuInv'
<1>1. /\ status = "block" /\ BlockTurn
      /\ UNCHANGED <<pc, flags, r, f, ticks, id, status, program>>
  BY DEF BlockGoesOn
<1>2. BlockInv
  BY <1>1 DEF CpuInv, BlockInv
<1>3. BlockInv'
  BY <1>1, <1>2, BlockTurnKeeps
<1> QED BY <1>1, <1>3 DEF CpuInv, BlockInv, Clock

(* Its end, which delivers the result, keeps it.                           *)
LEMMA BlockFinishKeeps == ASSUME CpuInv, BlockFinish PROVE CpuInv'
<1>1. /\ status = "block" /\ ticks' = ticks /\ id' = id /\ program' = program /\ NoWrite
      /\ f' = f
      /\ pc' = W(pc + 4) /\ status' = After(ticks)
      /\ r' = r \/ Set(D(id), blk.res)
      /\ flags' = flags \/ flags' = Judge(flags, blk.res)
  BY DEF BlockFinish
<1>2. blk.res \in Int
  BY Widths DEF CpuInv, BlockTypes, BlockRecords, Words
<1>3. r' \in [Registers -> Words]
  BY <1>1, <1>2, SetKeeps DEF CpuInv
<1>4. flags' \subseteq FlagNames
  BY <1>1, JudgeKeeps DEF CpuInv
<1>5. pc' \in Words
  BY <1>1, Cut, Widths DEF CpuInv, Words
<1>6. BlockTypes'
  BY <1>1 DEF CpuInv, NoWrite, BlockTypes
<1>7. status' \in {"running", "stopped"} /\ (status' = "running" => ticks < MaxTicks)
  BY <1>1, CpuAssumption DEF After, CpuInv, Clock
<1>8. Clock(status, ticks)'
  BY <1>1, <1>7 DEF CpuInv, Clock
<1> QED BY <1>1, <1>3, <1>4, <1>5, <1>6, <1>7, <1>8 DEF CpuInv, Statuses

(* What is fetched are bytes, wherever the program counter points.         *)
LEMMA FetchedCode == CpuInv => Fetched \in Code
<1> SUFFICES ASSUME CpuInv PROVE Fetched \in Code
  OBVIOUS
<1>1. ASSUME NEW k \in 0 .. 3 PROVE Read8(mem, W(pc + k)) \in Bytes
  <2>1. W(pc + k) \in Nat
    BY Cut, Widths DEF CpuInv, Words
  <2> QED BY <2>1, ReadByte DEF CpuInv, BlockTypes
<1> QED BY <1>1 DEF Fetched, Code

(* cpu_step keeps it, whatever is fetched.                                 *)
LEMMA InstructionKeeps == ASSUME CpuInv, Instruction PROVE CpuInv'
<1> DEFINE i == Fetched
           op == Dispatch(i).name
<1>1. i \in Code
  BY FetchedCode
<1>2. Executes(i)
  BY <1>1, FloatsKeep DEF Instruction, Executes, Tick
<1>3. \/ Alu(i, op) \/ Compare(i, op) \/ Store(i, op) \/ Load(i, op)
      \/ IndTab(i, op) \/ BlockBegin(i, op) \/ Jump(i, op) \/ Branch(i, op)
      \/ Float(op) \/ Halt(op) \/ Crash(i, op) \/ Unknown(op)
  BY DEF Instruction
<1> HIDE DEF i, op
<1>4. CASE Alu(i, op)
  BY <1>1, <1>2, <1>4, AluKeeps
<1>5. CASE Compare(i, op)
  BY <1>1, <1>2, <1>5, CompareKeeps
<1>6. CASE Store(i, op)
  BY <1>1, <1>2, <1>6, StoreKeeps
<1>7. CASE Load(i, op)
  BY <1>1, <1>2, <1>7, LoadKeeps
<1>8. CASE IndTab(i, op)
  BY <1>1, <1>2, <1>8, IndTabKeeps
<1>9. CASE BlockBegin(i, op)
  BY <1>1, <1>2, <1>9, BlockBeginKeeps
<1>10. CASE Jump(i, op)
  BY <1>1, <1>2, <1>10, JumpKeeps
<1>11. CASE Branch(i, op)
  BY <1>1, <1>2, <1>11, BranchKeeps
<1>12. CASE Float(op) \/ Halt(op) \/ Crash(i, op) \/ Unknown(op)
  BY <1>1, <1>2, <1>12, RestKeeps
<1> QED BY <1>3, <1>4, <1>5, <1>6, <1>7, <1>8, <1>9, <1>10, <1>11, <1>12

(* A loaded program fills the memory with bytes.                           *)
LEMMA ImageOfBytes == \A p \in Programs : Image(p) \in Memories
<1> SUFFICES ASSUME NEW p \in Programs, NEW x \in Cells PROVE Image(p)[x] \in Bytes
  BY DEF Image, Memories
<1>1. p \in Seq(Bytes)
  BY CpuAssumption
<1>2. 0 \in Bytes /\ ByteMod - 1 \in Bytes
  BY Widths DEF Bytes
<1>3. ASSUME x[1] = "rom", x[2] < Len(p) PROVE p[x[2] + 1] \in Bytes
  <2>1. x[2] \in Nat
    BY <1>3 DEF Cells, RomCells, RamCells, TrapCells
  <2>2. x[2] + 1 \in 1 .. Len(p)
    BY <1>1, <1>3, <2>1
  <2> QED BY <1>1, <2>2
<1> QED BY <1>2, <1>3 DEF Image

(* The invariant holds when the program is loaded.                         *)
LEMMA CpuInvInit == Init => CpuInv
<1> SUFFICES ASSUME Init PROVE CpuInv
  OBVIOUS
<1>1. /\ 0 \in Words /\ 0 \in 0 .. WordMod /\ 0 \in 0 .. MaxRuns /\ 0 \in Bytes
      /\ RomBase \in Words /\ MaxTicks \in Nat
  BY Widths, OperandsAssumption, MapAssumption, CpuAssumption DEF Words, Bytes
<1>2. mem \in Memories
  BY ImageOfBytes DEF Init
<1>3. BlockTypes
  BY <1>1, <1>2 DEF Init, BlockTypes, BlockRecords, Idle
<1>4. r \in [Registers -> Words] /\ id \in Code
  BY <1>1, CpuAssumption DEF Init, Code
<1>5. f \in [Registers -> FloatWords]
  BY FloatAssumption DEF Init
<1> QED BY <1>1, <1>3, <1>4, <1>5 DEF Init, CpuInv, Statuses, Clock

(* Every step keeps it.                                                    *)
LEMMA CpuInvNext == CpuInv /\ [Step]_vars => CpuInv'
<1> SUFFICES ASSUME CpuInv, [Step]_vars PROVE CpuInv'
  OBVIOUS
<1>1. CASE Instruction
  BY <1>1, InstructionKeeps
<1>2. CASE BlockGoesOn
  BY <1>2, BlockGoesOnKeeps
<1>3. CASE BlockFinish
  BY <1>3, BlockFinishKeeps
<1>4. CASE UNCHANGED vars
  BY <1>4 DEF vars, cpuVars, blockVars, CpuInv, BlockTypes, Clock
<1> QED BY <1>1, <1>2, <1>3, <1>4 DEF Step

(* So it holds in every state.                                             *)
LEMMA CpuInvariant == Spec => []CpuInv
BY CpuInvInit, CpuInvNext, PTL DEF Spec

(* The simulator's registers, program counter and memory stay words and    *)
(* bytes through any program, and main's loop never takes a tick more than *)
(* it is given, but for the first.                                         *)
THEOREM CpuTypeCorrect == Spec => []CpuTypeOK
<1>1. CpuInv => CpuTypeOK
  BY DEF CpuInv, CpuTypeOK, Clock, Statuses, BlockTypes
<1> QED BY <1>1, CpuInvariant, PTL

-----------------------------------------------------------------------------
(* The flags *)

Judgement(v, carry) == [v |-> v, carry |-> carry]

(* The history is a judgement, and the flags are what it says.             *)
FlagsInv ==
  /\ \E v, carry : judged = Judgement(v, carry)
  /\ FlagsDescribe

(* Judging again forgets what was judged before.                           *)
LEMMA JudgedAgain == \A F : \A v, w : Judge(Judge(F, v), w) = Judge(F, w)
BY DEF Judge

(* A judgement says of what value and with what carry it was made.         *)
LEMMA Judged == \A v, carry : Judgement(v, carry).v = v /\ Judgement(v, carry).carry = carry
BY Zenon DEF Judgement

(* Only N and Z are judged anew.                                           *)
LEMMA JudgeOne ==
  ASSUME FlagsInv, NEW w, flags' = Judge(flags, w), judged' = [judged EXCEPT !.v = w]
  PROVE  FlagsInv'
<1>1. PICK v, carry : judged = Judgement(v, carry)
  BY DEF FlagsInv
<1>2. judged.v = v /\ judged.carry = carry
  BY <1>1, Judged, Zenon
<1>3. flags = Judge(IF carry THEN {"C"} ELSE {}, v)
  BY <1>2, Zenon DEF FlagsInv, FlagsDescribe
<1>4. judged' = Judgement(w, carry)
  BY <1>1 DEF Judgement
<1>5. judged'.v = w /\ judged'.carry = carry
  BY <1>4, Judged, Zenon
<1>6. flags' = Judge(IF carry THEN {"C"} ELSE {}, w)
  BY <1>3, JudgedAgain, Zenon
<1>7. FlagsDescribe'
  BY <1>5, <1>6, Zenon DEF FlagsDescribe
<1> QED BY <1>4, <1>7, Zenon DEF FlagsInv

(* What touches neither the flags nor the last judgement keeps their       *)
(* relation.                                                               *)
LEMMA FlagsStay ==
  ASSUME FlagsInv, flags' = flags, judged' = judged
  PROVE  FlagsInv'
BY DEF FlagsInv, FlagsDescribe

(* cpu_step keeps it: whoever sets the flags is the last one to have       *)
(* judged.                                                                 *)
LEMMA FlagsInstruction ==
  ASSUME FlagsInv, Instruction PROVE FlagsInv'
<1> DEFINE i == Fetched
           op == Dispatch(i).name
<1>1. \/ Alu(i, op) \/ Compare(i, op) \/ Store(i, op) \/ Load(i, op)
      \/ IndTab(i, op) \/ BlockBegin(i, op) \/ Jump(i, op) \/ Branch(i, op)
      \/ Float(op) \/ Halt(op) \/ Crash(i, op) \/ Unknown(op)
  BY DEF Instruction
<1> HIDE DEF i, op
<1>2. CASE Alu(i, op)
  BY <1>2, JudgeOne DEF Alu
<1>3. CASE Compare(i, op)
  <2> DEFINE sum == A(i) + B(i)
  <2>1. CASE op = "cmpkp"
    BY <1>3, <2>1, FlagsStay DEF Compare
  <2>2. CASE op # "cmpkp"
    <3>1. /\ flags' = Judge(IF sum >= WordMod THEN {"C"} ELSE {}, W(sum))
          /\ judged' = Judgement(W(sum), sum >= WordMod)
      BY <1>3, <2>2 DEF Compare, Judgement
    <3> HIDE DEF sum
    <3>2. judged'.v = W(sum) /\ judged'.carry = (sum >= WordMod)
      BY <3>1, Judged, Zenon
    <3>3. FlagsDescribe'
      BY <3>1, <3>2 DEF FlagsDescribe
    <3> QED BY <3>1, <3>3 DEF FlagsInv
  <2> QED BY <2>1, <2>2
<1>4. CASE Store(i, op) \/ Load(i, op) \/ IndTab(i, op) \/ BlockBegin(i, op)
  BY <1>4, FlagsStay DEF Store, Load, IndTab, BlockBegin
<1>5. CASE Jump(i, op) \/ Branch(i, op) \/ Float(op)
  BY <1>5, FlagsStay DEF Jump, Branch, Float
<1>6. CASE Halt(op) \/ Crash(i, op) \/ Unknown(op)
  BY <1>6, FlagsStay DEF Halt, Crash, Unknown, Stay
<1> QED BY <1>1, <1>2, <1>3, <1>4, <1>5, <1>6

(* Every step keeps it.                                                    *)
LEMMA FlagsNext == FlagsInv /\ [Step]_vars => FlagsInv'
<1> SUFFICES ASSUME FlagsInv, [Step]_vars PROVE FlagsInv'
  OBVIOUS
<1>1. CASE Instruction
  BY <1>1, FlagsInstruction
<1>2. CASE BlockGoesOn
  BY <1>2, FlagsStay DEF BlockGoesOn
<1>3. CASE BlockFinish
  <2>1. CASE blk.op = "memchrf"
    BY <1>3, <2>1, JudgeOne DEF BlockFinish
  <2>2. CASE blk.op # "memchrf"
    BY <1>3, <2>2, FlagsStay DEF BlockFinish
  <2> QED BY <2>1, <2>2
<1>4. CASE UNCHANGED vars
  BY <1>4, FlagsStay DEF vars, cpuVars
<1> QED BY <1>1, <1>2, <1>3, <1>4 DEF Step

(* Whatever has run since, the flags are those of the last instruction     *)
(* that sets them: N and Z of its result, C of the last cmp's sum.         *)
THEOREM FlagsAreOfTheLast == Spec => []FlagsDescribe
<1>1. Init => FlagsInv
  <2> SUFFICES ASSUME Init PROVE FlagsInv
    OBVIOUS
  <2>1. judged = Judgement(1, FALSE) /\ flags = {}
    BY DEF Init, Judgement
  <2>2. judged.v = 1 /\ judged.carry = FALSE
    BY <2>1, Judged, Zenon
  <2>3. 1 # 0 /\ ~(1 >= WordMod \div 2)
    <3>1. WordMod > 3
      <4>1. HalfMod > 2
        BY Widths
      <4> QED BY <4>1, Widths
    <3>2. WordMod \div 2 > 1
      BY <3>1, Widths
    <3> QED BY <3>2, Widths
  <2> QED BY <2>1, <2>2, <2>3 DEF FlagsInv, FlagsDescribe, Judge, Negative
<1>2. FlagsInv => FlagsDescribe
  BY DEF FlagsInv
<1> QED BY <1>1, <1>2, FlagsNext, PTL DEF Spec

-----------------------------------------------------------------------------
(* What is stored is loaded with its bytes turned round *)

(* As long as nothing else is written.                                     *)
LEMMA StoredStays ==
  ASSUME LoadSwaps, mem' = mem, stored' = stored
  PROVE  LoadSwaps'
BY DEF LoadSwaps

(* Nothing is claimed once the stored place may have changed.              *)
LEMMA StoredForgotten == stored' = Nothing => LoadSwaps'
BY DEF LoadSwaps, Nothing

(* Right after a store of any width, a load from there gives its bytes     *)
(* turned.                                                                 *)
LEMMA StoreTurned ==
  ASSUME CpuInv, NEW i \in Code, NEW op, Store(i, op)
  PROVE  LoadSwaps'
<1> DEFINE v == r[D(i)]
           a == Addr(i)
<1>1. CASE op \in {"stl", "stq"}
  <2>1. mem' = Write32(mem, a, v) /\ stored' = [a |-> a, v |-> v, known |-> TRUE]
    BY <1>1 DEF Store
  <2>2. a \in Words /\ v \in Words /\ mem \in Memories
    BY Decoded DEF CpuInv, BlockTypes
  <2> HIDE DEF a, v
  <2>3. PageSize >= 4 => Read32(Write32(mem, a, v), a) = Bswap(v)
    BY <2>2, LoadedTurned
  <2>4. stored'.a = a /\ stored'.v = v
    BY <2>1
  <2> QED BY <2>1, <2>3, <2>4 DEF LoadSwaps
<1>2. CASE op \notin {"stl", "stq"}
  BY <1>2, StoredForgotten DEF Store
<1> QED BY <1>1, <1>2

(* Every step keeps that, or forgets the store.                            *)
LEMMA StoredNext == CpuInv /\ LoadSwaps /\ [Step]_vars => LoadSwaps'
<1> SUFFICES ASSUME CpuInv, LoadSwaps, [Step]_vars PROVE LoadSwaps'
  OBVIOUS
<1>1. CASE Instruction
  <2> DEFINE i == Fetched
             op == Dispatch(i).name
  <2>1. \/ Alu(i, op) \/ Compare(i, op) \/ Store(i, op) \/ Load(i, op)
        \/ IndTab(i, op) \/ BlockBegin(i, op) \/ Jump(i, op) \/ Branch(i, op)
        \/ Float(op) \/ Halt(op) \/ Crash(i, op) \/ Unknown(op)
    BY <1>1 DEF Instruction
  <2>2. i \in Code
    BY FetchedCode
  <2> HIDE DEF i, op
  <2>3. CASE Store(i, op)
    BY <2>2, <2>3, StoreTurned
  <2>4. CASE Alu(i, op) \/ Compare(i, op) \/ Load(i, op) \/ IndTab(i, op)
    BY <2>4, StoredStays DEF Alu, Compare, Load, IndTab, NoWrite
  <2>5. CASE BlockBegin(i, op)
    BY <2>5, StoredStays DEF BlockBegin, BlockStart
  <2>6. CASE Jump(i, op) \/ Branch(i, op) \/ Float(op)
    BY <2>6, StoredStays DEF Jump, Branch, Float, NoWrite
  <2>7. CASE Halt(op) \/ Crash(i, op) \/ Unknown(op)
    BY <2>7, StoredStays DEF Halt, Crash, Unknown, Stay, NoWrite
  <2> QED BY <2>1, <2>3, <2>4, <2>5, <2>6, <2>7
<1>2. CASE BlockGoesOn
  BY <1>2, StoredStays, StoredForgotten DEF BlockGoesOn
<1>3. CASE BlockFinish
  BY <1>3, StoredStays DEF BlockFinish, NoWrite
<1>4. CASE UNCHANGED vars
  BY <1>4, StoredStays DEF vars, cpuVars, blockVars
<1> QED BY <1>1, <1>2, <1>3, <1>4 DEF Step

(* A word that was stored and not written over is loaded with its bytes in *)
(* the opposite order, wherever it lies: across the end of a region, in    *)
(* the trap page and across the end of the address space.                  *)
THEOREM StoresLoadTurned == Spec => []LoadSwaps
<1>1. Init => LoadSwaps
  BY DEF Init, LoadSwaps, Nothing
<1> QED BY <1>1, StoredNext, CpuInvariant, PTL DEF Spec

-----------------------------------------------------------------------------
(* A program without jumps and stores goes through its lines *)

(* The tick count is the number of lines done; the instruction that ends   *)
(* the run takes a tick and leaves the program counter.                    *)
At(t) == pc = RomBase + 4 * t /\ 4 * t <= Len(program)

StraightInv ==
  Straight(program) =>
    /\ mem = Image(program) /\ ticks \in Nat
    /\ status \in {"running", "halted", "crashed"}
    /\ status = "running" => At(ticks)
    /\ status # "running" => ticks > 0 /\ At(ticks - 1)
    /\ status = "halted" => 4 * (ticks - 1) = Len(program)

(* The bytes of a rom's line, and of the filler behind the last.           *)
LEMMA RomByte ==
  ASSUME NEW p \in Programs, NEW x \in 0 .. RomSize - 1
  PROVE  /\ RomBase + x \in Nat /\ W(RomBase + x) = RomBase + x
         /\ Read8(Image(p), RomBase + x) = IF x < Len(p) THEN p[x + 1] ELSE ByteMod - 1
<1>1. RomBase \in Nat /\ RomSize \in Nat /\ RomBase + RomSize <= WordMod /\ x \in Nat /\ WordMod \in Nat
  BY MapAssumption, Widths
<1>2. RomBase + x \in Words /\ RomBase + x \in Nat
  BY <1>1 DEF Words
<1>3. W(RomBase + x) = RomBase + x
  BY <1>2, CutWord
<1> DEFINE c == <<"rom", x>>
<1>4. Translate(RomBase + x) = <<"rom", x>>
  <2>1. RomBase <= RomBase + x /\ RomBase + x < RomBase + RomSize /\ (RomBase + x) - RomBase = x
        /\ ~(RamBase <= RomBase + x)
    BY <1>1, MapAssumption
  <2> QED BY <2>1 DEF Translate
<1>5. c \in Cells /\ c[1] = "rom" /\ c[2] = x
  BY DEF Cells, RomCells
<1> HIDE DEF c
<1>6. Image(p)[c] = IF x < Len(p) THEN p[x + 1] ELSE ByteMod - 1
  BY <1>5 DEF Image
<1> QED BY <1>2, <1>3, <1>4, <1>6 DEF Read8, c

(* What is fetched at line t, and the instruction it is.                   *)
LEMMA FetchedStraight ==
  ASSUME CpuInv, StraightInv, Straight(program), status = "running"
  PROVE  /\ 4 * ticks < Len(program) => Dispatch(Fetched).name \in StraightOps
         /\ 4 * ticks = Len(program) => Dispatch(Fetched).name = "halt"
<1> DEFINE p == program
           n == Len(program)
<1>1. /\ p \in Programs /\ p \in Seq(Bytes) /\ n \in Nat /\ ticks \in Nat
      /\ pc = RomBase + 4 * ticks /\ 4 * ticks <= n /\ mem = Image(p)
  BY CpuAssumption DEF CpuInv, StraightInv, At
<1>2. n % 4 = 0 /\ n + 4 <= RomSize
      /\ \A k \in 1 .. n \div 4 : Dispatch(LineOf(p, k)).name \in StraightOps
  BY DEF Straight
<1> HIDE DEF p, n
<1>3. RomBase \in Nat /\ RomSize \in Nat
  BY MapAssumption
<1>4. ASSUME NEW k \in 0 .. 3
      PROVE  /\ Fetched[k] = Read8(Image(p), RomBase + (4 * ticks + k))
             /\ 4 * ticks + k \in 0 .. RomSize - 1
  <2>1. 4 * ticks + k \in 0 .. RomSize - 1
    BY <1>1, <1>2, <1>3
  <2>2. pc + k = RomBase + (4 * ticks + k)
    BY <1>1, <1>3
  <2>3. W(pc + k) = RomBase + (4 * ticks + k)
    BY <1>1, <2>1, <2>2, RomByte
  <2> QED BY <1>1, <2>1, <2>3 DEF Fetched
<1>5. ASSUME 4 * ticks < n PROVE Dispatch(Fetched).name \in StraightOps
  <2>1. ticks + 1 \in 1 .. n \div 4
    BY <1>1, <1>2, <1>5
  <2>2. ASSUME NEW k \in 0 .. 3 PROVE Fetched[k] = LineOf(p, ticks + 1)[k]
    <3>1. 4 * ticks + k < n
      BY <1>1, <1>2, <1>5
    <3>2. Fetched[k] = p[(4 * ticks + k) + 1]
      BY <1>1, <1>4, <3>1, RomByte DEF n, p
    <3>3. (4 * ticks + k) + 1 = 4 * (ticks + 1) - 3 + k
      BY <1>1
    <3> QED BY <3>2, <3>3 DEF LineOf
  <2>3. Fetched = LineOf(p, ticks + 1)
    BY <2>2 DEF Fetched, LineOf
  <2> QED BY <1>2, <2>1, <2>3
<1>6. ASSUME 4 * ticks = n PROVE Dispatch(Fetched).name = "halt"
  <2>1. ASSUME NEW k \in 0 .. 3 PROVE Fetched[k] = ByteMod - 1
    <3>1. ~(4 * ticks + k < n)
      BY <1>1, <1>6
    <3> QED BY <1>1, <1>4, <3>1, RomByte DEF n, p
  <2>2. Fetched = [k \in 0 .. 3 |-> ByteMod - 1]
    BY <2>1 DEF Fetched
  <2> QED BY <2>2, FillerAssumption
<1> QED BY <1>5, <1>6 DEF n

(* Only the straight instructions have a straight instruction's name.      *)
LEMMA StraightMoves ==
  ASSUME NEW i, NEW op \in StraightOps,
         \/ Alu(i, op) \/ Compare(i, op) \/ Store(i, op) \/ Load(i, op)
         \/ IndTab(i, op) \/ BlockBegin(i, op) \/ Jump(i, op) \/ Branch(i, op)
         \/ Float(op) \/ Halt(op) \/ Crash(i, op) \/ Unknown(op)
  PROVE  mem' = mem /\ (Advance \/ (status' = "crashed" /\ pc' = pc))
<1>1. ~Store(i, op) /\ ~Jump(i, op) /\ ~Halt(op) /\ ~Unknown(op)
  BY DEF StraightOps, AluOps, CompareOps, LoadOps, TableOps, FloatOps, Store, Jump, Halt, Unknown, StoreOps, JumpOps
<1>2. ~BlockBegin(i, op)
  BY BlockOpsAssumption DEF StraightOps, AluOps, CompareOps, LoadOps, TableOps, FloatOps, BlockBegin, AllBlockOps
<1>3. ~Branch(i, op)
  <2>1. BranchOps = {"bz", "b", "bgzs", "bgpc", "bgpcrela", "bo", "bgoz", "bemax", "bet0",
                     "bet1", "bet2", "bet3", "bet4", "bet5", "bet6", "bet7"}
    BY DEF BranchOps, BetOps
  <2> QED BY <2>1 DEF StraightOps, AluOps, CompareOps, LoadOps, TableOps, FloatOps, Branch
<1>4. CASE Alu(i, op) \/ Compare(i, op) \/ Load(i, op) \/ IndTab(i, op) \/ Float(op)
  BY <1>4 DEF Alu, Compare, Load, IndTab, Float, NoWrite
<1>5. CASE Crash(i, op)
  BY <1>5 DEF Crash, Stay, NoWrite
<1> QED BY <1>1, <1>2, <1>3, <1>4, <1>5

(* The instruction halt, through whichever arm it is run, stops and moves  *)
(* nothing.                                                                *)
LEMMA HaltMoves ==
  ASSUME NEW i,
         \/ Alu(i, "halt") \/ Compare(i, "halt") \/ Store(i, "halt") \/ Load(i, "halt")
         \/ IndTab(i, "halt") \/ BlockBegin(i, "halt") \/ Jump(i, "halt") \/ Branch(i, "halt")
         \/ Float("halt") \/ Halt("halt") \/ Crash(i, "halt") \/ Unknown("halt")
  PROVE  mem' = mem /\ pc' = pc /\ status' = "halted"
<1>1. /\ ~Alu(i, "halt") /\ ~Compare(i, "halt") /\ ~Store(i, "halt") /\ ~Load(i, "halt")
      /\ ~IndTab(i, "halt") /\ ~Jump(i, "halt") /\ ~Float("halt") /\ ~Crash(i, "halt")
      /\ ~Unknown("halt")
  BY DEF Alu, AluOps, Compare, CompareOps, Store, StoreOps, Load, LoadOps, IndTab, TableOps,
    Jump, JumpOps, Float, FloatOps, Crash, UnwrittenOps, Unknown
<1>2. ~BlockBegin(i, "halt")
  BY BlockOpsAssumption DEF BlockBegin, AllBlockOps
<1>3. ~Branch(i, "halt")
  BY DEF Branch, BranchOps, BetOps
<1>4. Halt("halt")
  BY <1>1, <1>2, <1>3
<1> QED BY <1>4 DEF Halt, Stay, NoWrite

(* cpu_step on a straight program advances by one line or stops on the     *)
(* filler.                                                                 *)
LEMMA StraightInstruction ==
  ASSUME CpuInv, StraightInv, Instruction PROVE StraightInv'
<1> SUFFICES ASSUME Straight(program)' PROVE StraightInv'
  BY DEF StraightInv
<1> DEFINE i == Fetched
           op == Dispatch(i).name
           n == Len(program)
<1>1. /\ \/ Alu(i, op) \/ Compare(i, op) \/ Store(i, op) \/ Load(i, op)
         \/ IndTab(i, op) \/ BlockBegin(i, op) \/ Jump(i, op) \/ Branch(i, op)
         \/ Float(op) \/ Halt(op) \/ Crash(i, op) \/ Unknown(op)
      /\ program' = program /\ ticks' = ticks + 1 /\ status = "running"
  BY DEF Instruction, Tick
<1>2. Straight(program)
  BY <1>1 DEF Straight
<1>3. /\ mem = Image(program) /\ ticks \in Nat /\ pc = RomBase + 4 * ticks /\ 4 * ticks <= n
      /\ n \in Nat
  BY <1>1, <1>2, CpuAssumption DEF StraightInv, At, CpuInv
<1>4. n % 4 = 0 /\ n + 4 <= RomSize /\ MaxTicks > (n \div 4) + 1
  BY <1>2 DEF Straight
<1>5. /\ 4 * ticks < n => op \in StraightOps
      /\ 4 * ticks = n => op = "halt"
  BY <1>1, <1>2, FetchedStraight
<1> HIDE DEF i, op
<1>6. CASE 4 * ticks < n
  <2>1. mem' = mem /\ (Advance \/ (status' = "crashed" /\ pc' = pc))
    BY <1>1, <1>5, <1>6, StraightMoves
  <2>2. 4 * (ticks + 1) <= n
    BY <1>3, <1>4, <1>6
  <2>3. CASE Advance
    <3>1. pc + 4 = RomBase + 4 * (ticks + 1)
      BY <1>3, MapAssumption
    <3>2. 4 * (ticks + 1) \in 0 .. RomSize - 1
      BY <1>3, <1>4, <2>2, MapAssumption
    <3>3. W(RomBase + 4 * (ticks + 1)) = RomBase + 4 * (ticks + 1)
      BY <3>2, RomByte DEF CpuInv
    <3>4. pc' = RomBase + 4 * (ticks + 1) /\ status' = After(ticks + 1)
      BY <2>3, <3>1, <3>3 DEF Advance, Goto
    <3>5. ticks + 1 <= n \div 4
      BY <1>3, <2>2
    <3>6. status' = "running"
      BY <1>3, <1>4, <3>4, <3>5, CpuAssumption DEF After
    <3> QED BY <1>1, <1>3, <2>1, <2>2, <3>4, <3>6 DEF StraightInv, At
  <2>4. CASE status' = "crashed" /\ pc' = pc
    <3>1. ticks + 1 > 0 /\ (ticks + 1) - 1 = ticks /\ ticks + 1 \in Nat
      BY <1>3
    <3> QED BY <1>1, <1>3, <2>1, <2>4, <3>1 DEF StraightInv, At
  <2> QED BY <2>1, <2>3, <2>4
<1>7. CASE 4 * ticks = n
  <2>1. mem' = mem /\ pc' = pc /\ status' = "halted"
    BY <1>1, <1>5, <1>7, HaltMoves
  <2>2. ticks + 1 > 0 /\ (ticks + 1) - 1 = ticks /\ ticks + 1 \in Nat
    BY <1>3
  <2> QED BY <1>1, <1>3, <1>7, <2>1, <2>2 DEF StraightInv, At
<1> QED BY <1>3, <1>6, <1>7

(* Every step of a straight program keeps its place and its ticks in step. *)
LEMMA StraightNext == CpuInv /\ StraightInv /\ [Step]_vars => StraightInv'
<1> SUFFICES ASSUME CpuInv, StraightInv, [Step]_vars PROVE StraightInv'
  OBVIOUS
<1>1. CASE Instruction
  BY <1>1, StraightInstruction
<1>2. CASE BlockGoesOn \/ BlockFinish
  BY <1>2 DEF BlockGoesOn, BlockFinish, StraightInv, Straight
<1>3. CASE UNCHANGED vars
  BY <1>3 DEF vars, cpuVars, blockVars, StraightInv, Straight, At
<1> QED BY <1>1, <1>2, <1>3 DEF Step

(* A program without jumps, stores and block instructions is never stopped *)
(* by the tick count when that is larger than its lines, and halts only on *)
(* the filler behind its last line.                                        *)
THEOREM StraightProgramsHalt == Spec => []StraightHalts
<1>1. Init => StraightInv
  <2> SUFFICES ASSUME Init, Straight(program) PROVE StraightInv
    BY DEF StraightInv
  <2>1. program \in Seq(Bytes) /\ RomBase \in Nat
    BY CpuAssumption, MapAssumption DEF Init
  <2>2. Len(program) \in Nat /\ pc = RomBase + 4 * 0
    BY <2>1 DEF Init
  <2> QED BY <2>2 DEF Init, StraightInv, At
<1>2. CpuInv /\ StraightInv => StraightHalts
  <2> SUFFICES ASSUME CpuInv, StraightInv, Straight(program)
               PROVE  /\ status # "stopped"
                      /\ status = "halted" => pc = RomBase + Len(program)
                      /\ pc = RomBase + 4 * (ticks - IF status \in {"halted", "crashed"} THEN 1 ELSE 0)
    BY DEF StraightHalts
  <2>1. ticks \in Nat
    BY DEF StraightInv
  <2> QED BY <2>1 DEF StraightInv, At
<1> QED BY <1>1, <1>2, StraightNext, CpuInvariant, PTL DEF Spec
=============================================================================
