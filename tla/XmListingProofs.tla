--------------------------- MODULE XmListingProofs ----------------------------
(***************************************************************************)
(* Proofs about the assembler (XmAsm) and the tool chain around it         *)
(* (XmListing), for every source, every instruction table and every width  *)
(* of a byte.                                                              *)
(***************************************************************************)
EXTENDS XmListing, XmWordProofs, SequenceTheorems

(* What a source goes on with are lines.                                   *)
LinesGiven == \A s \in Seq(Lines) : NextLines(s) \subseteq Lines

Entries == {InstTable[k] : k \in DOMAIN InstTable} \cup {NoInst}
InstLines == {l \in Lines : l.kind = "inst"}

-----------------------------------------------------------------------------
(* The bytes of a line *)

(* What the elements of a sequence are, and its length.                    *)
LEMMA ElementOf ==
  ASSUME NEW S, NEW s \in Seq(S)
  PROVE  Len(s) \in Nat /\ DOMAIN s = 1 .. Len(s) /\ \A i \in DOMAIN s : s[i] \in S
OBVIOUS

(* What a line of instructions and a label's line are.                     *)
LEMMA LineFields ==
  ASSUME NEW l \in Lines
  PROVE  /\ l.kind \in {"inst", "label"}
         /\ l.kind = "label" => l.name \in STRING
         /\ l.kind = "inst" =>
              /\ l.entry \in Entries
              /\ l.operands.d \in Nat /\ l.operands.a \in Nat /\ l.operands.b \in Int
              /\ l.operands.c \in Nat /\ l.operands.imm \in BOOLEAN
              /\ l.operands.label \in STRING \cup {NoLabel}
BY DEF Lines, Entries

(* An opcode is a byte, and has no high bit where an immediate sets one.   *)
LEMMA EntryOpcode ==
  ASSUME NEW e \in Entries
  PROVE  /\ e.op \in Bytes
         /\ e.format = "R4R4I8O8_IFHBS" => e.op + HighBit \in Bytes
<1>1. HighBit \in Nat /\ ByteMod \in Nat /\ ByteMod > 1 /\ ByteMod = HighBit + HighBit
  <2>1. ByteMod \in Nat /\ ByteMod > 1 /\ ByteMod = HighBit + HighBit
    BY ByteAssumption, HighBitAssumption
  <2>2. ByteMod \div 2 \in Nat
    BY <2>1, Divided
  <2> QED BY <2>1, <2>2 DEF HighBit
<1>2. CASE e = NoInst
  BY <1>1, <1>2 DEF NoInst, Bytes
<1>3. CASE \E k \in DOMAIN InstTable : e = InstTable[k]
  <2>1. e.op \in Bytes /\ (e.format = "R4R4I8O8_IFHBS" => e.op < HighBit)
    <3>1. PICK k \in DOMAIN InstTable : e = InstTable[k]
      BY <1>3
    <3>2. InstTable[k] \in [name : STRING, format : STRING, op : Bytes]
      BY OpcodeAssumption, ElementOf
    <3> QED BY <3>1, <3>2, OpcodeAssumption
  <2> QED BY <1>1, <2>1 DEF Bytes
<1> QED BY <1>2, <1>3 DEF Entries

(* Two halves make a byte, and come out of it again.                       *)
LEMMA Packed ==
  ASSUME NEW x \in Int, NEW y \in Int
  PROVE  Pack(x, y) \in Bytes /\ Lo(Pack(x, y)) = x % NReg /\ Hi(Pack(x, y)) = y % NReg
<1> DEFINE u == x % NReg
           v == y % NReg
<1>1. NReg \in Nat /\ NReg > 0 /\ NReg * NReg = ByteMod
  BY RegAssumption, ByteAssumption
<1>2. u \in 0 .. NReg - 1 /\ v \in 0 .. NReg - 1
  BY <1>1
<1> HIDE DEF u, v
<1>3. u + v * NReg \in Nat
  BY <1>1, <1>2
<1>4. v * NReg <= (NReg - 1) * NReg
  BY <1>1, <1>2
<1>5. (NReg - 1) * NReg = NReg * NReg - NReg
  BY <1>1
<1>6. u + v * NReg \in Bytes
  BY <1>1, <1>2, <1>3, <1>4, <1>5 DEF Bytes
<1>7. (u + v * NReg) \div NReg = v /\ (u + v * NReg) % NReg = u
  <2>1. u + v * NReg = v * NReg + u /\ v \in Int /\ u \in Int /\ 0 <= u /\ u < NReg
    BY <1>1, <1>2
  <2> QED BY <1>1, <1>3, <2>1, DividedOnce
<1> QED BY <1>6, <1>7 DEF Pack, Lo, Hi, u, v

(* Four bytes.                                                             *)
IsCode(s) == s \in Seq(Bytes) /\ Len(s) = 4

(* Four bytes are code.                                                    *)
LEMMA FourOf ==
  ASSUME NEW w \in Bytes, NEW x \in Bytes, NEW y \in Bytes, NEW z \in Bytes
  PROVE  IsCode(<<w, x, y, z>>)
BY DEF IsCode

(* Code is not empty: a line with bytes is told from one without.          *)
LEMMA NoneOf == \A s : IsCode(s) => s # << >>
BY DEF IsCode

(* What the encoder makes of the operands, format by format.               *)
LEMMA Encoded ==
  ASSUME NEW e, NEW o
  PROVE  /\ e.format = "R4R4I8O8_IFHBS" /\ o.imm =>
              Encode(e, o) = <<0, Pack(o.d, o.a), o.b % ByteMod, e.op + HighBit>>
         /\ e.format = "R4R4I8O8_IFHBS" /\ ~o.imm =>
              Encode(e, o) = <<0, Pack(o.d, o.a), Pack(o.b, o.c), e.op>>
         /\ e.format = "U16O8" => Encode(e, o) = <<0, 0, 0, e.op>>
         /\ e.format = "R4U4RA8O8" => Encode(e, o) = <<0, Pack(o.d, o.c), o.b % ByteMod, e.op>>
         /\ e.format = "R4R4R4R4" => Encode(e, o) = <<0, Pack(o.d, o.a), Pack(o.b, o.c), e.op>>
         /\ e.format = "F4F4F4F4" => Encode(e, o) = <<1, Pack(o.d, o.a), Pack(o.b, o.c), e.op>>
         /\ e.format \notin {"R4R4I8O8_IFHBS", "U16O8", "R4U4RA8O8", "R4R4R4R4", "F4F4F4F4"} =>
              Encode(e, o) = << >>
BY DEF Encode, EncodeImm

(* What the encoder gives for an entry of the table is four bytes, or      *)
(* nothing for a format it does not handle; a branch is always four.       *)
LEMMA EncodedBytes ==
  ASSUME NEW e \in Entries, NEW o, o.d \in Nat, o.a \in Nat, o.b \in Int, o.c \in Nat
  PROVE  /\ Encode(e, o) = << >> \/ IsCode(Encode(e, o))
         /\ e.format = "R4U4RA8O8" => IsCode(Encode(e, o))
<1>1. 0 \in Bytes /\ 1 \in Bytes /\ e.op \in Bytes /\ o.b % ByteMod \in Bytes
  BY EntryOpcode, ByteAssumption DEF Bytes
<1>2. e.format = "R4R4I8O8_IFHBS" => e.op + HighBit \in Bytes
  BY EntryOpcode
<1>3. Pack(o.d, o.a) \in Bytes /\ Pack(o.b, o.c) \in Bytes /\ Pack(o.d, o.c) \in Bytes
  BY Packed
<1>4. CASE e.format = "R4R4I8O8_IFHBS"
  <2>1. IsCode(<<0, Pack(o.d, o.a), o.b % ByteMod, e.op + HighBit>>)
        /\ IsCode(<<0, Pack(o.d, o.a), Pack(o.b, o.c), e.op>>)
    BY <1>1, <1>2, <1>3, <1>4, FourOf
  <2> QED BY <1>4, <2>1, Encoded
<1>5. CASE e.format = "U16O8"
  <2>1. IsCode(<<0, 0, 0, e.op>>)
    BY <1>1, FourOf
  <2> QED BY <1>5, <2>1, Encoded
<1>6. CASE e.format = "R4U4RA8O8"
  <2>1. IsCode(<<0, Pack(o.d, o.c), o.b % ByteMod, e.op>>)
    BY <1>1, <1>3, FourOf
  <2> QED BY <1>6, <2>1, Encoded
<1>7. CASE e.format \in {"R4R4R4R4", "F4F4F4F4"}
  <2>1. IsCode(<<0, Pack(o.d, o.a), Pack(o.b, o.c), e.op>>)
        /\ IsCode(<<1, Pack(o.d, o.a), Pack(o.b, o.c), e.op>>)
    BY <1>1, <1>3, FourOf
  <2> QED BY <1>7, <2>1, Encoded
<1>8. CASE e.format \notin {"R4R4I8O8_IFHBS", "U16O8", "R4U4RA8O8", "R4R4R4R4", "F4F4F4F4"}
  BY <1>8, Encoded
<1> QED BY <1>4, <1>5, <1>6, <1>7, <1>8

(* A line has four bytes or none; a branch to a label has four.            *)
LEMMA FourBytes ==
  ASSUME NEW l \in Lines
  PROVE  /\ LineBytes(l) = << >> \/ IsCode(LineBytes(l))
         /\ LineBytes(l) # << >> => l.kind = "inst" /\ LineBytes(l) = Encode(l.entry, l.operands)
         /\ BranchesToLabel(l) => IsCode(LineBytes(l)) /\ l.operands.label \in STRING
<1>1. CASE l.kind # "inst"
  BY <1>1 DEF LineBytes, BranchesToLabel
<1>2. CASE l.kind = "inst"
  <2>1. LineBytes(l) = Encode(l.entry, l.operands)
    BY <1>2 DEF LineBytes
  <2>2. /\ Encode(l.entry, l.operands) = << >> \/ IsCode(Encode(l.entry, l.operands))
        /\ l.entry.format = "R4U4RA8O8" => IsCode(Encode(l.entry, l.operands))
    BY <1>2, LineFields, EncodedBytes
  <2>3. BranchesToLabel(l) => l.entry.format = "R4U4RA8O8" /\ l.operands.label \in STRING
    BY <1>2, LineFields DEF BranchesToLabel
  <2> QED BY <1>2, <2>1, <2>2, <2>3
<1> QED BY <1>1, <1>2

-----------------------------------------------------------------------------
(* The places of the lines *)

Below(S, k) == {j \in S : j < k}

(* Numbers of a finite set, counted from below.                            *)
LEMMA CountBelow ==
  ASSUME NEW S, IsFiniteSet(S), S \subseteq Nat
  PROVE  /\ Cardinality(S) \in Nat
         /\ \A k \in Nat : Cardinality(Below(S, k)) \in Nat
                             /\ Cardinality(Below(S, k)) <= Cardinality(S)
         /\ \A k \in S : Cardinality(Below(S, k)) < Cardinality(S)
         /\ \A j, k \in S : j < k => Cardinality(Below(S, j)) < Cardinality(Below(S, k))
<1>1. Cardinality(S) \in Nat
  BY FS_CardinalityType
<1>2. ASSUME NEW k \in Nat
      PROVE  /\ IsFiniteSet(Below(S, k)) /\ Cardinality(Below(S, k)) \in Nat
             /\ Cardinality(Below(S, k)) <= Cardinality(S)
  <2>1. Below(S, k) \subseteq S
    BY DEF Below
  <2> QED BY <2>1, FS_Subset, FS_CardinalityType
<1>3. ASSUME NEW T, IsFiniteSet(T), NEW U, NEW x \in T, U \subseteq T \ {x}
      PROVE  Cardinality(U) < Cardinality(T)
  <2>1. IsFiniteSet(T \ {x}) /\ Cardinality(T \ {x}) = Cardinality(T) - 1
    BY <1>3, FS_RemoveElement
  <2>2. IsFiniteSet(U) /\ Cardinality(U) <= Cardinality(T \ {x})
    BY <1>3, <2>1, FS_Subset
  <2>3. Cardinality(T) \in Nat /\ Cardinality(U) \in Nat
    BY <1>3, <2>2, FS_CardinalityType
  <2> QED BY <2>1, <2>2, <2>3
<1>4. ASSUME NEW k \in S PROVE Cardinality(Below(S, k)) < Cardinality(S)
  <2>1. Below(S, k) \subseteq S \ {k}
    BY DEF Below
  <2> QED BY <1>3, <2>1
<1>5. ASSUME NEW j \in S, NEW k \in S, j < k
      PROVE  Cardinality(Below(S, j)) < Cardinality(Below(S, k))
  <2>0. j \in Nat /\ k \in Nat /\ ~(j < j) /\ \A i \in S : i \in Nat
    BY <1>5
  <2>4. j \in Below(S, k)
    BY <1>5 DEF Below
  <2>5. ASSUME NEW i \in Below(S, j) PROVE i \in Below(S, k) \ {j}
    <3>1. i \in S /\ i < j
      BY <2>5 DEF Below
    <3>2. i \in Nat
      BY <3>1, <2>0
    <3>3. i < k /\ i # j
      BY <3>1, <3>2, <2>0, <1>5
    <3> QED BY <3>1, <3>3 DEF Below
  <2>1. j \in Below(S, k) /\ Below(S, j) \subseteq Below(S, k) \ {j}
    BY <2>4, <2>5
  <2>2. IsFiniteSet(Below(S, k))
    BY <1>2
  <2> QED BY <1>3, <2>1, <2>2
<1> QED BY <1>1, <1>2, <1>4, <1>5

(* The least of some numbers.                                              *)
LEMMA LeastOf ==
  ASSUME NEW S, S \subseteq Nat, S # {}
  PROVE  /\ Min(S) \in S
         /\ \A x \in S : (\A y \in S : x <= y) => Min(S) = x
<1>1. PICK x \in S : \A y \in S : x <= y
  BY LeastIn
<1>2. Min(S) \in S /\ \A y \in S : Min(S) <= y
  BY <1>1 DEF Min
<1>3. ASSUME NEW z \in S, \A y \in S : z <= y PROVE Min(S) = z
  <2> DEFINE m == Min(S)
  <2>1. m \in Nat /\ z \in Nat
    BY <1>2
  <2>2. m <= z /\ z <= m
    BY <1>2, <1>3
  <2> HIDE DEF m
  <2>3. m = z
    BY <2>1, <2>2
  <2> QED BY <2>3 DEF m
<1> QED BY <1>2, <1>3

(* The lines with bytes are finitely many, and each has a rank of its own  *)
(* among them.                                                             *)
LEMMA EmittedFew ==
  source \in Seq(Lines) =>
    /\ Len(source) \in Nat /\ DOMAIN source = 1 .. Len(source)
    /\ Emitted \subseteq 1 .. Len(source) /\ Emitted \subseteq Nat /\ IsFiniteSet(Emitted)
    /\ Cardinality(Emitted) \in Nat
    /\ \A k \in Nat : Rank(k) \in Nat
    /\ \A k \in Emitted : Rank(k) \in Nat /\ Rank(k) < Cardinality(Emitted)
    /\ \A j, k \in Emitted : Rank(j) = Rank(k) => j = k
<1> SUFFICES ASSUME source \in Seq(Lines)
             PROVE  /\ Len(source) \in Nat /\ DOMAIN source = 1 .. Len(source)
                    /\ Emitted \subseteq 1 .. Len(source) /\ Emitted \subseteq Nat /\ IsFiniteSet(Emitted)
                    /\ Cardinality(Emitted) \in Nat
                    /\ \A k \in Nat : Rank(k) \in Nat
                    /\ \A k \in Emitted : Rank(k) \in Nat /\ Rank(k) < Cardinality(Emitted)
                    /\ \A j, k \in Emitted : Rank(j) = Rank(k) => j = k
  OBVIOUS
<1>1. Len(source) \in Nat /\ DOMAIN source = 1 .. Len(source)
  OBVIOUS
<1>2. Emitted \subseteq 1 .. Len(source)
  BY <1>1 DEF Emitted
<1>3. IsFiniteSet(1 .. Len(source))
  BY <1>1, FS_Interval
<1>4. IsFiniteSet(Emitted)
  BY <1>2, <1>3, FS_Subset
<1>5. Emitted \subseteq Nat
  BY <1>1, <1>2
<1>6. \A k : Rank(k) = Cardinality(Below(Emitted, k))
  BY DEF Rank, Below
<1>7. \A k \in Emitted : k \in Nat
  BY <1>5
<1>8. \A j, k \in Emitted : Rank(j) = Rank(k) => j = k
  <2> SUFFICES ASSUME NEW j \in Emitted, NEW k \in Emitted, j # k PROVE Rank(j) # Rank(k)
    OBVIOUS
  <2>1. Cardinality(Below(Emitted, j)) \in Nat /\ Cardinality(Below(Emitted, k)) \in Nat
    BY <1>4, <1>5, <1>7, CountBelow
  <2>2. \/ Cardinality(Below(Emitted, j)) < Cardinality(Below(Emitted, k))
        \/ Cardinality(Below(Emitted, k)) < Cardinality(Below(Emitted, j))
    <3>1. j < k \/ k < j
      BY <1>7
    <3> QED BY <1>4, <1>5, <3>1, CountBelow
  <2> QED BY <1>6, <2>1, <2>2
<1>9. /\ Cardinality(Emitted) \in Nat
      /\ \A k \in Nat : Cardinality(Below(Emitted, k)) \in Nat
      /\ \A k \in Emitted : Cardinality(Below(Emitted, k)) < Cardinality(Emitted)
  BY <1>4, <1>5, CountBelow
<1> QED BY <1>1, <1>2, <1>4, <1>5, <1>6, <1>8, <1>9

(* A line more: those before it stay where they are, and it is behind them.*)
LEMMA LineAppended ==
  ASSUME source \in Seq(Lines), NEW l \in Lines, source' = Append(source, l)
  PROVE  /\ source' \in Seq(Lines) /\ Len(source') = Len(source) + 1
         /\ \A k \in 1 .. Len(source) : source'[k] = source[k]
         /\ source'[Len(source) + 1] = l
         /\ LineBytes(l) = << >> => Emitted' = Emitted /\ Cardinality(Emitted)' = Cardinality(Emitted)
         /\ LineBytes(l) # << >> => /\ Emitted' = Emitted \cup {Len(source) + 1}
                                    /\ Cardinality(Emitted)' = Cardinality(Emitted) + 1
         /\ \A k \in 1 .. Len(source) : Rank(k)' = Rank(k)
         /\ \A k \in Nat : k = Len(source) + 1 => Rank(k)' = Cardinality(Emitted)
<1> DEFINE n == Len(source)
<1>1. /\ n \in Nat /\ source' \in Seq(Lines) /\ Len(source') = n + 1
      /\ \A k \in 1 .. n : source'[k] = source[k]
      /\ source'[n + 1] = l
      /\ DOMAIN source = 1 .. n /\ DOMAIN source' = 1 .. n + 1
  OBVIOUS
<1>2. Emitted \subseteq 1 .. n /\ IsFiniteSet(Emitted) /\ Cardinality(Emitted) \in Nat
  BY EmittedFew
<1> HIDE DEF n
<1>3. LineBytes(l) = << >> => Emitted' = Emitted
  BY <1>1, <1>2 DEF Emitted
<1>4. LineBytes(l) # << >> => Emitted' = Emitted \cup {n + 1}
  BY <1>1, <1>2 DEF Emitted
<1>5. n + 1 \notin Emitted
  BY <1>1, <1>2
<1>6. LineBytes(l) # << >> => Cardinality(Emitted)' = Cardinality(Emitted) + 1
  BY <1>2, <1>4, <1>5, FS_AddElement
<1>7. \A k \in 1 .. n : Rank(k)' = Rank(k)
  <2> SUFFICES ASSUME NEW k \in 1 .. n PROVE Rank(k)' = Rank(k)
    OBVIOUS
  <2>1. ~(n + 1 < k)
    BY <1>1
  <2>2. {j \in Emitted' : j < k} = {j \in Emitted : j < k}
    BY <1>3, <1>4, <2>1
  <2> QED BY <2>2 DEF Rank
<1>8. ASSUME NEW k \in Nat, k = n + 1 PROVE Rank(k)' = Cardinality(Emitted)
  <2>1. \A j \in Emitted : j < k
    BY <1>1, <1>2, <1>8
  <2>2. ~(n + 1 < k)
    BY <1>1, <1>8
  <2>3. {j \in Emitted' : j < k} = Emitted
    BY <1>3, <1>4, <2>1, <2>2
  <2> QED BY <2>3 DEF Rank
<1> QED BY <1>1, <1>3, <1>4, <1>6, <1>7, <1>8 DEF n
-----------------------------------------------------------------------------
(* What holds of the assembler while it runs *)

(* The fixup that a branch to a label leaves.                              *)
FixupOf(k) == [name |-> source[k].operands.label, pc |-> PlaceOf(k), offset |-> PlaceOf(k)]
Distance(f) == find_label(f.name).pc - f.pc
Branches == {k \in Emitted : BranchesToLabel(source[k])}

AsmTypes ==
  /\ source \in Seq(Lines)
  /\ out \in Seq(Bytes) /\ Len(out) = 4 * Cardinality(Emitted) /\ pc = Len(out)
  /\ labels \in Seq([name : STRING, pc : Nat])
  /\ \A j \in DOMAIN labels : labels[j].pc <= pc
  /\ fixups \in Seq([name : STRING, pc : Nat, offset : Nat])
  /\ fixing \in 1 .. Len(fixups) + 1 /\ reported \subseteq DOMAIN fixups
  /\ phase \in {"assembling", "fixing", "unlabelled", "listing", "listed", "aborted"}
  /\ phase = "assembling" => fixing = 1
  /\ phase \in {"listing", "listed", "aborted"} => fixing = Len(fixups) + 1

(* Each multiple of four that was passed is some line's place.             *)
RanksCover == \A m \in Nat : m < Cardinality(Emitted) => \E k \in Emitted : Rank(k) = m

(* The first label of a name is the first line of that name.               *)
LabelsStand ==
  \A name \in STRING :
    /\ Found(name) = {} <=> Labelled(name) = {}
    /\ Found(name) # {} => find_label(name).pc = LabelPlace(name)

FixupsStand ==
  /\ \A i \in DOMAIN fixups : \E k \in Branches : fixups[i] = FixupOf(k)
  /\ \A k \in Branches : \E i \in DOMAIN fixups : fixups[i] = FixupOf(k)
  /\ \A i, j \in DOMAIN fixups : fixups[i].pc = fixups[j].pc => i = j

(* The fixups before this one are done: their labels were found, their     *)
(* distances written and, where too long, reported.                        *)
FixupsDone ==
  /\ \A i \in DOMAIN fixups :
       i < fixing => /\ Found(fixups[i].name) # {}
                     /\ out[fixups[i].pc + 3] = Distance(fixups[i]) % ByteMod
  /\ \A i \in DOMAIN fixups :
       i \in reported <=> i < fixing /\ ~InRange(Distance(fixups[i]))

(* Of what was written nothing changes but the distances to labels.        *)
LinesWritten ==
  \A k \in Emitted : \A j \in 1 .. 4 :
    j # 3 \/ k \notin Branches => out[PlaceOf(k) + j] = LineBytes(source[k])[j]

AsmInv ==
  AsmTypes /\ RanksCover /\ LabelsStand /\ FixupsStand /\ FixupsDone /\ LinesWritten

AllPlain == \A k \in Emitted : Plain(source[k])
Records == {[name |-> e.name, args |-> Printed(e, id)] : e \in Entries, id \in Code}

(* The disassembler is at a line's place, and has listed those before it.  *)
ListInv ==
  /\ phase \in {"assembling", "fixing", "unlabelled"} => at = 1 /\ listing = << >>
  /\ at \in 1 .. Len(out) + 4 /\ listing \in Seq(Records) /\ 4 * Len(listing) <= at - 1
  /\ AllPlain =>
       /\ phase # "aborted" /\ at = 4 * Len(listing) + 1
       /\ phase = "listed" => Len(listing) = Cardinality(Emitted)
       /\ \A k \in Emitted : Rank(k) < Len(listing) =>
            listing[Rank(k) + 1] = [name |-> source[k].entry.name, args |-> Said(k)]

-----------------------------------------------------------------------------
(* The assembler keeps its invariant *)

(* Where the elements of two sequences are in their concatenation.         *)
LEMMA Joined ==
  ASSUME NEW S, NEW s \in Seq(S), NEW t \in Seq(S)
  PROVE  /\ s \o t \in Seq(S) /\ Len(s \o t) = Len(s) + Len(t)
         /\ \A i \in 1 .. Len(s) : (s \o t)[i] = s[i]
         /\ \A i \in 1 .. Len(t) : (s \o t)[Len(s) + i] = t[i]
<1>1. s \o t \in Seq(S) /\ Len(s \o t) = Len(s) + Len(t) /\ Len(s) \in Nat /\ Len(t) \in Nat
  OBVIOUS
<1>2. \A i \in 1 .. Len(s) + Len(t) : (s \o t)[i] = IF i <= Len(s) THEN s[i] ELSE t[i - Len(s)]
  OBVIOUS
<1>3. \A i \in 1 .. Len(t) : Len(s) + i \in 1 .. Len(s) + Len(t) /\ ~(Len(s) + i <= Len(s))
                             /\ (Len(s) + i) - Len(s) = i
  BY <1>1
<1> QED BY <1>1, <1>2, <1>3

(* Where the elements of an appended sequence are.                         *)
LEMMA Appended ==
  ASSUME NEW S, NEW s \in Seq(S), NEW x \in S
  PROVE  /\ Append(s, x) \in Seq(S) /\ Len(Append(s, x)) = Len(s) + 1
         /\ DOMAIN Append(s, x) = 1 .. Len(s) + 1 /\ DOMAIN s = 1 .. Len(s) /\ Len(s) \in Nat
         /\ \A i \in 1 .. Len(s) : Append(s, x)[i] = s[i]
         /\ Append(s, x)[Len(s) + 1] = x
OBVIOUS

(* Lines have four bytes of their own.                                     *)
LEMMA PlacesApart ==
  ASSUME source \in Seq(Lines)
  PROVE  /\ \A k \in Emitted : PlaceOf(k) \in Nat /\ PlaceOf(k) + 4 <= 4 * Cardinality(Emitted)
         /\ \A j, k \in Emitted : \A x, y \in 1 .. 4 :
              PlaceOf(j) + x = PlaceOf(k) + y => j = k /\ x = y
<1>1. /\ Cardinality(Emitted) \in Nat
      /\ \A k \in Emitted : Rank(k) \in Nat /\ Rank(k) < Cardinality(Emitted)
      /\ \A j, k \in Emitted : Rank(j) = Rank(k) => j = k
  BY EmittedFew
<1>2. \A r, m \in Nat : r < m => 4 * r \in Nat /\ 4 * r + 4 <= 4 * m
  OBVIOUS
<1>3. \A r, m \in Nat : \A x, y \in 1 .. 4 : 4 * r + x = 4 * m + y => r = m /\ x = y
  OBVIOUS
<1> QED BY <1>1, <1>2, <1>3, SMTT(30) DEF PlaceOf

(* The first of some labels is one of them.                                *)
LEMMA FirstFound ==
  ASSUME NEW name, labels \in Seq([name : STRING, pc : Nat]), Found(name) # {}
  PROVE  /\ Min(Found(name)) \in Found(name) /\ Found(name) \subseteq Nat
         /\ find_label(name).pc \in Nat
<1>1. Found(name) \subseteq Nat /\ Found(name) \subseteq DOMAIN labels
  BY DEF Found
<1>2. Min(Found(name)) \in Found(name)
  BY <1>1, LeastOf
<1>3. \A i \in DOMAIN labels : labels[i].pc \in Nat
  <2>1. \A i \in DOMAIN labels : labels[i] \in [name : STRING, pc : Nat]
    BY ElementOf
  <2> QED BY <2>1
<1> QED BY <1>1, <1>2, <1>3 DEF find_label

(* If a label is defined, there is a first line that defines it.           *)
LEMMA FirstLabelled ==
  ASSUME NEW name, source \in Seq(Lines), Labelled(name) # {}
  PROVE  Min(Labelled(name)) \in Labelled(name) /\ Labelled(name) \subseteq 1 .. Len(source)
         /\ Labelled(name) \subseteq Nat
<1>1. Labelled(name) \subseteq 1 .. Len(source) /\ Labelled(name) \subseteq Nat
  BY DEF Labelled
<1> QED BY <1>1, LeastOf

(* An instruction is assembled.                                            *)
LEMMA AssembleInstKeeps ==
  ASSUME AsmInv, NEW l \in Lines, AssembleInst(l)
  PROVE  AsmInv'
<1> DEFINE n == Len(source)
           b == LineBytes(l)
           c == Cardinality(Emitted)
<1>1. /\ source \in Seq(Lines) /\ out \in Seq(Bytes) /\ Len(out) = 4 * c /\ pc = Len(out)
      /\ labels \in Seq([name : STRING, pc : Nat])
      /\ \A j \in DOMAIN labels : labels[j].pc <= pc
      /\ fixups \in Seq([name : STRING, pc : Nat, offset : Nat])
      /\ fixing = 1 /\ reported \subseteq DOMAIN fixups
  BY DEF AsmInv, AsmTypes, AssembleInst
<1>2. /\ source' = Append(source, l) /\ out' = out \o b /\ pc' = pc + Len(b)
      /\ labels' = labels /\ fixing' = fixing /\ reported' = reported
      /\ phase = "assembling" /\ phase' = phase /\ l.kind = "inst"
      /\ fixups' = IF BranchesToLabel(l)
                   THEN Append(fixups, [name |-> l.operands.label, pc |-> pc, offset |-> Len(out)])
                   ELSE fixups
  BY DEF AssembleInst
<1>3. /\ source' \in Seq(Lines) /\ Len(source') = n + 1
      /\ \A k \in 1 .. n : source'[k] = source[k]
      /\ source'[n + 1] = l
      /\ b = << >> => Emitted' = Emitted /\ Cardinality(Emitted)' = c
      /\ b # << >> => Emitted' = Emitted \cup {n + 1} /\ Cardinality(Emitted)' = c + 1
      /\ \A k \in 1 .. n : Rank(k)' = Rank(k)
      /\ \A k \in Nat : k = n + 1 => Rank(k)' = c
  BY <1>1, <1>2, LineAppended
<1>4. /\ b = << >> \/ IsCode(b)
      /\ BranchesToLabel(l) => IsCode(b) /\ l.operands.label \in STRING
  BY FourBytes
<1>5. /\ n \in Nat /\ c \in Nat /\ Emitted \subseteq 1 .. n
      /\ \A k \in Emitted : Rank(k) \in Nat /\ Rank(k) < c
  BY <1>1, EmittedFew
<1>6. n + 1 \in Nat /\ n + 1 \notin 1 .. n
  BY <1>5
<1>7. IsCode(b) => b # << >>
  BY NoneOf
<1> HIDE DEF n, b, c
<1>8. \A k \in Emitted : /\ k \in Emitted' /\ source'[k] = source[k] /\ PlaceOf(k)' = PlaceOf(k)
                         /\ FixupOf(k)' = FixupOf(k) /\ k \in 1 .. n
                         /\ k \in Branches' <=> k \in Branches
  BY <1>3, <1>5 DEF PlaceOf, FixupOf, Branches
<1>9. \A k \in Emitted' : k \in Emitted \/ (k = n + 1 /\ IsCode(b))
  BY <1>3, <1>4
<1>10. \A k \in Nat : k = n + 1 => PlaceOf(k)' = 4 * c /\ source'[k] = l
  BY <1>3 DEF PlaceOf
<1>11. Len(b) \in Nat /\ out' \in Seq(Bytes) /\ Len(out') = Len(out) + Len(b)
       /\ (\A i \in 1 .. Len(out) : out'[i] = out[i])
       /\ \A i \in 1 .. Len(b) : out'[Len(out) + i] = b[i]
  <2>1. b \in Seq(Bytes)
    <3>1. CASE b = << >>
      BY <3>1
    <3>2. CASE IsCode(b)
      BY <3>2 DEF IsCode
    <3> QED BY <1>4, <3>1, <3>2
  <2>2. /\ out \o b \in Seq(Bytes) /\ Len(out \o b) = Len(out) + Len(b)
        /\ \A i \in 1 .. Len(out) : (out \o b)[i] = out[i]
        /\ \A i \in 1 .. Len(b) : (out \o b)[Len(out) + i] = b[i]
    <3>1. \A s, t \in Seq(Bytes) :
            /\ s \o t \in Seq(Bytes) /\ Len(s \o t) = Len(s) + Len(t)
            /\ \A i \in 1 .. Len(s) : (s \o t)[i] = s[i]
            /\ \A i \in 1 .. Len(t) : (s \o t)[Len(s) + i] = t[i]
      BY Joined
    <3>2. out \in Seq(Bytes)
      BY <1>1
    <3> QED BY <2>1, <3>1, <3>2, Zenon
  <2>3. Len(b) \in Nat
    BY <2>1
  <2> QED BY <1>2, <2>2, <2>3
<1>12. AsmTypes'
  <2>1. Len(out') = 4 * Cardinality(Emitted)'
    <3>1. CASE b = << >>
      BY <1>1, <1>3, <1>5, <1>11, <3>1
    <3>2. CASE IsCode(b)
      <4>1. Len(b) = 4
        BY <3>2 DEF IsCode
      <4> QED BY <1>1, <1>3, <1>5, <1>7, <1>11, <3>2, <4>1
    <3> QED BY <1>4, <3>1, <3>2
  <2>2. pc' = Len(out')
    BY <1>1, <1>2, <1>11
  <2>3. \A j \in DOMAIN labels : labels[j].pc <= pc'
    <3>1. \A j \in DOMAIN labels : labels[j].pc \in Nat
      <4>1. \A j \in DOMAIN labels : labels[j] \in [name : STRING, pc : Nat]
        BY <1>1, ElementOf
      <4> QED BY <4>1
    <3> QED BY <1>1, <1>2, <1>5, <1>11, <3>1, SMTT(30)
  <2>4. /\ fixups' \in Seq([name : STRING, pc : Nat, offset : Nat])
        /\ fixing' \in 1 .. Len(fixups') + 1 /\ reported' \subseteq DOMAIN fixups'
    <3>1. CASE ~BranchesToLabel(l)
      <4>1. fixups' = fixups
        BY <1>2, <3>1
      <4> QED BY <1>1, <1>2, <4>1
    <3>2. CASE BranchesToLabel(l)
      <4> DEFINE f == [name |-> l.operands.label, pc |-> pc, offset |-> Len(out)]
      <4>1. f \in [name : STRING, pc : Nat, offset : Nat]
        BY <1>1, <1>4, <1>5, <3>2
      <4>2. fixups' = Append(fixups, f)
        BY <1>2, <3>2
      <4> HIDE DEF f
      <4>3. /\ fixups' \in Seq([name : STRING, pc : Nat, offset : Nat])
            /\ DOMAIN fixups' = 1 .. Len(fixups) + 1 /\ Len(fixups') = Len(fixups) + 1
            /\ DOMAIN fixups = 1 .. Len(fixups) /\ Len(fixups) \in Nat
        BY <1>1, <4>1, <4>2, Appended
      <4>4. 1 .. Len(fixups) \subseteq 1 .. Len(fixups) + 1
        BY <4>3
      <4> QED BY <1>1, <1>2, <4>3, <4>4
    <3> QED BY <3>1, <3>2
  <2>5. \A j \in DOMAIN labels' : labels'[j].pc <= pc'
    BY <1>2, <2>3
  <2>6. labels' \in Seq([name : STRING, pc : Nat])
    BY <1>1, <1>2
  <2>7. phase' = "assembling" /\ fixing' = 1
    BY <1>1, <1>2
  <2> QED BY <1>3, <1>11, <2>1, <2>2, <2>4, <2>5, <2>6, <2>7 DEF AsmTypes
<1>13. RanksCover'
  <2> SUFFICES ASSUME NEW m \in Nat, m < Cardinality(Emitted)' PROVE \E k \in Emitted' : Rank(k)' = m
    BY DEF RanksCover
  <2>1. CASE m < c
    <3>1. PICK k \in Emitted : Rank(k) = m
      BY <2>1 DEF AsmInv, RanksCover, c
    <3> QED BY <1>3, <1>8, <3>1
  <2>2. CASE ~(m < c)
    <3>1. b # << >> /\ m = c
      BY <1>3, <1>5, <2>2
    <3> QED BY <1>3, <1>6, <3>1
  <2> QED BY <2>1, <2>2
<1>14. LabelsStand'
  <2> SUFFICES ASSUME NEW name \in STRING
               PROVE  /\ Found(name)' = {} <=> Labelled(name)' = {}
                      /\ Found(name)' # {} => find_label(name)'.pc = LabelPlace(name)'
    BY DEF LabelsStand
  <2>1. Found(name)' = Found(name) /\ find_label(name)' = find_label(name)
    BY <1>2 DEF Found, find_label
  <2>2. Labelled(name)' = Labelled(name)
    BY <1>1, <1>2, <1>3, <1>5 DEF Labelled, n
  <2>3. Labelled(name) # {} => LabelPlace(name)' = LabelPlace(name)
    <3> SUFFICES ASSUME Labelled(name) # {} PROVE LabelPlace(name)' = LabelPlace(name)
      OBVIOUS
    <3>1. PICK k \in 1 .. n : k = Min(Labelled(name))
      BY <1>1, FirstLabelled DEF n
    <3>2. LabelPlace(name)' = 4 * Rank(k)'
      BY <2>2, <3>1 DEF LabelPlace, PlaceOf
    <3>3. LabelPlace(name) = 4 * Rank(k)
      BY <3>1 DEF LabelPlace, PlaceOf
    <3>4. Rank(k)' = Rank(k)
      BY <1>3
    <3> QED BY <3>2, <3>3, <3>4
  <2> QED BY <2>1, <2>2, <2>3 DEF AsmInv, LabelsStand
<1>15. FixupsStand'
  <2>1. /\ \A i \in DOMAIN fixups : \E k \in Branches : fixups[i] = FixupOf(k)
        /\ \A k \in Branches : \E i \in DOMAIN fixups : fixups[i] = FixupOf(k)
        /\ \A i, j \in DOMAIN fixups : fixups[i].pc = fixups[j].pc => i = j
    BY DEF AsmInv, FixupsStand
  <2>2. Branches \subseteq Emitted
    BY DEF Branches
  <2>3. CASE ~BranchesToLabel(l)
    <3>1. fixups' = fixups
      BY <1>2, <2>3
    <3>2. Branches' = Branches
      <4>1. n + 1 \notin Branches'
        BY <1>3, <2>3 DEF Branches
      <4>2. Branches' \subseteq Emitted'
        BY DEF Branches
      <4> QED BY <1>8, <1>9, <2>2, <4>1, <4>2
    <3>3. \A k \in Branches : FixupOf(k)' = FixupOf(k)
      BY <1>8, <2>2
    <3> QED BY <2>1, <3>1, <3>2, <3>3 DEF FixupsStand
  <2>4. CASE BranchesToLabel(l)
    <3> DEFINE f == [name |-> l.operands.label, pc |-> pc, offset |-> Len(out)]
    <3>1. f \in [name : STRING, pc : Nat, offset : Nat] /\ f.pc = 4 * c
      BY <1>1, <1>4, <1>5, <2>4
    <3>2. fixups' = Append(fixups, f)
      BY <1>2, <2>4
    <3>3. \A k \in Nat : k = n + 1 => k \in Branches' /\ FixupOf(k)' = f
      <4> SUFFICES ASSUME NEW k \in Nat, k = n + 1 PROVE k \in Branches' /\ FixupOf(k)' = f
        OBVIOUS
      <4>1. k \in Emitted' /\ source'[k] = l
        BY <1>3, <1>4, <1>7, <2>4
      <4>2. PlaceOf(k)' = 4 * c
        BY <1>10
      <4>3. FixupOf(k)' = [name |-> l.operands.label, pc |-> 4 * c, offset |-> 4 * c]
        BY <4>1, <4>2 DEF FixupOf
      <4> QED BY <1>1, <2>4, <4>1, <4>3 DEF Branches
    <3> HIDE DEF f
    <3>4. /\ DOMAIN fixups' = 1 .. Len(fixups) + 1 /\ DOMAIN fixups = 1 .. Len(fixups)
          /\ Len(fixups) \in Nat /\ fixups'[Len(fixups) + 1] = f
          /\ \A i \in 1 .. Len(fixups) : fixups'[i] = fixups[i]
      BY <1>1, <3>1, <3>2, Appended
    <3>5. \A i \in DOMAIN fixups : fixups[i].pc < 4 * c
      <4> SUFFICES ASSUME NEW i \in DOMAIN fixups PROVE fixups[i].pc < 4 * c
        OBVIOUS
      <4>1. PICK k \in Branches : fixups[i] = FixupOf(k)
        BY <2>1
      <4>2. fixups[i].pc = 4 * Rank(k)
        BY <4>1 DEF FixupOf, PlaceOf
      <4>3. Rank(k) \in Nat /\ Rank(k) < c
        BY <1>5, <2>2
      <4> QED BY <1>5, <4>2, <4>3
    <3>6. \A i \in DOMAIN fixups' : i \in DOMAIN fixups \/ i = Len(fixups) + 1
      BY <3>4
    <3>7. ASSUME NEW i \in DOMAIN fixups' PROVE \E k \in Branches' : fixups'[i] = FixupOf(k)'
      <4>1. CASE i \in DOMAIN fixups
        <5>1. PICK k \in Branches : fixups[i] = FixupOf(k)
          BY <2>1, <4>1
        <5> QED BY <1>8, <2>2, <3>4, <4>1, <5>1
      <4>2. CASE i = Len(fixups) + 1
        BY <1>6, <3>3, <3>4, <4>2
      <4> QED BY <3>6, <4>1, <4>2
    <3>8. ASSUME NEW k \in Branches' PROVE \E i \in DOMAIN fixups' : fixups'[i] = FixupOf(k)'
      <4>1. k \in Emitted'
        BY DEF Branches
      <4>2. CASE k \in Emitted
        <5>1. PICK i \in DOMAIN fixups : fixups[i] = FixupOf(k)
          BY <1>8, <2>1, <4>2
        <5>2. i \in DOMAIN fixups' /\ fixups'[i] = fixups[i]
          BY <3>4
        <5> QED BY <1>8, <4>2, <5>1, <5>2
      <4>3. CASE k = n + 1
        <5>1. Len(fixups) + 1 \in DOMAIN fixups'
          BY <3>4
        <5> QED BY <1>6, <3>3, <3>4, <4>3, <5>1
      <4> QED BY <1>9, <4>1, <4>2, <4>3
    <3>9. ASSUME NEW i \in DOMAIN fixups', NEW j \in DOMAIN fixups', fixups'[i].pc = fixups'[j].pc
          PROVE  i = j
      <4>1. CASE i \in DOMAIN fixups /\ j \in DOMAIN fixups
        BY <2>1, <3>4, <3>9, <4>1
      <4>2. CASE i = Len(fixups) + 1 /\ j = Len(fixups) + 1
        BY <4>2
      <4>3. CASE i \in DOMAIN fixups /\ j = Len(fixups) + 1
        <5>1. fixups[i].pc < 4 * c /\ fixups[i].pc = 4 * c
          BY <3>1, <3>4, <3>5, <3>9, <4>3
        <5> QED BY <1>5, <5>1
      <4>4. CASE j \in DOMAIN fixups /\ i = Len(fixups) + 1
        <5>1. fixups[j].pc < 4 * c /\ fixups[j].pc = 4 * c
          BY <3>1, <3>4, <3>5, <3>9, <4>4
        <5> QED BY <1>5, <5>1
      <4> QED BY <3>6, <4>1, <4>2, <4>3, <4>4
    <3> QED BY <3>7, <3>8, <3>9 DEF FixupsStand
  <2> QED BY <2>3, <2>4
<1>16. FixupsDone'
  <2>1. \A i : ~(i \in reported)
    <3>1. \A i \in DOMAIN fixups : ~(i < 1)
      BY <1>1
    <3> QED BY <1>1, <3>1 DEF AsmInv, FixupsDone
  <2>2. fixups' \in Seq([name : STRING, pc : Nat, offset : Nat])
    BY <1>12 DEF AsmTypes
  <2>3. \A i \in DOMAIN fixups' : ~(i < fixing')
    BY <1>1, <1>2, <2>2
  <2> QED BY <1>2, <2>1, <2>3 DEF FixupsDone
<1>17. LinesWritten'
  <2> SUFFICES ASSUME NEW k \in Emitted', NEW j \in 1 .. 4, j # 3 \/ k \notin Branches'
               PROVE  out'[PlaceOf(k)' + j] = LineBytes(source'[k])[j]
    BY DEF LinesWritten
  <2>1. CASE k \in Emitted
    <3>1. PlaceOf(k) \in Nat /\ PlaceOf(k) + 4 <= 4 * c
      BY <1>1, <2>1, PlacesApart DEF c
    <3>2. PlaceOf(k) + j \in 1 .. Len(out)
      BY <1>1, <1>5, <3>1
    <3>3. out[PlaceOf(k) + j] = LineBytes(source[k])[j]
      BY <1>8, <2>1 DEF AsmInv, LinesWritten
    <3> QED BY <1>8, <1>11, <2>1, <3>2, <3>3
  <2>2. CASE k = n + 1 /\ IsCode(b)
    <3>1. Len(b) = 4
      BY <2>2 DEF IsCode
    <3>2. PlaceOf(k)' = Len(out) /\ source'[k] = l
      BY <1>1, <1>6, <1>10, <2>2
    <3> QED BY <1>11, <3>1, <3>2 DEF b
  <2> QED BY <1>9, <2>1, <2>2
<1> QED BY <1>12, <1>13, <1>14, <1>15, <1>16, <1>17 DEF AsmInv

(* The least of more numbers, when one above them joins.                   *)
LEMMA LeastStays ==
  ASSUME NEW S, S \subseteq Nat, NEW x \in Nat, \A y \in S : y < x
  PROVE  Min(S \cup {x}) = IF S = {} THEN x ELSE Min(S)
<1>1. S \cup {x} \subseteq Nat /\ S \cup {x} # {}
  OBVIOUS
<1>2. CASE S = {}
  <2>1. \A y \in S \cup {x} : x <= y
    BY <1>2
  <2> QED BY <1>1, <1>2, <2>1, LeastOf
<1>3. CASE S # {}
  <2>1. PICK m \in S : \A y \in S : m <= y
    BY <1>3, LeastIn
  <2>2. Min(S) = m
    BY <1>3, <2>1, LeastOf
  <2>3. \A y \in S \cup {x} : m <= y
    BY <2>1
  <2>4. Min(S \cup {x}) = m
    BY <1>1, <2>1, <2>3, LeastOf
  <2> QED BY <1>3, <2>2, <2>4
<1> QED BY <1>2, <1>3

(* A label is assembled.                                                   *)
LEMMA AssembleLabelKeeps ==
  ASSUME AsmInv, NEW l \in Lines, AssembleLabel(l)
  PROVE  AsmInv'
<1> DEFINE n == Len(source)
           c == Cardinality(Emitted)
<1>1. /\ source \in Seq(Lines) /\ out \in Seq(Bytes) /\ Len(out) = 4 * c /\ pc = Len(out)
      /\ labels \in Seq([name : STRING, pc : Nat])
      /\ \A j \in DOMAIN labels : labels[j].pc <= pc
      /\ fixups \in Seq([name : STRING, pc : Nat, offset : Nat])
      /\ fixing = 1 /\ reported \subseteq DOMAIN fixups
  BY DEF AsmInv, AsmTypes, AssembleLabel
<1>2. /\ source' = Append(source, l) /\ labels' = Append(labels, [name |-> l.name, pc |-> pc])
      /\ out' = out /\ pc' = pc /\ fixups' = fixups /\ fixing' = fixing /\ reported' = reported
      /\ phase = "assembling" /\ phase' = phase /\ l.kind = "label"
  BY DEF AssembleLabel
<1>3. LineBytes(l) = << >> /\ ~BranchesToLabel(l) /\ l.name \in STRING
  BY <1>2, LineFields DEF LineBytes, BranchesToLabel
<1>4. /\ source' \in Seq(Lines) /\ Len(source') = n + 1
      /\ \A k \in 1 .. n : source'[k] = source[k]
      /\ source'[n + 1] = l
      /\ Emitted' = Emitted /\ Cardinality(Emitted)' = c
      /\ \A k \in 1 .. n : Rank(k)' = Rank(k)
      /\ \A k \in Nat : k = n + 1 => Rank(k)' = c
  BY <1>1, <1>2, <1>3, LineAppended
<1>5. /\ n \in Nat /\ c \in Nat /\ Emitted \subseteq 1 .. n
      /\ DOMAIN source = 1 .. n
  BY <1>1, EmittedFew
<1>6. DOMAIN source' = 1 .. n + 1
  BY <1>4
<1> HIDE DEF n, c
<1>7. \A k \in Emitted : /\ source'[k] = source[k] /\ PlaceOf(k)' = PlaceOf(k)
                         /\ FixupOf(k)' = FixupOf(k) /\ k \in 1 .. n
                         /\ k \in Branches' <=> k \in Branches
  BY <1>4, <1>5 DEF PlaceOf, FixupOf, Branches
<1>8. Branches' = Branches /\ Branches \subseteq Emitted
  BY <1>4, <1>7 DEF Branches
<1> DEFINE f == [name |-> l.name, pc |-> pc]
<1>9. f \in [name : STRING, pc : Nat] /\ f.name = l.name /\ f.pc = 4 * c
  BY <1>1, <1>3, <1>5
<1>10. labels' = Append(labels, f)
  BY <1>2
<1> HIDE DEF f
<1>11. /\ labels' \in Seq([name : STRING, pc : Nat])
       /\ DOMAIN labels' = 1 .. Len(labels) + 1 /\ DOMAIN labels = 1 .. Len(labels)
       /\ Len(labels) \in Nat /\ labels'[Len(labels) + 1] = f
       /\ \A i \in 1 .. Len(labels) : labels'[i] = labels[i]
  BY <1>1, <1>9, <1>10, Appended
<1>12. \A i \in DOMAIN labels' : i \in DOMAIN labels \/ i = Len(labels) + 1
  BY <1>11
<1>13. AsmTypes'
  <2>1. \A j \in DOMAIN labels' : labels'[j].pc <= pc'
    <3> SUFFICES ASSUME NEW j \in DOMAIN labels' PROVE labels'[j].pc <= pc'
      OBVIOUS
    <3>1. CASE j \in DOMAIN labels
      BY <1>1, <1>2, <1>11, <3>1
    <3>2. CASE j = Len(labels) + 1
      BY <1>1, <1>2, <1>5, <1>9, <1>11, <3>2
    <3> QED BY <1>12, <3>1, <3>2
  <2>2. phase' = "assembling" /\ fixing' = 1
    BY <1>1, <1>2
  <2>3. Len(out') = 4 * Cardinality(Emitted)' /\ pc' = Len(out') /\ out' \in Seq(Bytes)
    BY <1>1, <1>2, <1>4
  <2>4. /\ fixups' \in Seq([name : STRING, pc : Nat, offset : Nat])
        /\ fixing' \in 1 .. Len(fixups') + 1 /\ reported' \subseteq DOMAIN fixups'
    BY <1>1, <1>2
  <2> QED BY <1>4, <1>11, <2>1, <2>2, <2>3, <2>4 DEF AsmTypes
<1>14. RanksCover'
  <2>1. \A k \in Emitted : Rank(k)' = Rank(k)
    BY <1>4, <1>5
  <2> QED BY <1>4, <2>1 DEF AsmInv, RanksCover, c
<1>15. LabelsStand'
  <2> SUFFICES ASSUME NEW name \in STRING
               PROVE  /\ Found(name)' = {} <=> Labelled(name)' = {}
                      /\ Found(name)' # {} => find_label(name)'.pc = LabelPlace(name)'
    BY DEF LabelsStand
  <2>1. /\ Found(name) = {} <=> Labelled(name) = {}
        /\ Found(name) # {} => find_label(name).pc = LabelPlace(name)
    BY DEF AsmInv, LabelsStand
  <2>2. Found(name) \subseteq DOMAIN labels /\ Labelled(name) \subseteq 1 .. n
    BY <1>5 DEF Found, Labelled
  <2>3. Found(name) # {} => /\ Min(Found(name)) \in DOMAIN labels
                            /\ Min(Labelled(name)) \in 1 .. n
    BY <1>1, <2>1, <2>2, FirstFound, FirstLabelled
  <2>4. ASSUME Found(name) # {}, Min(Found(name)') = Min(Found(name)),
               Min(Labelled(name)') = Min(Labelled(name))
        PROVE  find_label(name)'.pc = LabelPlace(name)'
    <3>1. PICK k \in 1 .. n : k = Min(Labelled(name))
      BY <2>3, <2>4
    <3>2. LabelPlace(name)' = 4 * Rank(k)' /\ LabelPlace(name) = 4 * Rank(k)
      BY <2>4, <3>1 DEF LabelPlace, PlaceOf
    <3>3. LabelPlace(name)' = LabelPlace(name)
      BY <1>4, <3>2
    <3>4. find_label(name)' = find_label(name)
      BY <1>11, <2>3, <2>4 DEF find_label
    <3> QED BY <2>1, <2>4, <3>3, <3>4
  <2>5. CASE l.name # name
    <3>1. Found(name)' = Found(name)
      <4>1. \A i \in DOMAIN labels : labels'[i] = labels[i]
        BY <1>11
      <4>2. labels'[Len(labels) + 1].name # name
        BY <1>9, <1>11, <2>5
      <4>3. DOMAIN labels \subseteq DOMAIN labels'
        BY <1>11
      <4> QED BY <1>12, <4>1, <4>2, <4>3 DEF Found
    <3>2. Labelled(name)' = Labelled(name)
      BY <1>4, <1>5, <1>6, <2>5 DEF Labelled
    <3> QED BY <2>1, <2>4, <3>1, <3>2
  <2>6. CASE l.name = name
    <3>1. Found(name)' = Found(name) \cup {Len(labels) + 1}
      <4>1. \A i \in DOMAIN labels : labels'[i] = labels[i]
        BY <1>11
      <4>2. labels'[Len(labels) + 1].name = name /\ Len(labels) + 1 \in DOMAIN labels'
        BY <1>9, <1>11, <2>6
      <4>3. DOMAIN labels \subseteq DOMAIN labels'
        BY <1>11
      <4> QED BY <1>12, <4>1, <4>2, <4>3 DEF Found
    <3>2. Labelled(name)' = Labelled(name) \cup {n + 1}
      BY <1>2, <1>4, <1>5, <1>6, <2>6 DEF Labelled
    <3>3. Min(Found(name)') = IF Found(name) = {} THEN Len(labels) + 1 ELSE Min(Found(name))
      <4>1. Found(name) \subseteq Nat /\ Len(labels) + 1 \in Nat
            /\ \A y \in Found(name) : y < Len(labels) + 1
        BY <1>11, <2>2
      <4> QED BY <3>1, <4>1, LeastStays
    <3>4. Min(Labelled(name)') = IF Labelled(name) = {} THEN n + 1 ELSE Min(Labelled(name))
      <4>1. Labelled(name) \subseteq Nat /\ n + 1 \in Nat /\ \A y \in Labelled(name) : y < n + 1
        <5>1. n + 1 \in Nat /\ \A y \in 1 .. n : y \in Nat /\ y < n + 1
          BY <1>5
        <5> QED BY <2>2, <5>1
      <4> QED BY <3>2, <4>1, LeastStays
    <3>5. CASE Found(name) = {}
      <4>1. PICK k \in Nat : k = n + 1
        BY <1>5
      <4>2. LabelPlace(name)' = 4 * Rank(k)'
        BY <2>1, <3>4, <3>5, <4>1 DEF LabelPlace, PlaceOf
      <4>3. find_label(name)' = f
        BY <1>11, <3>3, <3>5 DEF find_label
      <4> QED BY <1>4, <1>9, <3>1, <3>2, <4>1, <4>2, <4>3
    <3>6. CASE Found(name) # {}
      BY <2>1, <2>4, <3>1, <3>2, <3>3, <3>4, <3>6
    <3> QED BY <3>5, <3>6
  <2> QED BY <2>5, <2>6
<1>16. FixupsStand'
  <2>1. \A k \in Branches : FixupOf(k)' = FixupOf(k)
    BY <1>7, <1>8
  <2> QED BY <1>2, <1>8, <2>1 DEF AsmInv, FixupsStand
<1>17. FixupsDone'
  <2>1. \A i : ~(i \in reported)
    <3>1. \A i \in DOMAIN fixups : ~(i < 1)
      BY <1>1
    <3> QED BY <1>1, <3>1 DEF AsmInv, FixupsDone
  <2>2. \A i \in DOMAIN fixups' : ~(i < fixing')
    BY <1>1, <1>2
  <2> QED BY <1>2, <2>1, <2>2 DEF FixupsDone
<1>18. LinesWritten'
  <2> SUFFICES ASSUME NEW k \in Emitted, NEW j \in 1 .. 4, j # 3 \/ k \notin Branches
               PROVE  out[PlaceOf(k)' + j] = LineBytes(source'[k])[j]
    BY <1>2, <1>4, <1>8 DEF LinesWritten
  <2>1. out[PlaceOf(k) + j] = LineBytes(source[k])[j]
    BY DEF AsmInv, LinesWritten
  <2> QED BY <1>7, <2>1
<1> QED BY <1>13, <1>14, <1>15, <1>16, <1>17, <1>18 DEF AsmInv

(* The phases that come next change nothing else.                          *)
LEMMA PhaseKeeps ==
  ASSUME AsmInv, UNCHANGED <<source, out, pc, labels, fixups, fixing, reported>>,
         phase' \in {"assembling", "fixing", "unlabelled", "listing", "listed", "aborted"},
         phase' = "assembling" => fixing = 1,
         phase' \in {"listing", "listed", "aborted"} => fixing = Len(fixups) + 1
  PROVE  AsmInv'
<1>1. Emitted' = Emitted
  BY DEF Emitted
<1>2. \A k : Rank(k)' = Rank(k)
  BY <1>1 DEF Rank
<1>3. \A k : PlaceOf(k)' = PlaceOf(k)
  BY <1>2 DEF PlaceOf
<1>4. \A k : FixupOf(k)' = FixupOf(k)
  BY <1>3 DEF FixupOf
<1>5. Branches' = Branches
  BY <1>1 DEF Branches
<1>6. \A name : Found(name)' = Found(name) /\ Labelled(name)' = Labelled(name)
  BY DEF Found, Labelled
<1>7. \A name : find_label(name)' = find_label(name)
  BY <1>6 DEF find_label
<1>8. \A name : LabelPlace(name)' = LabelPlace(name)
  <2> SUFFICES ASSUME NEW name PROVE LabelPlace(name)' = LabelPlace(name)
    OBVIOUS
  <2>1. PICK k : k = Min(Labelled(name))
    OBVIOUS
  <2>2. LabelPlace(name)' = PlaceOf(k)'
    BY <1>6, <2>1 DEF LabelPlace, PlaceOf, Rank
  <2> QED BY <1>3, <2>1, <2>2 DEF LabelPlace
<1>9. \A f : Distance(f)' = Distance(f)
  BY <1>7 DEF Distance
<1>10. AsmTypes'
  BY <1>1 DEF AsmInv, AsmTypes
<1>11. RanksCover' /\ LabelsStand' /\ FixupsStand' /\ LinesWritten'
  <2>1. RanksCover'
    BY <1>1, <1>2 DEF AsmInv, RanksCover
  <2>2. LabelsStand'
    BY <1>6, <1>7, <1>8 DEF AsmInv, LabelsStand
  <2>3. FixupsStand'
    BY <1>4, <1>5 DEF AsmInv, FixupsStand
  <2>4. LinesWritten'
    BY <1>1, <1>3, <1>5 DEF AsmInv, LinesWritten
  <2> QED BY <2>1, <2>2, <2>3, <2>4
<1>12. FixupsDone'
  BY <1>6, <1>9 DEF AsmInv, FixupsDone
<1> QED BY <1>10, <1>11, <1>12 DEF AsmInv

(* A fixup is done: the distance takes its byte, which no other line's     *)
(* byte and no other fixup's is.                                           *)
LEMMA FixupKeeps ==
  ASSUME AsmInv, Fixup
  PROVE  AsmInv'
<1> DEFINE f == fixups[fixing]
           x == Distance(f) % ByteMod
           c == Cardinality(Emitted)
<1>1. /\ source \in Seq(Lines) /\ out \in Seq(Bytes) /\ Len(out) = 4 * c /\ pc = Len(out)
      /\ labels \in Seq([name : STRING, pc : Nat])
      /\ \A j \in DOMAIN labels : labels[j].pc <= pc
      /\ fixups \in Seq([name : STRING, pc : Nat, offset : Nat])
      /\ fixing \in 1 .. Len(fixups) + 1 /\ reported \subseteq DOMAIN fixups
      /\ phase \in {"assembling", "fixing", "unlabelled", "listing", "listed", "aborted"}
  BY DEF AsmInv, AsmTypes
<1>2. /\ phase = "fixing" /\ fixing <= Len(fixups)
      /\ Found(f.name) # {}
      /\ reported' = IF InRange(Distance(f)) THEN reported ELSE reported \cup {fixing}
      /\ out' = [out EXCEPT ![f.offset + 3] = x]
      /\ fixing' = fixing + 1
      /\ source' = source /\ pc' = pc /\ labels' = labels /\ fixups' = fixups /\ phase' = phase
  BY DEF Fixup, Distance
<1>3. Len(fixups) \in Nat /\ DOMAIN fixups = 1 .. Len(fixups) /\ fixing \in DOMAIN fixups
  BY <1>1, <1>2
<1>4. PICK k0 \in Branches : f = FixupOf(k0)
  BY <1>3 DEF AsmInv, FixupsStand
<1>5. k0 \in Emitted /\ f.offset = PlaceOf(k0) /\ f.pc = PlaceOf(k0)
  BY <1>4 DEF Branches, FixupOf
<1>6. /\ \A k \in Emitted : PlaceOf(k) \in Nat /\ PlaceOf(k) + 4 <= Len(out)
      /\ \A j, k \in Emitted : \A y, z \in 1 .. 4 :
           PlaceOf(j) + y = PlaceOf(k) + z => j = k /\ y = z
      /\ Len(out) \in Nat
  BY <1>1, PlacesApart
<1>7. Distance(f) \in Int /\ x \in Bytes
  <2>1. find_label(f.name).pc \in Nat
    BY <1>1, <1>2, FirstFound
  <2>2. f.pc \in Nat
    BY <1>5, <1>6
  <2>3. Distance(f) \in Int
    BY <2>1, <2>2 DEF Distance
  <2> HIDE DEF f
  <2> QED BY <2>3, ByteAssumption DEF Bytes
<1>8. \A name : Found(name)' = Found(name) /\ Labelled(name)' = Labelled(name)
  BY <1>2 DEF Found, Labelled
<1>9. \A name : find_label(name)' = find_label(name)
  BY <1>2 DEF find_label, Found
<1>10. \A g : Distance(g)' = Distance(g)
  BY <1>9 DEF Distance
<1>11. Emitted' = Emitted
  BY <1>2 DEF Emitted
<1>12. \A k : Rank(k)' = Rank(k)
  BY <1>11 DEF Rank
<1>13. \A k : PlaceOf(k)' = PlaceOf(k)
  BY <1>12 DEF PlaceOf
<1>14. Branches' = Branches /\ \A k : FixupOf(k)' = FixupOf(k)
  BY <1>2, <1>11, <1>13 DEF Branches, FixupOf
<1>15. \A name : LabelPlace(name)' = LabelPlace(name)
  <2> SUFFICES ASSUME NEW name PROVE LabelPlace(name)' = LabelPlace(name)
    OBVIOUS
  <2>1. PICK k : k = Min(Labelled(name))
    OBVIOUS
  <2>2. LabelPlace(name)' = PlaceOf(k)'
    BY <1>8, <2>1 DEF LabelPlace, PlaceOf, Rank
  <2> QED BY <1>13, <2>1, <2>2 DEF LabelPlace
<1> HIDE DEF f, x, c
<1>16. /\ out' \in Seq(Bytes) /\ Len(out') = Len(out)
       /\ out'[PlaceOf(k0) + 3] = x
       /\ \A m \in 1 .. Len(out) : m # PlaceOf(k0) + 3 => out'[m] = out[m]
  <2>1. PlaceOf(k0) + 3 \in 1 .. Len(out)
    BY <1>5, <1>6
  <2> QED BY <1>1, <1>2, <1>5, <1>7, <2>1
<1>17. AsmTypes'
  <2>1. fixing' \in 1 .. Len(fixups') + 1 /\ reported' \subseteq DOMAIN fixups'
    BY <1>1, <1>2, <1>3, SMTT(30)
  <2>2. Len(out') = 4 * Cardinality(Emitted)' /\ pc' = Len(out')
    BY <1>1, <1>2, <1>11, <1>16 DEF c
  <2> QED BY <1>1, <1>2, <1>16, <2>1, <2>2 DEF AsmTypes
<1>18. RanksCover' /\ LabelsStand' /\ FixupsStand'
  <2>1. RanksCover'
    BY <1>11, <1>12 DEF AsmInv, RanksCover
  <2>2. LabelsStand'
    BY <1>8, <1>9, <1>15 DEF AsmInv, LabelsStand
  <2>3. FixupsStand'
    BY <1>2, <1>14 DEF AsmInv, FixupsStand
  <2> QED BY <2>1, <2>2, <2>3
<1>19. FixupsDone'
  <2>0. fixing \in Nat /\ (\A i \in DOMAIN fixups : i \in Nat) /\ fixing' = fixing + 1
    BY <1>2, <1>3
  <2>1. \A i \in DOMAIN fixups : i < fixing' <=> (i < fixing \/ i = fixing)
    <3>1. \A i, m \in Nat : i < m + 1 <=> (i < m \/ i = m)
      OBVIOUS
    <3> QED BY <2>0, <3>1
  <2>2. ~(fixing < fixing)
    BY <2>0
  <2>3. ASSUME NEW i \in DOMAIN fixups, i < fixing'
        PROVE  /\ Found(fixups[i].name) # {}
               /\ out'[fixups[i].pc + 3] = Distance(fixups[i]) % ByteMod
    <3>1. CASE i = fixing
      BY <1>2, <1>5, <1>16, <3>1 DEF f, x
    <3>2. CASE i < fixing
      <4>1. /\ Found(fixups[i].name) # {}
            /\ out[fixups[i].pc + 3] = Distance(fixups[i]) % ByteMod
        BY <3>2 DEF AsmInv, FixupsDone
      <4>2. PICK k \in Branches : fixups[i] = FixupOf(k)
        BY DEF AsmInv, FixupsStand
      <4>3. k \in Emitted /\ fixups[i].pc = PlaceOf(k)
        BY <4>2 DEF Branches, FixupOf
      <4>4. fixups[i].pc = f.pc => i = fixing
        BY <1>3 DEF AsmInv, FixupsStand, f
      <4>5. k # k0
        BY <1>5, <2>2, <3>2, <4>3, <4>4
      <4>6. PlaceOf(k) + 3 # PlaceOf(k0) + 3
        BY <1>5, <1>6, <4>3, <4>5
      <4>7. PlaceOf(k) + 3 \in 1 .. Len(out)
        BY <1>6, <4>3
      <4> QED BY <1>16, <4>1, <4>3, <4>6, <4>7
    <3> QED BY <2>1, <2>3, <3>1, <3>2
  <2>4. ASSUME NEW i \in DOMAIN fixups
        PROVE  i \in reported' <=> i < fixing' /\ ~InRange(Distance(fixups[i]))
    <3>1. i \in reported <=> i < fixing /\ ~InRange(Distance(fixups[i]))
      BY DEF AsmInv, FixupsDone
    <3>2. CASE i = fixing
      BY <1>2, <2>1, <2>2, <3>1, <3>2 DEF f
    <3>3. CASE i # fixing
      BY <1>2, <2>1, <3>1, <3>3
    <3> QED BY <3>2, <3>3
  <2> QED BY <1>2, <1>8, <1>10, <2>3, <2>4 DEF FixupsDone
<1>20. LinesWritten'
  <2> SUFFICES ASSUME NEW k \in Emitted, NEW j \in 1 .. 4, j # 3 \/ k \notin Branches
               PROVE  out'[PlaceOf(k) + j] = LineBytes(source[k])[j]
    BY <1>2, <1>11, <1>13, <1>14 DEF LinesWritten
  <2>1. PlaceOf(k) + j # PlaceOf(k0) + 3
    BY <1>4, <1>5, <1>6
  <2>2. PlaceOf(k) + j \in 1 .. Len(out)
    BY <1>6
  <2>3. out[PlaceOf(k) + j] = LineBytes(source[k])[j]
    BY DEF AsmInv, LinesWritten
  <2> QED BY <1>16, <2>1, <2>2, <2>3
<1> QED BY <1>17, <1>18, <1>19, <1>20 DEF AsmInv

(* An empty source.                                                        *)
LEMMA AsmInvInit == AsmInit => AsmInv
<1> SUFFICES ASSUME AsmInit PROVE AsmInv
  OBVIOUS
<1>1. /\ source = << >> /\ out = << >> /\ pc = 0 /\ labels = << >> /\ fixups = << >>
      /\ fixing = 1 /\ reported = {} /\ phase = "assembling"
  BY DEF AsmInit
<1>2. DOMAIN source = {} /\ DOMAIN labels = {} /\ DOMAIN fixups = {}
  BY <1>1
<1>3. Emitted = {} /\ Branches = {}
  BY <1>2 DEF Emitted, Branches
<1>4. Cardinality(Emitted) = 0
  BY <1>3, FS_EmptySet
<1>5. \A name : Found(name) = {} /\ Labelled(name) = {}
  BY <1>2 DEF Found, Labelled
<1>6. AsmTypes
  BY <1>1, <1>4 DEF AsmTypes
<1>7. RanksCover
  BY <1>4 DEF RanksCover
<1>8. LabelsStand /\ FixupsStand /\ FixupsDone /\ LinesWritten
  BY <1>1, <1>2, <1>3, <1>5 DEF LabelsStand, FixupsStand, FixupsDone, LinesWritten
<1> QED BY <1>6, <1>7, <1>8 DEF AsmInv

(* Every step of the assembler and of the disassembler keeps the           *)
(* assembler's invariant.                                                  *)
LEMMA AsmInvNext ==
  ASSUME LinesGiven, AsmInv, [ListingNext]_listingVars
  PROVE  AsmInv'
<1>1. source \in Seq(Lines)
  BY DEF AsmInv, AsmTypes
<1>2. \A l \in NextLines(source) : l \in Lines
  BY <1>1 DEF LinesGiven
<1>3. /\ phase \in {"assembling", "fixing", "unlabelled", "listing", "listed", "aborted"}
      /\ phase = "assembling" => fixing = 1
      /\ phase \in {"listing", "listed", "aborted"} => fixing = Len(fixups) + 1
      /\ fixing \in 1 .. Len(fixups) + 1 /\ Len(fixups) \in Nat
  BY DEF AsmInv, AsmTypes
<1>4. CASE \E l \in NextLines(source) : AssembleInst(l) \/ AssembleLabel(l)
  BY <1>2, <1>4, AssembleInstKeeps, AssembleLabelKeeps
<1>5. CASE AssembleEnd
  BY <1>5, PhaseKeeps DEF AssembleEnd
<1>6. CASE FixupUnlabelled
  BY <1>6, PhaseKeeps DEF FixupUnlabelled
<1>7. CASE Fixup
  BY <1>7, FixupKeeps
<1>8. CASE FixupEnd
  <2>1. fixing = Len(fixups) + 1
    BY <1>3, <1>8 DEF FixupEnd
  <2> QED BY <1>8, <2>1, PhaseKeeps DEF FixupEnd
<1>9. CASE ListEnd
  BY <1>3, <1>9, PhaseKeeps DEF ListEnd
<1>10. CASE ListInteger \/ ListOther
  BY <1>3, <1>10, PhaseKeeps DEF ListInteger, ListOther, asmVars
<1>11. CASE ListAbort
  BY <1>3, <1>11, PhaseKeeps DEF ListAbort
<1>12. CASE UNCHANGED listingVars
  BY <1>3, <1>12, PhaseKeeps DEF listingVars, asmVars
<1> QED BY <1>4, <1>5, <1>6, <1>7, <1>8, <1>9, <1>10, <1>11, <1>12
        DEF ListingNext, AsmNext, FixupTurn, ListTurn

(* So it holds in every state.                                             *)
LEMMA AsmInvariant ==
  ASSUME LinesGiven
  PROVE  ListingSpec => []AsmInv
<1>1. ListingInit => AsmInv
  BY AsmInvInit DEF ListingInit
<1>2. AsmInv /\ [ListingNext]_listingVars => AsmInv'
  BY AsmInvNext
<1> QED BY <1>1, <1>2, PTL DEF ListingSpec

-----------------------------------------------------------------------------
(* The branches land *)

(* A number is its quotient and its remainder.                             *)
LEMMA Whole ==
  ASSUME NEW x \in Int, NEW m \in Nat, m > 0
  PROVE  x = (x \div m) * m + (x % m) /\ x \div m \in Int
<1>1. x \div m \in Int /\ x % m \in Int
  OBVIOUS
<1>2. x = m * (x \div m) + (x % m)
  OBVIOUS
<1>3. m * (x \div m) = (x \div m) * m
  BY <1>1
<1> QED BY <1>1, <1>2, <1>3

(* A distance comes out of its byte when, and only when, it fits.          *)
LEMMA DistanceRead ==
  ASSUME NEW r \in Int
  PROVE  SignedIn(r % ByteMod, ByteMod) = r <=> InRange(r)
<1> DEFINE u == r % ByteMod
           h == HighBit
<1>1. h \in Nat /\ ByteMod \in Nat /\ ByteMod > 1 /\ ByteMod = h + h
  <2>1. ByteMod \in Nat /\ ByteMod > 1 /\ ByteMod = HighBit + HighBit
    BY ByteAssumption, HighBitAssumption
  <2>2. ByteMod \div 2 \in Nat
    BY <2>1, Divided
  <2> QED BY <2>1, <2>2 DEF HighBit
<1>2. u \in 0 .. ByteMod - 1
  BY <1>1
<1>3. SignedIn(u, ByteMod) = IF u >= h THEN u - ByteMod ELSE u
  BY DEF SignedIn, HighBit
<1>4. InRange(r) <=> r >= -h /\ r < h
  BY DEF InRange
<1>5. \E q \in Int : r = q * ByteMod + u
  <2>1. r = (r \div ByteMod) * ByteMod + u /\ r \div ByteMod \in Int
    <3>1. ByteMod \in Nat /\ ByteMod > 0
      BY <1>1
    <3> HIDE DEF h
    <3>2. r = (r \div ByteMod) * ByteMod + (r % ByteMod) /\ r \div ByteMod \in Int
      BY <3>1, Whole
    <3> QED BY <3>2
  <2> QED BY <2>1
<1> HIDE DEF u, h
<1>6. ASSUME InRange(r) PROVE SignedIn(u, ByteMod) = r
  <2>1. PICK q \in Int : r = q * ByteMod + u
    BY <1>5
  <2>2. r >= -h /\ r < h
    BY <1>4, <1>6
  <2>3. q \in {-1, 0}
    <3>1. CASE q >= 1
      <4>1. q * ByteMod >= ByteMod
        BY <1>1, <3>1
      <4> QED BY <1>1, <1>2, <2>1, <2>2, <4>1
    <3>2. CASE q <= -2
      <4>1. q * ByteMod <= (-2) * ByteMod
        BY <1>1, <3>2
      <4> QED BY <1>1, <1>2, <2>1, <2>2, <4>1
    <3> QED BY <2>1, <3>1, <3>2
  <2>4. CASE q = 0
    BY <1>1, <1>2, <1>3, <2>1, <2>2, <2>4
  <2>5. CASE q = -1
    BY <1>1, <1>2, <1>3, <2>1, <2>2, <2>5
  <2> QED BY <2>3, <2>4, <2>5
<1>7. ASSUME SignedIn(u, ByteMod) = r PROVE InRange(r)
  BY <1>1, <1>2, <1>3, <1>4, <1>7
<1> QED BY <1>6, <1>7 DEF u

(* Once the fixups are done, the byte of each branch is the distance from  *)
(* its place to the label's, and the branch was reported if that is too    *)
(* long.                                                                   *)
LEMMA BranchFixed ==
  ASSUME AsmInv, phase \in {"listing", "listed", "aborted"}, NEW k \in Branches
  PROVE  LET r == LabelPlace(source[k].operands.label) - PlaceOf(k) IN
           /\ r \in Int /\ PlaceOf(k) \in Nat /\ LabelPlace(source[k].operands.label) \in Nat
           /\ out[PlaceOf(k) + 3] = r % ByteMod
           /\ (\E i \in reported : fixups[i].pc = PlaceOf(k)) <=> ~InRange(r)
<1> DEFINE name == source[k].operands.label
           r == LabelPlace(name) - PlaceOf(k)
<1>1. /\ source \in Seq(Lines) /\ labels \in Seq([name : STRING, pc : Nat])
      /\ fixing = Len(fixups) + 1 /\ reported \subseteq DOMAIN fixups
      /\ fixups \in Seq([name : STRING, pc : Nat, offset : Nat])
  BY DEF AsmInv, AsmTypes
<1>2. PICK i \in DOMAIN fixups : fixups[i] = FixupOf(k)
  BY DEF AsmInv, FixupsStand
<1>3. fixups[i].name = name /\ fixups[i].pc = PlaceOf(k)
  BY <1>2 DEF FixupOf
<1>4. i < fixing
  BY <1>1
<1>5. k \in Emitted /\ k \in DOMAIN source /\ BranchesToLabel(source[k])
  BY DEF Branches, Emitted
<1>6. name \in STRING
  <2>1. source[k] \in Lines
    BY <1>1, <1>5, ElementOf
  <2> QED BY <1>5, <2>1, FourBytes
<1>7. Found(name) # {}
  BY <1>3, <1>4 DEF AsmInv, FixupsDone
<1>8. find_label(name).pc = LabelPlace(name) /\ find_label(name).pc \in Nat
  BY <1>1, <1>6, <1>7, FirstFound DEF AsmInv, LabelsStand
<1>9. PlaceOf(k) \in Nat
  BY <1>1, <1>5, PlacesApart
<1>10. Distance(fixups[i]) = r
  BY <1>3, <1>8 DEF Distance
<1>11. out[PlaceOf(k) + 3] = r % ByteMod
  BY <1>3, <1>4, <1>10 DEF AsmInv, FixupsDone
<1>12. i \in reported <=> ~InRange(r)
  BY <1>4, <1>10 DEF AsmInv, FixupsDone
<1>13. \A j \in reported : fixups[j].pc = PlaceOf(k) => j = i
  BY <1>1, <1>3 DEF AsmInv, FixupsStand
<1>14. r \in Int
  BY <1>8, <1>9
<1> HIDE DEF r
<1>15. (\E j \in reported : fixups[j].pc = PlaceOf(k)) <=> ~InRange(r)
  BY <1>3, <1>12, <1>13
<1> QED BY <1>8, <1>9, <1>11, <1>14, <1>15 DEF r

(* Whatever the lines are: when the file is written, each branch goes to   *)
(* its label's place, forwards or backwards, unless asm_fixup reported it, *)
(* and it reported no other (BranchesLand).                                *)
THEOREM AssembledBranchesLand ==
  ASSUME LinesGiven
  PROVE  ListingSpec => []BranchesLand
<1>1. ASSUME AsmInv PROVE BranchesLand
  <2> SUFFICES ASSUME phase = "listing", NEW k \in Emitted, BranchesToLabel(source[k])
               PROVE  LET lands == PlaceOf(k) + SignedIn(out[PlaceOf(k) + 3], ByteMod)
                                     = LabelPlace(source[k].operands.label)
                          told == \E i \in reported : fixups[i].pc = PlaceOf(k)
                      IN lands <=> ~told
    BY DEF BranchesLand
  <2> DEFINE to == LabelPlace(source[k].operands.label)
             r == to - PlaceOf(k)
             v == SignedIn(r % ByteMod, ByteMod)
  <2>1. k \in Branches
    BY DEF Branches
  <2>2. /\ r \in Int /\ PlaceOf(k) \in Nat /\ to \in Nat
        /\ out[PlaceOf(k) + 3] = r % ByteMod
        /\ (\E i \in reported : fixups[i].pc = PlaceOf(k)) <=> ~InRange(r)
    BY <1>1, <2>1, BranchFixed
  <2>3. v = r <=> InRange(r)
    BY <2>2, DistanceRead
  <2>4. PlaceOf(k) + v = to <=> v = r
    <3>1. r % ByteMod \in Int
      BY <2>2, ByteAssumption
    <3>2. v \in Int
      BY <3>1, ByteAssumption DEF SignedIn
    <3> HIDE DEF v
    <3> QED BY <2>2, <3>2
  <2> QED BY <2>2, <2>3, <2>4
<1>2. ListingSpec => []AsmInv
  BY AsmInvariant
<1> QED BY <1>1, <1>2, PTL

-----------------------------------------------------------------------------
(* What is run and what is listed *)

(* What the encoder writes for an integer instruction.                     *)
LEMMA PlainBytes ==
  ASSUME NEW e \in Entries, NEW o, Distinct(e), Encode(e, o) # << >>
  PROVE  /\ Encode(e, o)[1] = 0
         /\ \/ /\ e.format = "R4R4I8O8_IFHBS" /\ o.imm
               /\ Encode(e, o)[2] = Pack(o.d, o.a) /\ Encode(e, o)[3] = o.b % ByteMod
               /\ Encode(e, o)[4] = e.op + HighBit
            \/ /\ e.format = "R4R4I8O8_IFHBS" /\ ~o.imm
               /\ Encode(e, o)[2] = Pack(o.d, o.a) /\ Encode(e, o)[3] = Pack(o.b, o.c)
               /\ Encode(e, o)[4] = e.op
            \/ e.format = "U16O8" /\ Encode(e, o)[4] = e.op
            \/ /\ e.format = "R4U4RA8O8"
               /\ Encode(e, o)[2] = Pack(o.d, o.c) /\ Encode(e, o)[3] = o.b % ByteMod
               /\ Encode(e, o)[4] = e.op
            \/ /\ e.format = "R4R4R4R4"
               /\ Encode(e, o)[2] = Pack(o.d, o.a) /\ Encode(e, o)[3] = Pack(o.b, o.c)
               /\ Encode(e, o)[4] = e.op
<1>1. e.format \in IntegerFormats
  BY DEF Distinct, Cb0, FloatFormats
<1>2. e.format # "F4F4F4F4"
  BY <1>1 DEF IntegerFormats
<1>3. ASSUME NEW w, NEW x, NEW y, NEW z
      PROVE  /\ <<w, x, y, z>>[1] = w /\ <<w, x, y, z>>[2] = x
             /\ <<w, x, y, z>>[3] = y /\ <<w, x, y, z>>[4] = z
  OBVIOUS
<1>4. CASE e.format = "R4R4I8O8_IFHBS" /\ o.imm
  <2>1. Encode(e, o) = <<0, Pack(o.d, o.a), o.b % ByteMod, e.op + HighBit>>
    BY <1>4, Encoded
  <2> QED BY <1>3, <1>4, <2>1
<1>5. CASE e.format = "R4R4I8O8_IFHBS" /\ ~o.imm
  <2>1. Encode(e, o) = <<0, Pack(o.d, o.a), Pack(o.b, o.c), e.op>>
    BY <1>5, Encoded
  <2> QED BY <1>3, <1>5, <2>1
<1>6. CASE e.format = "U16O8"
  <2>1. Encode(e, o) = <<0, 0, 0, e.op>>
    BY <1>6, Encoded
  <2> QED BY <1>3, <1>6, <2>1
<1>7. CASE e.format = "R4U4RA8O8"
  <2>1. Encode(e, o) = <<0, Pack(o.d, o.c), o.b % ByteMod, e.op>>
    BY <1>7, Encoded
  <2> QED BY <1>3, <1>7, <2>1
<1>8. CASE e.format = "R4R4R4R4"
  <2>1. Encode(e, o) = <<0, Pack(o.d, o.a), Pack(o.b, o.c), e.op>>
    BY <1>8, Encoded
  <2> QED BY <1>3, <1>8, <2>1
<1>9. e.format \in {"R4R4I8O8_IFHBS", "U16O8", "R4U4RA8O8", "R4R4R4R4"}
  BY <1>2, Encoded
<1> QED BY <1>4, <1>5, <1>6, <1>7, <1>8, <1>9

(* The table's first entry for the bytes of an integer instruction is that *)
(* instruction's, for the simulator and for the disassembler.              *)
LEMMA PlainFound ==
  ASSUME NEW e \in Entries, Distinct(e), NEW id, id[0] = 0,
         id[3] = e.op \/ (e.format = "R4R4I8O8_IFHBS" /\ id[3] = e.op + HighBit)
  PROVE  Dispatch(id) = e /\ Listed(id[3]) = e
<1>1. Distinct(NoInst) = FALSE
  BY DEF Distinct, Cb0, NoInst, IntegerFormats, FloatFormats
<1>2. PICK j \in DOMAIN InstTable : e = InstTable[j]
  BY <1>1 DEF Entries
<1>3. DOMAIN InstTable \subseteq Nat /\ \A i \in DOMAIN InstTable : i >= 1
  <2>1. DOMAIN InstTable = 1 .. Len(InstTable) /\ Len(InstTable) \in Nat
    BY OpcodeAssumption, ElementOf
  <2> QED BY <2>1
<1>4. \A i \in DOMAIN InstTable : InstTable[i].op \in Nat
  <2>1. \A i \in DOMAIN InstTable : InstTable[i] \in [name : STRING, format : STRING, op : Bytes]
    BY OpcodeAssumption, ElementOf
  <2> QED BY <2>1 DEF Bytes
<1>5. /\ e.op < HighBit
      /\ \A i \in 1 .. j - 1 :
           /\ InstTable[i].op # e.op /\ InstTable[i].op # e.op + HighBit
           /\ Cb0(InstTable[i].format) = "debug" => InstTable[i].op # 0
  BY <1>2, TableAssumption
<1>6. HighBit \in Nat /\ e.op \in Nat
  <2>1. ByteMod \div 2 \in Nat
    BY ByteAssumption, Divided
  <2> QED BY <1>2, <1>4, <2>1 DEF HighBit
<1>7. e.op % HighBit = e.op /\ (e.op + HighBit) % HighBit = e.op
  <2>1. HighBit > 0
    BY <1>5, <1>6
  <2>2. e.op = 0 * HighBit + e.op /\ e.op + HighBit = 1 * HighBit + e.op
    BY <1>6
  <2>3. e.op + HighBit \in Nat /\ 0 <= e.op
    BY <1>6
  <2>4. e.op % HighBit = e.op
    BY <1>5, <1>6, <2>1, <2>2, <2>3, DividedOnce
  <2>5. (e.op + HighBit) % HighBit = e.op
    <3> DEFINE x == e.op + HighBit
    <3>1. x \in Nat /\ x = 1 * HighBit + e.op /\ 1 \in Int /\ e.op \in Int
      BY <1>6, <2>2, <2>3
    <3> HIDE DEF x
    <3>2. x % HighBit = e.op
      BY <1>5, <1>6, <2>1, <2>3, <3>1, DividedOnce
    <3> QED BY <3>2 DEF x
  <2> QED BY <2>4, <2>5
<1>8. id[3] % HighBit = e.op
  BY <1>7
<1>9. ASSUME NEW S, S \subseteq DOMAIN InstTable, j \in S, \A i \in 1 .. j - 1 : i \notin S
      PROVE  FirstOf(S) = e
  <2>1. S \subseteq Nat /\ S # {}
    BY <1>3, <1>9
  <2>2. \A i \in S : j <= i
    <3> SUFFICES ASSUME NEW i \in S PROVE j <= i
      OBVIOUS
    <3>1. i \in Nat /\ i >= 1 /\ j \in Nat /\ i \notin 1 .. j - 1
      BY <1>3, <1>9
    <3> QED BY <3>1
  <2>3. Min(S) = j
    BY <1>9, <2>1, <2>2, LeastOf
  <2> QED BY <1>2, <2>1, <2>3 DEF FirstOf, xm_inst_table
<1>10. \A i \in 1 .. j - 1 : i \in DOMAIN InstTable
  <2>1. DOMAIN InstTable = 1 .. Len(InstTable) /\ Len(InstTable) \in Nat
    BY OpcodeAssumption, ElementOf
  <2> QED BY <2>1
<1>11. Listed(id[3]) = e
  <2> DEFINE S == {k \in DOMAIN InstTable : InstTable[k].op = id[3] % HighBit}
  <2>1. S \subseteq DOMAIN InstTable /\ j \in S /\ \A i \in 1 .. j - 1 : i \notin S
    BY <1>2, <1>5, <1>8
  <2>2. FirstOf(S) = e
    BY <1>9, <2>1
  <2> QED BY <2>2 DEF Listed, xm_inst_table
<1>12. Dispatch(id) = e
  <2> DEFINE S == {k \in DOMAIN InstTable : Match(id[0], id[3], InstTable[k])}
  <2>1. Cb0(e.format) = "integer"
    BY DEF Distinct
  <2>2. Match(id[0], id[3], e)
    BY <1>8, <2>1 DEF Match
  <2>3. Hi(0) = 0
    <3>1. NReg \in Nat /\ NReg > 0
      BY RegAssumption, ByteAssumption
    <3>2. 0 = 0 * NReg + 0
      BY <3>1
    <3> QED BY <3>1, <3>2, DividedOnce DEF Hi
  <2>4. ASSUME NEW i \in 1 .. j - 1, Match(id[0], id[3], InstTable[i]) PROVE FALSE
    <3>1. CASE Cb0(InstTable[i].format) = "debug"
      <4>2. InstTable[i].format # "R4R4I8O8_IFHBS"
        BY <3>1 DEF Cb0, IntegerFormats, FloatFormats
      <4>1. Hi(id[0]) = InstTable[i].op
        BY <2>4, <3>1, <4>2 DEF Match
      <4> QED BY <1>5, <2>3, <3>1, <4>1
    <3>2. CASE Cb0(InstTable[i].format) # "debug" /\ InstTable[i].format = "R4R4I8O8_IFHBS"
      <4>1. id[3] % HighBit = InstTable[i].op
        BY <2>4, <3>2 DEF Match
      <4> QED BY <1>5, <1>8, <4>1
    <3>3. CASE Cb0(InstTable[i].format) # "debug" /\ InstTable[i].format # "R4R4I8O8_IFHBS"
      <4>1. id[3] = InstTable[i].op
        BY <2>4, <3>3 DEF Match
      <4> QED BY <1>5, <4>1
    <3> QED BY <3>1, <3>2, <3>3
  <2>5. S \subseteq DOMAIN InstTable /\ j \in S /\ \A i \in 1 .. j - 1 : i \notin S
    BY <1>2, <2>2, <2>4
  <2>6. FirstOf(S) = e
    BY <1>9, <2>5
  <2> QED BY <2>6 DEF Dispatch, xm_inst_table
<1> QED BY <1>11, <1>12

(* What stands at the place of a line, once the file is written.           *)
LEMMA EmittedCode ==
  ASSUME AsmInv, phase \in {"listing", "listed", "aborted"}, NEW k \in Emitted
  PROVE  /\ source[k].entry \in Entries
         /\ source[k].operands.d \in Nat /\ source[k].operands.a \in Nat
         /\ source[k].operands.b \in Int /\ source[k].operands.c \in Nat
         /\ source[k].operands.imm \in BOOLEAN
         /\ Encode(source[k].entry, source[k].operands) # << >>
         /\ PlaceOf(k) \in Nat /\ PlaceOf(k) + 4 <= Len(out) /\ Len(out) \in Nat
         /\ \A j \in {1, 2, 4} :
              out[PlaceOf(k) + j] = Encode(source[k].entry, source[k].operands)[j]
         /\ ~BranchesToLabel(source[k]) =>
              out[PlaceOf(k) + 3] = Encode(source[k].entry, source[k].operands)[3]
         /\ BranchesToLabel(source[k]) =>
              out[PlaceOf(k) + 3]
                = (LabelPlace(source[k].operands.label) - PlaceOf(k)) % ByteMod
<1>1. source \in Seq(Lines) /\ out \in Seq(Bytes) /\ Len(out) = 4 * Cardinality(Emitted)
  BY DEF AsmInv, AsmTypes
<1>2. k \in DOMAIN source /\ LineBytes(source[k]) # << >>
  BY DEF Emitted
<1>3. source[k] \in Lines
  BY <1>1, <1>2, ElementOf
<1>4. source[k].kind = "inst" /\ LineBytes(source[k]) = Encode(source[k].entry, source[k].operands)
  BY <1>2, <1>3, FourBytes
<1>5. PlaceOf(k) \in Nat /\ PlaceOf(k) + 4 <= Len(out) /\ Len(out) \in Nat
  BY <1>1, PlacesApart, ElementOf
<1>6. \A j \in 1 .. 4 : j # 3 \/ k \notin Branches =>
        out[PlaceOf(k) + j] = Encode(source[k].entry, source[k].operands)[j]
  BY <1>4 DEF AsmInv, LinesWritten
<1>7. \A j \in {1, 2, 4} : j \in 1 .. 4 /\ j # 3
  OBVIOUS
<1>8. 3 \in 1 .. 4 /\ (k \in Branches <=> BranchesToLabel(source[k]))
  BY DEF Branches
<1>9. BranchesToLabel(source[k]) =>
        out[PlaceOf(k) + 3] = (LabelPlace(source[k].operands.label) - PlaceOf(k)) % ByteMod
  BY <1>8, BranchFixed
<1>10. /\ source[k].entry \in Entries
       /\ source[k].operands.d \in Nat /\ source[k].operands.a \in Nat
       /\ source[k].operands.b \in Int /\ source[k].operands.c \in Nat
       /\ source[k].operands.imm \in BOOLEAN
  BY <1>3, <1>4, LineFields
<1>11. Encode(source[k].entry, source[k].operands) # << >>
  BY <1>2, <1>4
<1>12. \A j \in {1, 2, 4} :
         out[PlaceOf(k) + j] = Encode(source[k].entry, source[k].operands)[j]
  BY <1>6, <1>7
<1> QED BY <1>5, <1>6, <1>8, <1>9, <1>10, <1>11, <1>12

(* The four bytes at a place.                                              *)
LEMMA CodeBytes ==
  ASSUME NEW p \in Nat, Len(out) \in Nat, p + 4 <= Len(out)
  PROVE  /\ CodeAt(p + 1)[0] = out[p + 1] /\ CodeAt(p + 1)[1] = out[p + 2]
         /\ CodeAt(p + 1)[2] = out[p + 3] /\ CodeAt(p + 1)[3] = out[p + 4]
         /\ Byte(p + 1) = out[p + 1]
<1>1. \A j \in 0 .. 3 : CodeAt(p + 1)[j] = Byte((p + 1) + j)
  BY DEF CodeAt
<1>2. \A m \in 1 .. Len(out) : Byte(m) = out[m]
  BY DEF Byte
<1>3. /\ (p + 1) + 0 = p + 1 /\ (p + 1) + 1 = p + 2 /\ (p + 1) + 2 = p + 3 /\ (p + 1) + 3 = p + 4
      /\ p + 1 \in 1 .. Len(out) /\ p + 2 \in 1 .. Len(out)
      /\ p + 3 \in 1 .. Len(out) /\ p + 4 \in 1 .. Len(out)
      /\ 0 \in 0 .. 3 /\ 1 \in 0 .. 3 /\ 2 \in 0 .. 3 /\ 3 \in 0 .. 3
  OBVIOUS
<1>4. CodeAt(p + 1)[0] = Byte(p + 1) /\ CodeAt(p + 1)[1] = Byte(p + 2)
      /\ CodeAt(p + 1)[2] = Byte(p + 3) /\ CodeAt(p + 1)[3] = Byte(p + 4)
  BY <1>1, <1>3
<1> QED BY <1>2, <1>3, <1>4

(* An integer instruction at its place is run and listed as what it is,    *)
(* and its first byte is neither the file's end nor another kind's.        *)
LEMMA PlainRuns ==
  ASSUME AsmInv, phase \in {"listing", "listed", "aborted"}, NEW k \in Emitted, Plain(source[k])
  PROVE  /\ Dispatch(CodeAt(PlaceOf(k) + 1)) = source[k].entry
         /\ Listed(CodeAt(PlaceOf(k) + 1)[3]) = source[k].entry
         /\ Byte(PlaceOf(k) + 1) = 0
<1> DEFINE p == PlaceOf(k)
           e == source[k].entry
           o == source[k].operands
           id == CodeAt(p + 1)
<1>1. /\ e \in Entries /\ Encode(e, o) # << >>
      /\ p \in Nat /\ p + 4 <= Len(out) /\ Len(out) \in Nat
      /\ \A j \in {1, 2, 4} : out[p + j] = Encode(e, o)[j]
  BY EmittedCode
<1>2. Distinct(e)
  BY DEF Plain
<1>3. id[0] = out[p + 1] /\ id[3] = out[p + 4] /\ Byte(p + 1) = out[p + 1]
  BY <1>1, CodeBytes
<1>4. out[p + 1] = Encode(e, o)[1] /\ out[p + 4] = Encode(e, o)[4]
  BY <1>1
<1> HIDE DEF p, e, o, id
<1>5. Encode(e, o)[1] = 0
  BY <1>1, <1>2, PlainBytes
<1>6. \/ Encode(e, o)[4] = e.op
      \/ e.format = "R4R4I8O8_IFHBS" /\ Encode(e, o)[4] = e.op + HighBit
  BY <1>1, <1>2, PlainBytes
<1>7. Dispatch(id) = e /\ Listed(id[3]) = e
  BY <1>1, <1>2, <1>3, <1>4, <1>5, <1>6, PlainFound
<1> QED BY <1>3, <1>4, <1>5, <1>7 DEF p, e, id

(* The simulator runs what was written, whatever the lines are: at the     *)
(* place of each integer instruction it finds that instruction's entry     *)
(* (RunsWhatIsWritten).                                                    *)
THEOREM WrittenIsRun ==
  ASSUME LinesGiven
  PROVE  ListingSpec => []RunsWhatIsWritten
<1>1. ASSUME AsmInv PROVE RunsWhatIsWritten
  BY <1>1, PlainRuns DEF RunsWhatIsWritten
<1>2. ListingSpec => []AsmInv
  BY AsmInvariant
<1> QED BY <1>1, <1>2, PTL

(* Format by format, what is printed and what a line says.                 *)
LEMMA PrintedAs ==
  ASSUME NEW e, NEW id, id[3] \in Int, HighBit \in Int
  PROVE  /\ e.format = "R4R4I8O8_IFHBS" /\ id[3] >= HighBit =>
              Printed(e, id) = <<Lo(id[1]), Hi(id[1]), SignedIn(id[2], ByteMod)>>
         /\ (e.format = "R4R4I8O8_IFHBS" /\ id[3] < HighBit) \/ e.format = "R4R4R4R4" =>
              Printed(e, id) = <<Lo(id[1]), Hi(id[1]), Lo(id[2]), Hi(id[2])>>
         /\ e.format = "U16O8" => Printed(e, id) = << >>
         /\ e.format = "R4U4RA8O8" =>
              Printed(e, id) = <<Lo(id[1]), SignedIn(id[2], ByteMod), Hi(id[1])>>
<1>1. CASE e.format = "R4R4I8O8_IFHBS"
  BY <1>1 DEF Printed
<1>2. CASE e.format # "R4R4I8O8_IFHBS"
  BY <1>2 DEF Printed
<1> QED BY <1>1, <1>2

(* What the source says of a line, format by format, with the label of a   *)
(* branch as a distance.                                                   *)
LEMMA SaidAs ==
  ASSUME NEW k, NEW e, NEW o, e = source[k].entry, o = source[k].operands
  PROVE  /\ e.format = "R4R4I8O8_IFHBS" /\ o.imm /\ ~BranchesToLabel(source[k]) =>
              Said(k) = <<o.d % NReg, o.a % NReg, SignedIn(o.b % ByteMod, ByteMod)>>
         /\ (e.format = "R4R4I8O8_IFHBS" /\ ~o.imm) \/ e.format = "R4R4R4R4" =>
              Said(k) = <<o.d % NReg, o.a % NReg, o.b % NReg, o.c % NReg>>
         /\ e.format = "U16O8" => Said(k) = << >>
         /\ e.format = "R4U4RA8O8" /\ ~BranchesToLabel(source[k]) =>
              Said(k) = <<o.d % NReg, SignedIn(o.b % ByteMod, ByteMod), o.c % NReg>>
         /\ e.format = "R4U4RA8O8" /\ BranchesToLabel(source[k]) =>
              Said(k) = <<o.d % NReg, SignedIn((LabelPlace(o.label) - PlaceOf(k)) % ByteMod, ByteMod),
                          o.c % NReg>>
BY DEF Said

(* What is printed of a line is what it says.                              *)
LEMMA PlainPrints ==
  ASSUME AsmInv, phase \in {"listing", "listed", "aborted"}, NEW k \in Emitted, Plain(source[k])
  PROVE  Printed(source[k].entry, CodeAt(PlaceOf(k) + 1)) = Said(k)
<1> DEFINE p == PlaceOf(k)
           e == source[k].entry
           o == source[k].operands
           id == CodeAt(p + 1)
           d == LabelPlace(o.label) - p
<1>1. /\ e \in Entries /\ Encode(e, o) # << >> /\ o.imm \in BOOLEAN
      /\ o.d \in Nat /\ o.a \in Nat /\ o.b \in Int /\ o.c \in Nat
      /\ p \in Nat /\ p + 4 <= Len(out) /\ Len(out) \in Nat
      /\ \A j \in {1, 2, 4} : out[p + j] = Encode(e, o)[j]
      /\ ~BranchesToLabel(source[k]) => out[p + 3] = Encode(e, o)[3]
      /\ BranchesToLabel(source[k]) => out[p + 3] = d % ByteMod
  BY EmittedCode
<1>2. Distinct(e)
  BY DEF Plain
<1>3. id[1] = out[p + 2] /\ id[2] = out[p + 3] /\ id[3] = out[p + 4]
  BY <1>1, CodeBytes
<1>4. out[p + 2] = Encode(e, o)[2] /\ out[p + 4] = Encode(e, o)[4]
  BY <1>1
<1>5. BranchesToLabel(source[k]) => e.format = "R4U4RA8O8"
  BY DEF BranchesToLabel
<1>6. e = source[k].entry /\ o = source[k].operands
  OBVIOUS
<1>7. /\ Lo(Pack(o.d, o.a)) = o.d % NReg /\ Hi(Pack(o.d, o.a)) = o.a % NReg
      /\ Lo(Pack(o.b, o.c)) = o.b % NReg /\ Hi(Pack(o.b, o.c)) = o.c % NReg
      /\ Lo(Pack(o.d, o.c)) = o.d % NReg /\ Hi(Pack(o.d, o.c)) = o.c % NReg
  <2>1. o.d \in Int /\ o.a \in Int /\ o.b \in Int /\ o.c \in Int
    BY <1>1, SMTT(30)
  <2> HIDE DEF o
  <2> QED BY <2>1, Packed
<1>8. HighBit \in Nat /\ e.op \in Nat /\ (e.format = "R4R4I8O8_IFHBS" => e.op < HighBit)
  <2>1. ByteMod \div 2 \in Nat
    BY ByteAssumption, Divided
  <2>2. e.op \in Nat
    BY <1>1, EntryOpcode DEF Bytes
  <2>3. e.format = "R4R4I8O8_IFHBS" => e.op < HighBit
    <3>1. Distinct(NoInst) = FALSE
      BY DEF Distinct, Cb0, NoInst, IntegerFormats, FloatFormats
    <3>2. PICK j \in DOMAIN InstTable : e = InstTable[j]
      BY <1>1, <1>2, <3>1 DEF Entries
    <3> QED BY <3>2, OpcodeAssumption
  <2> QED BY <2>1, <2>2, <2>3 DEF HighBit
<1> HIDE DEF e, o, id, d
<1>14. id[3] \in Int /\ HighBit \in Int
  <2>1. Encode(e, o)[4] = e.op \/ Encode(e, o)[4] = e.op + HighBit
    BY <1>1, <1>2, PlainBytes
  <2> QED BY <1>3, <1>4, <1>8, <2>1
<1>9. CASE e.format = "R4R4I8O8_IFHBS" /\ o.imm
  <2>1. /\ Encode(e, o)[2] = Pack(o.d, o.a) /\ Encode(e, o)[3] = o.b % ByteMod
        /\ Encode(e, o)[4] = e.op + HighBit
    BY <1>1, <1>2, <1>9, PlainBytes
  <2>2. ~BranchesToLabel(source[k])
    BY <1>5, <1>9
  <2>3. id[3] >= HighBit
    BY <1>3, <1>4, <1>8, <2>1
  <2>4. Printed(e, id) = <<o.d % NReg, o.a % NReg, SignedIn(o.b % ByteMod, ByteMod)>>
    BY <1>1, <1>3, <1>4, <1>7, <1>9, <2>1, <2>2, <2>3, <1>14, PrintedAs, SMTT(30)
  <2>5. Said(k) = <<o.d % NReg, o.a % NReg, SignedIn(o.b % ByteMod, ByteMod)>>
    BY <1>6, <1>9, <2>2, SaidAs
  <2> QED BY <2>4, <2>5 DEF e, id, p
<1>10. CASE (e.format = "R4R4I8O8_IFHBS" /\ ~o.imm) \/ e.format = "R4R4R4R4"
  <2>1. /\ Encode(e, o)[2] = Pack(o.d, o.a) /\ Encode(e, o)[3] = Pack(o.b, o.c)
        /\ Encode(e, o)[4] = e.op
    BY <1>1, <1>2, <1>10, PlainBytes
  <2>2. ~BranchesToLabel(source[k])
    BY <1>5, <1>10
  <2>3. e.format = "R4R4I8O8_IFHBS" => id[3] < HighBit
    BY <1>3, <1>4, <1>8, <2>1
  <2>4. Printed(e, id) = <<o.d % NReg, o.a % NReg, o.b % NReg, o.c % NReg>>
    BY <1>1, <1>3, <1>4, <1>7, <1>10, <2>1, <2>2, <2>3, <1>14, PrintedAs
  <2>5. Said(k) = <<o.d % NReg, o.a % NReg, o.b % NReg, o.c % NReg>>
    BY <1>6, <1>10, <2>2, SaidAs
  <2> QED BY <2>4, <2>5 DEF e, id, p
<1>11. CASE e.format = "U16O8"
  <2>1. Printed(e, id) = << >>
    BY <1>11, <1>14, PrintedAs
  <2>2. Said(k) = << >>
    BY <1>6, <1>11, SaidAs
  <2> QED BY <2>1, <2>2 DEF e, id, p
<1>12. CASE e.format = "R4U4RA8O8"
  <2>1. Encode(e, o)[2] = Pack(o.d, o.c) /\ Encode(e, o)[3] = o.b % ByteMod
    BY <1>1, <1>2, <1>12, PlainBytes
  <2>2. Printed(e, id) = <<o.d % NReg, SignedIn(out[p + 3], ByteMod), o.c % NReg>>
    BY <1>3, <1>4, <1>7, <1>12, <2>1, <1>14, PrintedAs
  <2>3. CASE BranchesToLabel(source[k])
    <3>1. Said(k) = <<o.d % NReg, SignedIn(d % ByteMod, ByteMod), o.c % NReg>>
      BY <1>6, <1>12, <2>3, SaidAs DEF d, p
    <3> QED BY <1>1, <2>2, <2>3, <3>1 DEF e, id, p
  <2>4. CASE ~BranchesToLabel(source[k])
    <3>1. Said(k) = <<o.d % NReg, SignedIn(o.b % ByteMod, ByteMod), o.c % NReg>>
      BY <1>6, <1>12, <2>4, SaidAs
    <3> QED BY <1>1, <2>1, <2>2, <2>4, <3>1 DEF e, id, p
  <2> QED BY <2>3, <2>4
<1>13. e.format \in {"R4R4I8O8_IFHBS", "U16O8", "R4U4RA8O8", "R4R4R4R4"}
  BY <1>1, <1>2, PlainBytes
<1> QED BY <1>1, <1>9, <1>10, <1>11, <1>12, <1>13

(* Nothing is listed before the file is written.                           *)
LEMMA ListInvStart ==
  ASSUME AsmInv, at = 1, listing = << >>,
         phase \in {"assembling", "fixing", "unlabelled", "listing"}
  PROVE  ListInv
<1>1. source \in Seq(Lines) /\ out \in Seq(Bytes) /\ Len(out) \in Nat
  BY ElementOf DEF AsmInv, AsmTypes
<1>2. \A k \in Emitted : Rank(k) \in Nat
  BY <1>1, EmittedFew
<1>3. Len(listing) = 0 /\ listing \in Seq(Records)
  OBVIOUS
<1>4. at \in 1 .. Len(out) + 4 /\ 4 * Len(listing) <= at - 1 /\ at = 4 * Len(listing) + 1
  BY <1>1, <1>3
<1>5. \A k \in Emitted : ~(Rank(k) < Len(listing))
  BY <1>2, <1>3
<1> QED BY <1>3, <1>4, <1>5 DEF ListInv

(* While the lines stay, what they say does.                               *)
LEMMA LinesStay ==
  ASSUME UNCHANGED source
  PROVE  /\ Emitted' = Emitted /\ (AllPlain' <=> AllPlain)
         /\ \A k : Rank(k)' = Rank(k) /\ Said(k)' = Said(k)
<1>1. Emitted' = Emitted
  BY DEF Emitted
<1>2. \A k : Rank(k)' = Rank(k)
  BY <1>1 DEF Rank
<1>3. \A k : PlaceOf(k)' = PlaceOf(k)
  BY <1>2 DEF PlaceOf
<1>4. \A name : Labelled(name)' = Labelled(name)
  BY DEF Labelled
<1>5. \A name : LabelPlace(name)' = LabelPlace(name)
  <2> SUFFICES ASSUME NEW name PROVE LabelPlace(name)' = LabelPlace(name)
    OBVIOUS
  <2>1. PICK k : k = Min(Labelled(name))
    OBVIOUS
  <2>2. LabelPlace(name)' = PlaceOf(k)'
    BY <1>4, <2>1 DEF LabelPlace, PlaceOf, Rank
  <2> QED BY <1>3, <2>1, <2>2 DEF LabelPlace
<1>6. \A k : Said(k)' = Said(k)
  <2> SUFFICES ASSUME NEW k PROVE Said(k)' = Said(k)
    OBVIOUS
  <2>1. PICK name : name = source[k].operands.label
    OBVIOUS
  <2>2. LabelPlace(source[k].operands.label)' = LabelPlace(source[k].operands.label)
    <3>1. LabelPlace(source[k].operands.label)' = LabelPlace(name)'
      BY <2>1 DEF LabelPlace, PlaceOf, Rank, Labelled
    <3> QED BY <1>5, <2>1, <3>1
  <2> QED BY <1>3, <2>2 DEF Said
<1>7. AllPlain' <=> AllPlain
  BY <1>1 DEF AllPlain
<1> QED BY <1>1, <1>2, <1>6, <1>7

(* The disassembler prints an instruction.                                 *)
LEMMA ListIntegerKeeps ==
  ASSUME AsmInv, ListInv, ListInteger
  PROVE  ListInv'
<1> DEFINE id == CodeAt(at)
           e == Listed(id[3])
           c == Cardinality(Emitted)
           m == Len(listing)
           r == [name |-> e.name, args |-> Printed(e, id)]
<1>1. /\ phase = "listing" /\ Byte(at) # ByteMod - 1
      /\ listing' = IF e = NoInst THEN listing ELSE Append(listing, r)
      /\ at' = at + 4
      /\ source' = source /\ out' = out /\ phase' = phase
  BY DEF ListInteger, asmVars
<1>2. /\ source \in Seq(Lines) /\ out \in Seq(Bytes) /\ Len(out) = 4 * c
  BY DEF AsmInv, AsmTypes
<1>3. /\ at \in 1 .. Len(out) + 4 /\ listing \in Seq(Records) /\ 4 * m <= at - 1
  BY DEF ListInv
<1>4. /\ c \in Nat /\ Len(out) \in Nat /\ m \in Nat
      /\ \A k \in Emitted : Rank(k) \in Nat /\ Rank(k) < c
      /\ \A j, k \in Emitted : Rank(j) = Rank(k) => j = k
  BY <1>2, <1>3, EmittedFew
<1>5. at <= Len(out)
  BY <1>1, <1>3, <1>4 DEF Byte
<1>6. id \in Code
  <2>1. \A j \in 0 .. 3 : Byte(at + j) \in Bytes
    <3> SUFFICES ASSUME NEW j \in 0 .. 3 PROVE Byte(at + j) \in Bytes
      OBVIOUS
    <3>1. CASE at + j <= Len(out)
      <4>1. at + j \in DOMAIN out
        BY <1>2, <1>3, <1>4, <3>1
      <4>2. out[at + j] \in Bytes
        BY <1>2, <4>1, ElementOf
      <4> QED BY <3>1, <4>2 DEF Byte
    <3>2. CASE ~(at + j <= Len(out))
      <4>1. ByteMod - 1 \in Bytes
        BY ByteAssumption DEF Bytes
      <4> QED BY <3>2, <4>1 DEF Byte
    <3> QED BY <3>1, <3>2
  <2> QED BY <2>1 DEF CodeAt, Code
<1>7. e \in Entries
  <2> DEFINE S == {k \in DOMAIN InstTable : InstTable[k].op = id[3] % HighBit}
  <2>1. S \subseteq Nat /\ S \subseteq DOMAIN InstTable
    <3>1. DOMAIN InstTable = 1 .. Len(InstTable) /\ Len(InstTable) \in Nat
      BY OpcodeAssumption, ElementOf
    <3> QED BY <3>1
  <2>2. e = FirstOf(S)
    BY DEF Listed, xm_inst_table
  <2>3. S # {} => Min(S) \in S
    BY <2>1, LeastOf
  <2> HIDE DEF S, e
  <2> QED BY <2>1, <2>2, <2>3 DEF FirstOf, xm_inst_table, Entries
<1>8. r \in Records
  BY <1>6, <1>7 DEF Records
<1> HIDE DEF id, e, c, m, r
<1>9. /\ listing' \in Seq(Records)
      /\ e = NoInst => listing' = listing
      /\ e # NoInst => /\ Len(listing') = m + 1 /\ listing'[m + 1] = r
                       /\ \A i \in 1 .. m : listing'[i] = listing[i]
  <2>1. CASE e = NoInst
    BY <1>1, <1>3, <2>1
  <2>2. CASE e # NoInst
    <3>1. listing' = Append(listing, r)
      BY <1>1, <2>2
    <3> QED BY <1>3, <1>8, <2>2, <3>1, Appended DEF m
  <2> QED BY <2>1, <2>2
<1>10. /\ at' \in 1 .. Len(out') + 4 /\ 4 * Len(listing') <= at' - 1
  <2>1. Len(listing') = m \/ Len(listing') = m + 1
    BY <1>9 DEF m
  <2> QED BY <1>1, <1>3, <1>4, <1>5, <2>1
<1>11. /\ Emitted' = Emitted /\ (AllPlain' <=> AllPlain)
       /\ \A k : Rank(k)' = Rank(k) /\ Said(k)' = Said(k)
  BY <1>1, LinesStay
<1>12. ASSUME AllPlain
       PROVE  /\ at' = 4 * Len(listing') + 1
              /\ \A k \in Emitted : Rank(k) < Len(listing') =>
                   listing'[Rank(k) + 1] = [name |-> source[k].entry.name, args |-> Said(k)]
  <2>1. /\ at = 4 * m + 1
        /\ \A k \in Emitted : Rank(k) < m =>
             listing[Rank(k) + 1] = [name |-> source[k].entry.name, args |-> Said(k)]
    BY <1>12 DEF ListInv, m
  <2>2. m < c
    BY <1>2, <1>4, <1>5, <2>1
  <2>3. PICK k0 \in Emitted : Rank(k0) = m
    BY <1>4, <2>2 DEF AsmInv, RanksCover, c
  <2>4. at = PlaceOf(k0) + 1
    BY <2>1, <2>3 DEF PlaceOf
  <2>5. Plain(source[k0])
    BY <1>12 DEF AllPlain
  <2>6. e = source[k0].entry
    BY <1>1, <2>4, <2>5, PlainRuns DEF e, id
  <2>7. Printed(e, id) = Said(k0)
    BY <1>1, <2>4, <2>5, <2>6, PlainPrints DEF id
  <2>8. e # NoInst
    <3>1. Distinct(NoInst) = FALSE
      BY DEF Distinct, Cb0, NoInst, IntegerFormats, FloatFormats
    <3> QED BY <2>5, <2>6, <3>1 DEF Plain
  <2>9. Len(listing') = m + 1 /\ listing'[m + 1] = r /\ \A i \in 1 .. m : listing'[i] = listing[i]
    BY <1>9, <2>8
  <2>10. at' = 4 * Len(listing') + 1
    BY <1>1, <1>4, <2>1, <2>9, SMTT(30)
  <2>11. ASSUME NEW k \in Emitted, Rank(k) < Len(listing')
         PROVE  listing'[Rank(k) + 1] = [name |-> source[k].entry.name, args |-> Said(k)]
    <3>1. CASE Rank(k) = m
      <4>1. k = k0
        BY <1>4, <2>3, <3>1
      <4> QED BY <2>6, <2>7, <2>9, <3>1, <4>1 DEF r
    <3>2. CASE Rank(k) # m
      <4>1. Rank(k) < m /\ Rank(k) + 1 \in 1 .. m
        BY <1>4, <2>9, <2>11, <3>2
      <4> QED BY <2>1, <2>9, <4>1
    <3> QED BY <3>1, <3>2
  <2> QED BY <2>10, <2>11
<1> QED BY <1>1, <1>9, <1>10, <1>11, <1>12 DEF ListInv

(* Where a source of integer instructions is listed there is a first byte  *)
(* of one, or the end.                                                     *)
LEMMA AtPlace ==
  ASSUME AsmInv, ListInv, phase = "listing", AllPlain
  PROVE  \/ Len(listing) = Cardinality(Emitted)
         \/ Byte(at) = 0
<1> DEFINE c == Cardinality(Emitted)
           m == Len(listing)
<1>1. source \in Seq(Lines) /\ Len(out) = 4 * c /\ c \in Nat
  BY EmittedFew DEF AsmInv, AsmTypes
<1>2. at = 4 * m + 1 /\ at \in 1 .. Len(out) + 4 /\ m \in Nat
  BY DEF ListInv
<1>3. m <= c
  BY <1>1, <1>2
<1>4. CASE m < c
  <2>1. PICK k \in Emitted : Rank(k) = m
    BY <1>2, <1>4 DEF AsmInv, RanksCover
  <2>2. at = PlaceOf(k) + 1
    BY <1>2, <2>1 DEF PlaceOf
  <2>3. Plain(source[k])
    BY DEF AllPlain
  <2> QED BY <2>2, <2>3, PlainRuns
<1> HIDE DEF c, m
<1>5. m < c \/ m = c
  BY <1>1, <1>2, <1>3
<1> QED BY <1>4, <1>5 DEF m, c

(* The zero byte is neither the end of file nor has a low half.            *)
LEMMA ZeroByte == 0 # ByteMod - 1 /\ Lo(0) = 0
<1>1. NReg \in Nat /\ NReg > 0 /\ ByteMod \in Nat /\ ByteMod > 1
  BY RegAssumption, ByteAssumption
<1>2. 0 = 0 * NReg + 0
  BY <1>1
<1>3. Lo(0) = 0
  BY <1>1, <1>2, DividedOnce DEF Lo
<1> QED BY <1>1, <1>3

(* It comes to the end, steps over a byte, gives up, or does nothing.      *)
LEMMA ListQuietKeeps ==
  ASSUME AsmInv, ListInv,
         ListEnd \/ ListOther \/ ListAbort \/ UNCHANGED listingVars
  PROVE  ListInv'
<1>1. source' = source /\ out' = out /\ listing' = listing
  BY DEF ListEnd, ListOther, ListAbort, listingVars, listVars, asmVars
<1>2. /\ Emitted' = Emitted /\ (AllPlain' <=> AllPlain)
      /\ \A k : Rank(k)' = Rank(k) /\ Said(k)' = Said(k)
  BY <1>1, LinesStay
<1>3. at \in 1 .. Len(out) + 4 /\ listing \in Seq(Records) /\ 4 * Len(listing) <= at - 1
  BY DEF ListInv
<1>4. Len(out) \in Nat /\ Len(listing) \in Nat
  <2>1. out \in Seq(Bytes)
    BY DEF AsmInv, AsmTypes
  <2> QED BY <1>3, <2>1
<1>5. CASE UNCHANGED listingVars
  <2>1. at' = at /\ phase' = phase
    BY <1>5 DEF listingVars, listVars, asmVars
  <2> QED BY <1>1, <1>2, <2>1 DEF ListInv
<1>6. CASE ListEnd
  <2>1. at' = at /\ phase' = "listed" /\ phase = "listing" /\ Byte(at) = ByteMod - 1
    BY <1>6 DEF ListEnd, listVars
  <2>2. AllPlain => Len(listing) = Cardinality(Emitted)
    BY <2>1, AtPlace, ZeroByte
  <2> QED BY <1>1, <1>2, <2>1, <2>2 DEF ListInv
<1>7. CASE ListOther
  <2>1. at' = at + 1 /\ phase' = phase /\ phase = "listing"
        /\ Byte(at) # ByteMod - 1 /\ Lo(Byte(at)) \in {1, 3, 4}
    BY <1>7 DEF ListOther, asmVars
  <2>2. at <= Len(out)
    BY <1>3, <1>4, <2>1 DEF Byte
  <2>3. ~AllPlain
    <3>1. AllPlain => Len(listing) # Cardinality(Emitted)
      <4>1. AllPlain => at = 4 * Len(listing) + 1
        BY DEF ListInv
      <4>2. Len(out) = 4 * Cardinality(Emitted)
        BY DEF AsmInv, AsmTypes
      <4> QED BY <1>3, <1>4, <2>2, <4>1, <4>2
    <3> QED BY <2>1, <3>1, AtPlace, ZeroByte
  <2>4. at' \in 1 .. Len(out') + 4 /\ 4 * Len(listing') <= at' - 1
    BY <1>1, <1>3, <1>4, <2>1, <2>2
  <2> QED BY <1>1, <1>2, <1>3, <2>1, <2>3, <2>4 DEF ListInv
<1>8. CASE ListAbort
  <2>1. at' = at /\ phase' = "aborted" /\ phase = "listing"
        /\ Byte(at) # ByteMod - 1 /\ Lo(Byte(at)) \notin {0, 1, 3, 4}
    BY <1>8 DEF ListAbort, listVars
  <2>2. at <= Len(out)
    BY <1>3, <1>4, <2>1 DEF Byte
  <2>3. ~AllPlain
    <3>1. AllPlain => Len(listing) # Cardinality(Emitted)
      <4>1. AllPlain => at = 4 * Len(listing) + 1
        BY DEF ListInv
      <4>2. Len(out) = 4 * Cardinality(Emitted)
        BY DEF AsmInv, AsmTypes
      <4> QED BY <1>3, <1>4, <2>2, <4>1, <4>2
    <3> QED BY <2>1, <3>1, AtPlace, ZeroByte
  <2> QED BY <1>1, <1>2, <1>3, <2>1, <2>3 DEF ListInv
<1> QED BY <1>5, <1>6, <1>7, <1>8

(* Every step keeps the disassembler's invariant.                          *)
LEMMA ListInvNext ==
  ASSUME AsmInv, AsmInv', ListInv, [ListingNext]_listingVars
  PROVE  ListInv'
<1>1. CASE AsmNext /\ UNCHANGED listVars
  <2>1. /\ phase \in {"assembling", "fixing"} /\ at' = at /\ listing' = listing
        /\ phase' \in {"assembling", "fixing", "unlabelled", "listing"}
    BY <1>1 DEF AsmNext, AssembleInst, AssembleLabel, AssembleEnd, FixupTurn, FixupUnlabelled,
                Fixup, FixupEnd, listVars
  <2>2. at' = 1 /\ listing' = << >>
    BY <2>1 DEF ListInv
  <2>3. source' \in Seq(Lines) /\ Len(out') \in Nat
    BY ElementOf DEF AsmInv, AsmTypes
  <2>4. \A k \in Emitted' : Rank(k)' \in Nat
    <3>1. \A s \in Seq(Lines) : DOMAIN s = 1 .. Len(s) /\ Len(s) \in Nat
      BY ElementOf
    <3>2. Emitted' \subseteq 1 .. Len(source') /\ Len(source') \in Nat
      BY <2>3, <3>1 DEF Emitted
    <3>3. IsFiniteSet(Emitted')
      <4>1. \A n \in Nat : IsFiniteSet(1 .. n)
        BY FS_Interval
      <4> QED BY <3>2, <4>1, FS_Subset
    <3> QED BY <3>3, FS_Subset, FS_CardinalityType DEF Rank
  <2>5. Len(listing') = 0 /\ listing' \in Seq(Records)
    BY <2>2
  <2>6. /\ at' \in 1 .. Len(out') + 4 /\ 4 * Len(listing') <= at' - 1
        /\ at' = 4 * Len(listing') + 1
    BY <2>2, <2>3, <2>5
  <2>7. \A k \in Emitted' : ~(Rank(k)' < Len(listing'))
    BY <2>4, <2>5
  <2> QED BY <2>1, <2>2, <2>5, <2>6, <2>7 DEF ListInv
<1>2. CASE ListInteger
  BY <1>2, ListIntegerKeeps
<1>3. CASE ListEnd \/ ListOther \/ ListAbort \/ UNCHANGED listingVars
  BY <1>3, ListQuietKeeps
<1> QED BY <1>1, <1>2, <1>3 DEF ListingNext, ListTurn

(* Both invariants hold in every state.                                    *)
LEMMA ListInvariant ==
  ASSUME LinesGiven
  PROVE  ListingSpec => [](AsmInv /\ ListInv)
<1>1. ListingInit => AsmInv /\ ListInv
  BY AsmInvInit, ListInvStart DEF ListingInit, AsmInit
<1>2. AsmInv /\ ListInv /\ [ListingNext]_listingVars => AsmInv' /\ ListInv'
  BY AsmInvNext, ListInvNext
<1> QED BY <1>1, <1>2, PTL DEF ListingSpec

(* The tool chain agrees with itself, whatever the lines are: a program of *)
(* integer instructions is listed as it was written, each line once and in *)
(* its order, with the distances to the labels its branches name, and      *)
(* dis_disassemble comes to the end of it (ListsWhatIsWritten).            *)
THEOREM WrittenIsListed ==
  ASSUME LinesGiven
  PROVE  ListingSpec => []ListsWhatIsWritten
<1>1. ASSUME AsmInv, ListInv PROVE ListsWhatIsWritten
  <2> SUFFICES ASSUME phase \in {"listed", "aborted"}, AllPlain
               PROVE  /\ phase = "listed"
                      /\ Len(listing) = Cardinality(Emitted)
                      /\ \A k \in Emitted :
                           listing[Rank(k) + 1] = [name |-> source[k].entry.name, args |-> Said(k)]
    BY DEF ListsWhatIsWritten, AllPlain
  <2>1. phase = "listed" /\ Len(listing) = Cardinality(Emitted)
    BY <1>1 DEF ListInv
  <2>2. \A k \in Emitted : Rank(k) < Cardinality(Emitted)
    BY <1>1, EmittedFew DEF AsmInv, AsmTypes
  <2> QED BY <1>1, <2>1, <2>2 DEF ListInv
<1>2. ListingSpec => [](AsmInv /\ ListInv)
  BY ListInvariant
<1> QED BY <1>1, <1>2, PTL

(* A sequence whose elements are in a smaller set is a sequence of it.     *)
LEMMA Narrowed ==
  ASSUME NEW S, NEW T, NEW s \in Seq(S), \A i \in DOMAIN s : s[i] \in T
  PROVE  s \in Seq(T)
<1>1. Len(s) \in Nat /\ DOMAIN s = 1 .. Len(s)
  OBVIOUS
<1>2. s \in [1 .. Len(s) -> T]
  BY <1>1, IsASeq
<1> QED BY <1>1, <1>2

(* Whatever the lines are, the labels and the fixups name lines of the     *)
(* source and places in the file, and neither loop passes its end          *)
(* (ListingTypeOK).                                                        *)
THEOREM ListingTypeCorrect ==
  ASSUME LinesGiven
  PROVE  ListingSpec => []ListingTypeOK
<1>1. ASSUME AsmInv, ListInv PROVE ListingTypeOK
  <2>1. /\ source \in Seq(Lines) /\ out \in Seq(Bytes) /\ Len(out) = 4 * Cardinality(Emitted)
        /\ pc = Len(out)
        /\ labels \in Seq([name : STRING, pc : Nat])
        /\ \A j \in DOMAIN labels : labels[j].pc <= pc
        /\ fixups \in Seq([name : STRING, pc : Nat, offset : Nat])
        /\ fixing \in 1 .. Len(fixups) + 1 /\ reported \subseteq DOMAIN fixups
        /\ phase \in {"assembling", "fixing", "unlabelled", "listing", "listed", "aborted"}
    BY <1>1 DEF AsmInv, AsmTypes
  <2>2. at \in 1 .. Len(out) + 4 /\ listing \in Seq(Records) /\ 4 * Len(listing) <= at - 1
    BY <1>1 DEF ListInv
  <2>3. /\ Len(out) \in Nat /\ Len(source) \in Nat /\ Len(listing) \in Nat
        /\ Cardinality(Emitted) \in Nat /\ pc \in Nat
    BY <2>1, <2>2, EmittedFew
  <2>4. Cardinality(Emitted) <= Len(source)
    <3>1. Emitted \subseteq 1 .. Len(source)
      BY <2>1, EmittedFew
    <3>2. IsFiniteSet(1 .. Len(source)) /\ Cardinality(1 .. Len(source)) = Len(source)
      <4>1. 1 \in Int /\ Len(source) \in Int
        BY <2>3
      <4>2. Cardinality(1 .. Len(source))
              = IF 1 > Len(source) THEN 0 ELSE Len(source) - 1 + 1
        BY <4>1, FS_Interval
      <4>3. IsFiniteSet(1 .. Len(source))
        BY <4>1, FS_Interval
      <4> QED BY <2>3, <4>2, <4>3
    <3> QED BY <3>1, <3>2, FS_Subset
  <2>5. Len(listing) <= Len(source) * 4
    <3>1. 4 * Len(listing) <= 4 * Cardinality(Emitted) + 3
      BY <2>1, <2>2, <2>3, SMTT(30)
    <3>2. Len(listing) <= Cardinality(Emitted)
      BY <2>3, <3>1
    <3> QED BY <2>3, <2>4, <3>2
  <2> DEFINE Names == {l.name : l \in {source[k] : k \in {j \in DOMAIN source : source[j].kind = "label"}}}
             Operands == {source[k].operands.label : k \in {j \in DOMAIN source : source[j].kind = "inst"}}
  <2>6. labels \in Seq([name : Names, pc : 0 .. pc])
    <3>1. ASSUME NEW j \in DOMAIN labels PROVE labels[j] \in [name : Names, pc : 0 .. pc]
      <4>1. labels[j] \in [name : STRING, pc : Nat]
        BY <2>1, ElementOf
      <4>2. j \in Found(labels[j].name)
        BY DEF Found
      <4>3. labels[j].name \in STRING
        BY <4>1
      <4>4. Labelled(labels[j].name) # {}
        BY <1>1, <4>2, <4>3 DEF AsmInv, LabelsStand
      <4>5. PICK k \in DOMAIN source : source[k].kind = "label" /\ source[k].name = labels[j].name
        BY <4>4 DEF Labelled
      <4>6. labels[j].name \in Names
        BY <4>5
      <4>7. labels[j].pc \in 0 .. pc
        BY <2>1, <2>3, <4>1
      <4> HIDE DEF Names
      <4> QED BY <4>1, <4>6, <4>7
    <3> HIDE DEF Names
    <3> QED BY <2>1, <3>1, Narrowed
  <2>7. fixups \in Seq([name : Operands, pc : 0 .. pc, offset : 0 .. Len(out)])
    <3>1. ASSUME NEW i \in DOMAIN fixups
          PROVE  fixups[i] \in [name : Operands, pc : 0 .. pc, offset : 0 .. Len(out)]
      <4>1. PICK k \in Branches : fixups[i] = FixupOf(k)
        BY <1>1 DEF AsmInv, FixupsStand
      <4>2. k \in DOMAIN source /\ source[k].kind = "inst" /\ k \in Emitted
        BY DEF Branches, Emitted, BranchesToLabel
      <4>3. source[k].operands.label \in Operands
        BY <4>2
      <4>4. PlaceOf(k) \in 0 .. Len(out)
        <5>1. PlaceOf(k) \in Nat /\ PlaceOf(k) + 4 <= Len(out)
          BY <2>1, <4>2, PlacesApart
        <5> QED BY <2>3, <5>1
      <4> HIDE DEF Operands
      <4> QED BY <2>1, <4>1, <4>3, <4>4 DEF FixupOf
    <3> HIDE DEF Operands
    <3> QED BY <2>1, <3>1, Narrowed
  <2> QED BY <2>1, <2>2, <2>3, <2>5, <2>6, <2>7 DEF ListingTypeOK
<1>2. ListingSpec => [](AsmInv /\ ListInv)
  BY ListInvariant
<1> QED BY <1>1, <1>2, PTL
=============================================================================
