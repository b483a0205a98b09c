------------------------------- MODULE XmMemory ------------------------------
(***************************************************************************)
(* The simulator's memory (isa/sim.c): the address map of cpu_translate    *)
(* and the accesses built on it.                                           *)
(***************************************************************************)
EXTENDS XmWord

CONSTANTS
  PageSize,           \* PAGE_SIZE, the size of the trap page
  RomBase, RomSize,   \* SIM_ROM_BASE, SIM_ROM_SIZE
  RamBase, RamSize    \* SIM_RAM_BASE, SIM_RAM_SIZE

ASSUME MapAssumption ==
  /\ PageSize \in Nat \ {0}
  /\ RomBase \in Nat /\ RomSize \in Nat \ {0} /\ RamBase \in Nat /\ RamSize \in Nat \ {0}
  /\ RomBase + RomSize <= RamBase
  /\ RamBase + RamSize <= WordMod
  /\ WordMod % PageSize = 0

RomCells == {"rom"} \X (0 .. RomSize - 1)
RamCells == {"ram"} \X (0 .. RamSize - 1)
TrapCells == {"trap"} \X (0 .. PageSize - 1)
Cells == RomCells \cup RamCells \cup TrapCells
Memories == [Cells -> Bytes]

(* cpu_translate: every address that is not mapped falls in the trap page, *)
(* and the permission asked for is not looked at.                          *)
Translate(a) ==
  CASE RomBase <= a /\ a < RomBase + RomSize -> <<"rom", a - RomBase>>
    [] RamBase <= a /\ a < RamBase + RamSize -> <<"ram", a - RamBase>>
    [] OTHER -> <<"trap", a % PageSize>>

Cell(a, k) == Translate(W(a + k))

(* Reads put the byte at the lower address on top, writes at the bottom.   *)
Read8(m, a) == m[Translate(a)]
Read16(m, a) == Read8(m, a) * ByteMod + Read8(m, W(a + 1))
Read32(m, a) == Read16(m, a) * HalfMod + Read16(m, W(a + 2))

Write8_Whole(m, a, v) ==      \* a slip: the value is not cut to a byte
  [m EXCEPT ![Translate(a)] = v]

Write8(m, a, v) == [m EXCEPT ![Translate(a)] = v % ByteMod]

Write16_Top(m, a, v) ==       \* a slip: the bytes as the reads take them
  Write8(Write8(m, a, v \div ByteMod), W(a + 1), v)

Write16(m, a, v) == Write8(Write8(m, a, v), W(a + 1), v \div ByteMod)
Write32(m, a, v) == Write16(Write16(m, a, v), W(a + 2), v \div HalfMod)
=============================================================================
