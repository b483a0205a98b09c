-------------------------------- MODULE XmCpu ---------------------------------
(***************************************************************************)
(* The simulator's CPU (isa/sim.c): main's loop around cpu_step, every     *)
(* instruction that the table can reach (ExecutedAssumption), on the       *)
(* memory of XmMemory and with the block instructions of XmBlock turn by   *)
(* turn.  The float registers hold bit patterns, out of which the host's   *)
(* IEEE arithmetic, a parameter, makes others.                             *)
(***************************************************************************)
EXTENDS XmIsa, XmBlock

CONSTANTS
  Programs,      \* images for the rom: sequences of bytes
  InitialRegs,   \* what the command line sets the registers to
  MaxTicks,      \* max_ticks
  RA,            \* XM_ABI_RA
  FloatWords,    \* the bit patterns of floats
  FloatResult(_, _, _, _),  \* what a float instruction makes of three of them
  CcTests        \* what the bits of a branch's condition test; "!" inverts

Registers == 0 .. NReg - 1
FlagNames == {"N", "Z", "C"}

ASSUME CpuAssumption ==
  /\ Programs \subseteq Seq(Bytes) /\ \A p \in Programs : Len(p) <= RomSize
  /\ InitialRegs \subseteq [Registers -> Words]
  /\ MaxTicks \in Nat /\ MaxRuns > MaxTicks
  /\ RA \in Registers
  /\ \A k \in DOMAIN InstTable : InstTable[k].name \in MemOps => InstTable[k].name \in BlockOps
  /\ CcTests \in Seq(FlagNames \cup {"!"})

(* A float has the size of a word, and zero is a word of zero bits.        *)
ASSUME FloatAssumption ==
  /\ 0 \in FloatWords /\ FloatWords \subseteq Words
  /\ \A op \in FloatOps, x, y, z \in FloatWords : FloatResult(op, x, y, z) \in FloatWords

VARIABLES
  pc, flags, r,  \* sim->cpu
  f,             \* sim->cpu.f: its bits
  ticks,         \* sim->perf.ticks
  id,            \* the instruction in execution
  status,        \* "running", "block", "halted", "stopped" or "crashed"
  program,       \* history: the image loaded
  judged,        \* history: the value N and Z were set for, C's last addition
  stored         \* history: the last word stored, while nothing else is written

cpuVars == <<pc, flags, r, f, ticks, id, status, program, judged, stored>>
vars == <<cpuVars, blockVars>>

Nothing == [a |-> 0, v |-> 0, known |-> FALSE]

Image_Unfilled(p) ==       \* a slip: the rest of the rom is left zero
  [x \in Cells |-> IF x[1] = "rom" /\ x[2] < Len(p) THEN p[x[2] + 1] ELSE 0]

(* main: the file, 0xff after it, and memory that was never written.       *)
Image(p) ==
  [x \in Cells |-> IF x[1] # "rom" THEN 0
                   ELSE IF x[2] < Len(p) THEN p[x[2] + 1] ELSE ByteMod - 1]

(* What main fills the rom with is a halt.                                 *)
ASSUME FillerAssumption == Dispatch([k \in 0 .. 3 |-> ByteMod - 1]).name = "halt"

-----------------------------------------------------------------------------
(* One step: the fetch, and what all instructions share.                   *)

(* The running instruction, and the entry of the table that it matches.    *)
Fetched == [k \in 0 .. 3 |-> Read8(mem, W(pc + k))]

Tick_Jumps(op) ==       \* a slip: a jump takes no tick
  ticks' = ticks + IF op \in JumpOps THEN 0 ELSE 1

Tick(op) == ticks' = ticks + 1

After_Late(t) == IF t > MaxTicks THEN "stopped" ELSE "running"    \* a slip: one more

(* The loop goes on until a halt or the last tick.                         *)
After(t) == IF t >= MaxTicks THEN "stopped" ELSE "running"

Goto(to) == pc' = to /\ status' = After(ticks + 1)
Advance == Goto(W(pc + 4))
NoWrite == UNCHANGED <<mem, blk, before, runs, stored>>
Set(k, v) == r' = [r EXCEPT ![k] = W(v)]

(* CPU_ALU_UPDATE_FLAGS *)
Judge(F, v) ==
  (F \ {"N", "Z"}) \cup (IF v = 0 THEN {"Z"} ELSE {})
                   \cup (IF Negative(v) THEN {"N"} ELSE {})

(* cpu_decode_r4x2i8_ifhbs *)
D(i) == Lo(i[1])
A(i) == r[Hi(i[1])]
Immediate(i) == i[3] >= HighBit
B(i) == IF Immediate(i) THEN i[2] ELSE W(r[Lo(i[2])] + Hi(i[2]))
Addr(i) == W(A(i) + IF Immediate(i) THEN i[2] * 4 ELSE Mul(r[Lo(i[2])], Hi(i[2]) * 4))

(* cpu_decode_r4x4 *)
RegB(i) == r[Lo(i[2])]
RegC(i) == r[Hi(i[2])]

-----------------------------------------------------------------------------
(* Arithmetic and logic *)

Result(op, a, b) ==
  CASE op = "add" -> W(a + b)
    [] op = "sub" -> W(a - b)
    [] op \in {"mul", "imul"} -> Mul(a, b)
    [] op = "div" -> a \div b
    [] op = "rem" -> a % b
    [] op = "and" -> OfBits(Bits(a) \cap Bits(b))
    [] op = "xor" -> OfBits((Bits(a) \ Bits(b)) \cup (Bits(b) \ Bits(a)))
    [] op = "or" -> OfBits(Bits(a) \cup Bits(b))
    [] op = "shl" -> Shl(a, b)
    [] op = "shr" -> Shr(a, b)
    [] op = "pcnt" -> Popcount(W(a + b))
    [] op = "clz" -> Clz(W(a + b))
    [] op = "clo" -> Clo(W(a + b))
    [] op = "bswap" -> Bswap(W(a + b))
    [] op = "ipcnt" -> WordBits - Popcount(W(a + b))

DividesByZero(i, op) == op \in {"div", "rem"} /\ B(i) = 0

Alu(i, op) ==
  /\ op \in AluOps
  /\ ~DividesByZero(i, op)
  /\ LET v == Result(op, A(i), B(i)) IN
       /\ Set(D(i), v)
       /\ flags' = Judge(flags, v)
       /\ judged' = [judged EXCEPT !.v = v]
  /\ Advance /\ NoWrite

FlagWord(F) == (IF "N" \in F THEN 1 ELSE 0) + (IF "Z" \in F THEN 2 ELSE 0)
                 + (IF "C" \in F THEN 4 ELSE 0)

Compare_Forgets(i, op) ==       \* a slip: cmpkp does not put the flags back
  /\ op \in CompareOps
  /\ LET sum == A(i) + B(i)
         F == Judge(IF sum >= WordMod THEN {"C"} ELSE {}, W(sum)) IN
       /\ Set(D(i), FlagWord(F))
       /\ flags' = F
       /\ judged' = IF op = "cmpkp" THEN judged
                    ELSE [v |-> W(sum), carry |-> sum >= WordMod]
  /\ Advance /\ NoWrite

(* cmp adds, whatever it is called, and both write the flags of the sum to *)
(* the register; cmpkp then puts the old flags back.                       *)
Compare(i, op) ==
  /\ op \in CompareOps
  /\ LET sum == A(i) + B(i)
         F == Judge(IF sum >= WordMod THEN {"C"} ELSE {}, W(sum)) IN
       /\ Set(D(i), FlagWord(F))
       /\ IF op = "cmpkp" THEN UNCHANGED <<flags, judged>>
          ELSE flags' = F /\ judged' = [v |-> W(sum), carry |-> sum >= WordMod]
  /\ Advance /\ NoWrite

-----------------------------------------------------------------------------
(* Memory *)

Store(i, op) ==
  /\ op \in StoreOps
  /\ LET v == r[D(i)] IN
       /\ mem' = CASE op = "stb" -> Write8(mem, Addr(i), v)
                   [] op = "stw" -> Write16(mem, Addr(i), v)
                   [] OTHER -> Write32(mem, Addr(i), v)
       /\ stored' = IF op \in {"stl", "stq"} THEN [a |-> Addr(i), v |-> v, known |-> TRUE]
                    ELSE Nothing
  /\ Advance
  /\ UNCHANGED <<r, flags, judged, blk, before, runs>>

Load(i, op) ==
  /\ op \in LoadOps
  /\ Set(D(i), CASE op = "ldb" -> Read8(mem, Addr(i))
                  [] op = "ldw" -> Read16(mem, Addr(i))
                  [] op = "lea" -> Addr(i)
                  [] OTHER -> Read32(mem, Addr(i)))
  /\ Advance /\ NoWrite
  /\ UNCHANGED <<flags, judged>>

IndTab(i, op) ==
  /\ op \in TableOps
  /\ LET size == IF op = "indtab" THEN 4 ELSE 8 IN
       Set(D(i), Read32(mem, W(A(i) + Mul(W(RegB(i) + RegC(i)), size))))
  /\ Advance /\ NoWrite
  /\ UNCHANGED <<flags, judged>>

(* A block instruction: the operands are taken, the loop of XmBlock turns, *)
(* and the register is written at the end.                                 *)
BlockBegin(i, op) ==
  /\ op \in BlockOps
  /\ BlockStart(op, A(i), RegB(i), RegC(i))
  /\ status' = "block"
  /\ UNCHANGED <<pc, r, flags, judged, stored>>

BlockGoesOn ==
  /\ status = "block"
  /\ BlockTurn
  /\ stored' = IF mem' = mem THEN stored ELSE Nothing
  /\ UNCHANGED <<pc, flags, r, f, ticks, id, status, program, judged>>

BlockFinish ==
  /\ status = "block"
  /\ ~busy
  /\ IF blk.op \in {"chtree", "chtreeunchk"} THEN UNCHANGED r ELSE Set(D(id), blk.res)
  /\ IF blk.op = "memchrf"
     THEN flags' = Judge(flags, blk.res) /\ judged' = [judged EXCEPT !.v = blk.res]
     ELSE UNCHANGED <<flags, judged>>
  /\ pc' = W(pc + 4)
  /\ status' = After(ticks)
  /\ UNCHANGED <<f, ticks, id, program>> /\ NoWrite

-----------------------------------------------------------------------------
(* Control *)

Distance(i) == SignedIn(i[2], ByteMod)

(* call takes its whole second byte for a register number: beyond the      *)
(* registers lie the float registers, and behind them the vector and tile  *)
(* registers, which nothing writes.                                        *)
CallBase(i) ==
  CASE i[1] \in Registers -> r[i[1]]
    [] i[1] - NReg \in Registers -> f[i[1] - NReg]
    [] OTHER -> 0

JumpTarget(i, op) ==
  CASE op = "jmp" -> i[1] * ByteMod + i[2]
    [] op = "jmprel" -> W(pc + SignedIn(i[1] * ByteMod + i[2], HalfMod))
    [] op = "call" -> W(CallBase(i) + Distance(i))
    [] op = "ret" -> r[RA]

(* call writes the return address after it has jumped.                     *)
Jump(i, op) ==
  /\ op \in JumpOps
  /\ LET to == JumpTarget(i, op) IN
       /\ Goto(to)
       /\ IF op = "call" THEN Set(RA, to + 4) ELSE UNCHANGED r
  /\ NoWrite
  /\ UNCHANGED <<flags, judged>>

Condition(i, op) ==
  LET x == r[Lo(i[1])] IN
  CASE op = "bz" -> x = 0
    [] op = "b" -> TRUE
    [] op = "bgzs" -> x > 0 /\ ~Negative(x)
    [] op = "bgpc" -> x > pc
    [] op = "bgpcrela" -> x > W(pc + Distance(i))
    [] op = "bo" -> x = 1
    [] op = "bgoz" -> x > 1 /\ ~Negative(x)
    [] op = "bemax" -> x = WordMod - 1
    [] OTHER -> \E k \in 1 .. 8 : op = BetOps[k] /\ x = r[k - 1]

(* The tests that the condition field asks for.                            *)
Tests(i) == {CcTests[k] : k \in {j \in DOMAIN CcTests : (Hi(i[1]) \div 2^(j - 1)) % 2 = 1}}

(* Every flag asked for has to be set as well; then ! inverts all of it.   *)
Taken(i, op) ==
  LET holds == Condition(i, op) /\ Tests(i) \ {"!"} \subseteq flags
  IN IF "!" \in Tests(i) THEN ~holds ELSE holds

(* cpu_exec_common_b *)
Branch(i, op) ==
  /\ op \in BranchOps
  /\ Goto(W(pc + IF Taken(i, op) THEN Distance(i) ELSE 4))
  /\ NoWrite
  /\ UNCHANGED <<r, flags, judged>>

-----------------------------------------------------------------------------
(* The rest *)

(* cpu_decode_f4x4: a float instruction writes one register and reads      *)
(* three; no other instruction writes any.                                 *)
FloatsAfter(i, op) ==
  IF op \in FloatOps
  THEN [f EXCEPT ![D(i)] = FloatResult(op, f[Hi(i[1])], f[Lo(i[2])], f[Hi(i[2])])]
  ELSE f

Float(op) ==
  /\ op \in FloatOps
  /\ Advance /\ NoWrite
  /\ UNCHANGED <<r, flags, judged>>

Stay == UNCHANGED <<pc, r, flags, judged>> /\ NoWrite

Halt(op) == op = "halt" /\ status' = "halted" /\ Stay

(* abort() in what is not written yet, and the processor's own trap.       *)
Crash(i, op) ==
  /\ op \in UnwrittenOps \cup {"div", "rem"}
  /\ op \in {"div", "rem"} => DividesByZero(i, op)
  /\ status' = "crashed" /\ Stay

(* No entry matches: cpu_step ends without a value, and main takes what it *)
(* finds for one.                                                          *)
Unknown(op) ==
  /\ op = "none"
  /\ status' \in {After(ticks + 1), "halted"}
  /\ Stay

-----------------------------------------------------------------------------
Init ==
  /\ program \in Programs
  /\ mem = Image(program) /\ before = mem /\ blk = Idle /\ runs = 0
  /\ pc = RomBase /\ flags = {} /\ r \in InitialRegs
  /\ f = [k \in Registers |-> 0]
  /\ ticks = 0 /\ id = [k \in 0 .. 3 |-> 0] /\ status = "running"
  /\ judged = [v |-> 1, carry |-> FALSE] /\ stored = Nothing

(* cpu_step *)
Instruction ==
  /\ status = "running"
  /\ LET i == Fetched
         op == Dispatch(i).name IN
       /\ id' = i
       /\ Tick(op)
       /\ f' = FloatsAfter(i, op)
       /\ \/ Alu(i, op) \/ Compare(i, op) \/ Store(i, op) \/ Load(i, op)
          \/ IndTab(i, op) \/ BlockBegin(i, op) \/ Jump(i, op) \/ Branch(i, op)
          \/ Float(op) \/ Halt(op) \/ Crash(i, op) \/ Unknown(op)
  /\ UNCHANGED program

Step == Instruction \/ BlockGoesOn \/ BlockFinish

Spec == Init /\ [][Step]_vars

(* One thread, that does nothing but turn the loop.                        *)
FairSpec == Spec /\ WF_vars(Step)

-----------------------------------------------------------------------------
(* Properties *)

(* The registers stay words; the loop takes one step even when it is given *)
(* no ticks, and never one more than it is given.                          *)
CpuTypeOK ==
  /\ pc \in Words /\ r \in [Registers -> Words] /\ flags \subseteq FlagNames
  /\ f \in [Registers -> FloatWords]
  /\ mem \in Memories /\ id \in Code
  /\ status \in {"running", "block", "halted", "stopped", "crashed"}
  /\ ticks <= MaxTicks \/ ticks = 1
  /\ status = "running" /\ ticks > 0 => ticks < MaxTicks

(* The flags are those of the last instruction that sets them, whatever    *)
(* has run since: N and Z of its result, C of the last cmp's sum.  A       *)
(* cmpkp, a load, a store, a block instruction or a jump leaves no trace.  *)
FlagsDescribe ==
  flags = Judge(IF judged.carry THEN {"C"} ELSE {}, judged.v)

(* A word that was stored and not written over reads back with its bytes   *)
(* in the opposite order: stores put the low byte first, loads the high.   *)
LoadSwaps ==
  stored.known /\ PageSize >= 4 => Read32(mem, stored.a) = Bswap(stored.v)

(* A program without jumps, stores and block instructions goes through its *)
(* lines and halts on the filler after the last, if it has the ticks and   *)
(* nothing divides by zero.                                                *)
StraightOps == AluOps \cup CompareOps \cup LoadOps \cup TableOps \cup FloatOps
LineOf(p, k) == [j \in 0 .. 3 |-> p[4 * k - 3 + j]]
Straight(p) ==
  /\ Len(p) % 4 = 0 /\ Len(p) + 4 <= RomSize /\ MaxTicks > (Len(p) \div 4) + 1
  /\ \A k \in 1 .. Len(p) \div 4 : Dispatch(LineOf(p, k)).name \in StraightOps

StraightHalts ==
  Straight(program) =>
    /\ status # "stopped"
    /\ status = "halted" => pc = RomBase + Len(program)
    /\ pc = RomBase + 4 * (ticks - IF status \in {"halted", "crashed"} THEN 1 ELSE 0)

(* The simulator stops, whatever it is given to run and wherever it jumps: *)
(* only strcpy can keep it.                                                *)
RunEnds == "strcpy" \notin BlockOps => <>(status \in {"halted", "stopped", "crashed"})
===============================================================================
