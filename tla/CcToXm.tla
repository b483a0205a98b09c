-------------------------------- MODULE CcToXm --------------------------------
(***************************************************************************)
(* From a syntax tree to the registers: what the compiler writes (CcLower) *)
(* is assembled (XmAsm) and run on the simulator (XmCpu), behind one       *)
(* branch, written by hand, to one of its functions.  The simulator is     *)
(* given the arguments (-a0 and so on) and -ra, so that a ret begins all   *)
(* over, with the registers as they are then.                              *)
(*                                                                         *)
(* Left out of the compiler's text are its .section lines, for which the   *)
(* assembler has no bytes.  A text that names no register where it should  *)
(* is not followed further.                                                *)
(***************************************************************************)
EXTENDS CcLower

CONSTANTS
  ByteMod, NReg, InstTable, NoLabel,                    \* as in XmIsa, XmAsm
  PageSize, RomBase, RomSize, RamBase, RamSize,         \* as in XmMemory
  MaxTicks,                                             \* as in XmCpu
  Arguments     \* bound: what the A registers are given, from a0

VARIABLES
  entry,     \* the function that is branched to, 0 before
  given,     \* history: the arguments
  source, out, apc, labels, fixups, fixing, reported, aphase,
  pc, flags, r, floats, ticks, id, status, program, judged, stored,
  mem, blk, before, runs

asmState == <<source, out, apc, labels, fixups, fixing, reported, aphase>>
cpuState == <<pc, flags, r, floats, ticks, id, status, program, judged, stored,
              mem, blk, before, runs>>
vars == <<lowerVars, entry, given, asmState, cpuState>>

(* The registers' numbers (isa/isa.h).                                     *)
XM_ABI_T0 == 0
XM_ABI_A0 == NT
XM_ABI_RA == NT + NA
XM_ABI_BP == XM_ABI_RA + 1
XM_ABI_SP == XM_ABI_RA + 2
XM_ABI_TP == XM_ABI_RA + 3

Number_Bare(reg) ==       \* a slip: an A register by its own number
  CASE reg < T0 -> reg
    [] reg \in T0 .. T7 -> reg - T0 + XM_ABI_T0
    [] reg \in A0 .. A3 -> reg - A0
    [] reg = RA -> XM_ABI_RA
    [] reg = BP -> XM_ABI_BP
    [] reg = SP -> XM_ABI_SP
    [] reg = TP -> XM_ABI_TP

(* asm_parse_asm_operand, of what asm_regname has for a register.  A float *)
(* register is reported, and its number written like any other.            *)
Number(reg) ==
  CASE reg < T0 -> reg
    [] reg \in T0 .. T7 -> reg - T0 + XM_ABI_T0
    [] reg \in A0 .. A3 -> reg - A0 + XM_ABI_A0
    [] reg = RA -> XM_ABI_RA
    [] reg = BP -> XM_ABI_BP
    [] reg = SP -> XM_ABI_SP
    [] reg = TP -> XM_ABI_TP

NoLines(s) == {}
NoFloat(op, x, y, z) == 0
Asm == INSTANCE XmAsm WITH pc <- apc, phase <- aphase, NextLines <- NoLines
Cpu == INSTANCE XmCpu WITH
  f <- floats, FloatWords <- {0}, FloatResult <- NoFloat,
  RA <- XM_ABI_RA, Programs <- {}, InitialRegs <- {}, CcTests <- << >>,
  BlockOps <- {}, Operands <- {}, InitialMemories <- {}, MaxRuns <- 0

-----------------------------------------------------------------------------
(* The mnemonics of cc_asm_lower_func.                                     *)
Mnemonic(op) ==
  CASE op = "ADD" -> "add" [] op = "SUB" -> "sub" [] op = "MUL" -> "mul"
    [] op = "DIV" -> "div" [] op = "REM" -> "rem" [] op = "LSHIFT" -> "shl"
    [] op = "RSHIFT" -> "shr" [] op = "XOR" -> "xor" [] op = "OR" -> "or"
    [] op = "AND" -> "and"

Entry(name) == InstTable[First({k \in DOMAIN InstTable : InstTable[k].name = name})]

Line(name, d, a, b, label) ==
  [kind |-> "inst", entry |-> Entry(name),
   operands |-> [d |-> d, a |-> a, b |-> b, c |-> 0, imm |-> FALSE, label |-> label]]

(* What the assembler reads where the compiler wrote t.                    *)
Text(t) ==
  CASE t[1] = "label" -> [kind |-> "label", name |-> t[2]]
    [] t[1] = "ret" -> Line("ret", 0, 0, 0, NoLabel)
    [] OTHER -> Line(Mnemonic(t[1]), Number(t[2]), Number(t[3]), Number(t[4]), NoLabel)

Named == \A k \in DOMAIN asm : asm[k][1] \in BinOps => \A j \in 2 .. 4 : asm[k][j] < SPILL

(* b $r0,function: the line in front.                                      *)
AssembleEntry ==
  /\ phase = "done" /\ Named
  /\ source = << >>
  /\ \E f \in DOMAIN funcs : entry' = f /\ Asm!AssembleInst(Line("b", 0, 0, 0, f))
  /\ UNCHANGED <<lowerVars, given, cpuState>>

AssembleText ==
  /\ Len(source) \in DOMAIN asm
  /\ LET l == Text(asm[Len(source)]) IN Asm!AssembleInst(l) \/ Asm!AssembleLabel(l)
  /\ UNCHANGED <<lowerVars, entry, given, cpuState>>

AssembleRest ==
  /\ Len(source) = Len(asm) + 1
  /\ Asm!AssembleEnd \/ Asm!FixupTurn
  /\ UNCHANGED <<lowerVars, entry, given, cpuState>>

(* main of isa/sim.c, up to its loop.                                      *)
Load ==
  /\ aphase = "listing" /\ status = "off"
  /\ given' \in Arguments
  /\ r' = [k \in 0 .. NReg - 1 |->
             CASE k \in XM_ABI_A0 .. XM_ABI_A0 + NA - 1 -> given'[k - XM_ABI_A0]
               [] k = XM_ABI_RA -> RomBase
               [] OTHER -> 0]
  /\ program' = out
  /\ mem' = Cpu!Image(out)
  /\ status' = "running"
  /\ UNCHANGED <<lowerVars, entry, asmState, pc, flags, floats, ticks, id, judged, stored,
                 blk, before, runs>>

Run ==
  /\ Cpu!Step
  /\ UNCHANGED <<lowerVars, entry, given, asmState>>

Init ==
  /\ LowerInit /\ Asm!AsmInit
  /\ entry = 0 /\ given = << >>
  /\ mem = Cpu!Image(<< >>) /\ before = mem /\ blk = Cpu!Idle /\ runs = 0
  /\ pc = RomBase /\ flags = {} /\ r = [k \in 0 .. NReg - 1 |-> 0]
  /\ floats = [k \in 0 .. NReg - 1 |-> 0]
  /\ ticks = 0 /\ id = [k \in 0 .. 3 |-> 0] /\ status = "off" /\ program = << >>
  /\ judged = [v |-> 1, carry |-> FALSE] /\ stored = Cpu!Nothing

Next ==
  \/ LowerNext /\ UNCHANGED <<entry, given, asmState, cpuState>>
  \/ AssembleEntry \/ AssembleText \/ AssembleRest
  \/ Load \/ Run

Spec == Init /\ [][Next]_vars

-----------------------------------------------------------------------------
(* Properties *)

WindowOf(f) == SubSeq(toks, funcs[f].pos + 1, funcs[f].pos + funcs[f].len)
Returns(f) == SelectSeq(WindowOf(f), LAMBDA t : t.type = "RETURN")
Operations(f) == SelectSeq(WindowOf(f), LAMBDA t : t.type \in BinOps)

(* What a syntax node's term (CcEmit) comes to with these arguments.  A    *)
(* literal, a condition or a block has no value in a register.             *)
RECURSIVE Evaluate(_)
Evaluate(term) ==
  CASE term[1] = "param" ->
         IF term[2] \in DOMAIN given THEN {given[term[2]]} ELSE {}
    [] term[1] = "ADD" -> {Cpu!W(x + y) : x \in Evaluate(term[2]), y \in Evaluate(term[3])}
    [] term[1] = "SUB" -> {Cpu!W(x - y) : x \in Evaluate(term[2]), y \in Evaluate(term[3])}
    [] term[1] = "MUL" -> {Cpu!Mul(x, y) : x \in Evaluate(term[2]), y \in Evaluate(term[3])}
    [] OTHER -> {}

(* The register that an id is in: a parameter's, or the one that the line  *)
(* of its operation writes.                                                *)
LinesOf(f) ==
  SelectSeq(SubSeq(asm, First({k \in DOMAIN asm : asm[k] = <<"label", f>>}), Len(asm)),
            LAMBDA l : l[1] \in BinOps)
RegisterIn(f, i) ==
  IF i \in ParamIds THEN A0 + i - ID_PARAM(0)
  ELSE LinesOf(f)[First({k \in DOMAIN Operations(f) : Operations(f)[k].res = i})][2]

AtReturn == status = "running" /\ Cpu!Dispatch(Cpu!Fetched).name = "ret"

(* What the optimiser left of the function still means what the source     *)
(* says.  It need not: the reused pass merges a * b into a * a (CcOptimise,*)
(* RemovesOnlyRedundant).                                                  *)
StillMeant(f) == \A p \in Live(f) : Translates(f, p)

(* When a compiled function comes to its first ret, on the simulator, the  *)
(* value of the expression that the source returns is in the register of   *)
(* the token that was compiled from it, unless the optimiser had changed   *)
(* what the function means: three programs number the registers alike, the *)
(* operands are taken in the source's order, a merged operation is read    *)
(* where the one that stays was written, each branch goes to the function  *)
(* it names, and nothing before the ret writes the register again.  It     *)
(* holds for each function in the file and also the second time it runs.   *)
(* Where the value is, is the compiler's affair: nothing in it moves the   *)
(* value to $r8, which is where isa/isa.h says that it is returned.        *)
CompiledComputes ==
  AtReturn /\ Returns(entry) # << >> /\ StillMeant(entry) =>
    LET t == Returns(entry)[1] IN
      \A v \in Evaluate(src[entry][t.res]) : r[Number(RegisterIn(entry, t.args[0]))] = v
===============================================================================
