-------------------------------- MODULE XmIsa ---------------------------------
(***************************************************************************)
(* The instruction set (isa/isa.h), as its three users read it: the        *)
(* assembler's encoder (isa/asm.c), the simulator's matcher (isa/sim.c)    *)
(* and the disassembler's lookup (isa/dis.c).  The instruction table is a  *)
(* parameter, RealTable the one of isa.h; the CPU's small instances take   *)
(* an excerpt.                                                             *)
(***************************************************************************)
EXTENDS XmWord, Sequences

CONSTANTS
  NReg,        \* 16: registers, and the values of half a byte
  InstTable    \* xm_inst_table: a sequence of [name, format, op]

ASSUME RegAssumption == NReg \in Nat /\ NReg * NReg = ByteMod

HighBit == ByteMod \div 2
ASSUME HighBitAssumption == ByteMod = HighBit + HighBit

IntegerFormats == {"R4R4I8O8_IFHBS", "R4R4R4R4", "AA16O8", "RA16O8",
                   "R4U4RA8O8", "U16O8"}
FloatFormats == {"F4F4F4F4", "R4F4F4F4"}

(* xm_get_cb0_from_format *)
Cb0(format) ==
  CASE format \in IntegerFormats -> "integer"
    [] format \in FloatFormats -> "float"
    [] OTHER -> "debug"

(* XM_INST_LIST, group by group: consecutive opcodes share a line.         *)
Group(format, first, names) ==
  [k \in 1 .. Len(names) |-> [name |-> names[k], format |-> format, op |-> first + k - 1]]

RealTable ==
     Group("R4R4I8O8_IFHBS", 0,
       <<"add", "sub", "mul", "div", "rem", "imul", "and", "xor", "or", "shl", "shr",
         "pcnt", "clz", "clo", "bswap", "ipcnt", "stb", "stw", "stl", "stq",
         "ldb", "ldw", "ldl", "ldq", "lea">>)
  \o Group("R4R4I8O8_IFHBS", 32, <<"cmp", "cmpkp">>)
  \o Group("R4R4R4R4", 48,
       <<"memcpy", "memmov", "memset", "memchr", "memchrf", "strcpy", "strcat",
         "strpbrk", "strncpy", "strncat", "strchr", "strnchr", "indtab", "indtab8",
         "chtree">>)
  \o Group("R4R4R4R4", 62, <<"chtreeunchk">>)
  \o Group("AA16O8", 64, <<"jmp">>) \o Group("RA16O8", 65, <<"jmprel">>)
  \o Group("R4U4RA8O8", 66, <<"call">>) \o Group("U16O8", 67, <<"ret">>)
  \o Group("R4U4RA8O8", 80,
       <<"bz", "b", "bgzs", "bgpc", "bgpcrela", "bo", "bgoz", "bemax",
         "bet0", "bet1", "bet2", "bet3", "bet4", "bet5", "bet6", "bet7">>)
  \o Group("F4F4F4F4", 0,
       <<"fadd3", "fsub3", "fdiv3", "fmul3", "fmod3", "fmadd", "fmsub", "fsqrt3",
         "fhyp", "fnorm", "fabs", "fsign", "fnabs", "fcos", "fsin", "ftan", "facos",
         "fatan", "fasin", "fcbrt", "fy0", "fy1", "fj0", "fj1", "fexp", "frsqrt",
         "frcbrt", "fpow2", "fpow3", "fmax", "fmin", "fclamp", "finv", "fconstpi",
         "fconste", "fconstpi2", "frad", "fdeg", "fsel", "fsel2", "fgamma",
         "flgamma", "fround", "ffloor", "fceil">>)
  \o Group("F4F4F4F4", 48, <<"faddcrr", "fsubcrr", "fdivcrr", "fmulcrr", "fsqrtcrr">>)
  \o Group("F4F4F4F4", 64, <<"faddcri", "fsubcri", "fdivcri", "fmulcri", "fsqrtcri">>)
  \o Group("R4F4F4F4", 128, <<"fcvti", "icvtf", "fcvtri", "icvtrf">>)
  \o Group("D8", 15, <<"halt">>)

(* The names, by what the simulator does with them: its groups of handlers *)
(* (isa/sim.c).  strcat and its like are written as abort().               *)
AluOps == {"add", "sub", "mul", "div", "rem", "imul", "and", "xor", "or", "shl",
           "shr", "pcnt", "clz", "clo", "bswap", "ipcnt"}
CompareOps == {"cmp", "cmpkp"}
StoreOps == {"stb", "stw", "stl", "stq"}
LoadOps == {"ldb", "ldw", "ldl", "ldq", "lea"}
TableOps == {"indtab", "indtab8"}
MemOps == {"memcpy", "memmov", "memset", "memchr", "memchrf", "strcpy", "strncpy",
           "chtree", "chtreeunchk"}
UnwrittenOps == {"strcat", "strpbrk", "strncat", "strchr", "strnchr"}
JumpOps == {"jmp", "jmprel", "call", "ret"}
BetOps == <<"bet0", "bet1", "bet2", "bet3", "bet4", "bet5", "bet6", "bet7">>
BranchOps == {"bz", "b", "bgzs", "bgpc", "bgpcrela", "bo", "bgoz", "bemax"}
               \cup {BetOps[k] : k \in 1 .. 8}

(* Of the float instructions, those that no integer one takes first.       *)
FloatOps == {"frsqrt", "frcbrt", "fpow2", "fpow3", "fmax", "fmin", "fclamp",
             "fconste", "fconstpi2", "frad", "fdeg", "fsel", "fsel2", "fgamma",
             "flgamma", "fround", "ffloor", "fceil", "fsqrtcri"}

Executed == AluOps \cup CompareOps \cup StoreOps \cup LoadOps \cup TableOps
              \cup MemOps \cup UnwrittenOps \cup JumpOps \cup BranchOps
              \cup FloatOps \cup {"halt", "none"}

(* An opcode has a byte, and lacks the high bit where that has a meaning.  *)
ASSUME OpcodeAssumption ==
  /\ InstTable \in Seq([name : STRING, format : STRING, op : Bytes])
  /\ \A k \in DOMAIN InstTable :
       InstTable[k].format = "R4R4I8O8_IFHBS" => InstTable[k].op < HighBit

-----------------------------------------------------------------------------
(* An instruction is four bytes; half a byte is a register or a small      *)
(* number.                                                                 *)
Code == [0 .. 3 -> Bytes]
Lo(b) == b % NReg
Hi(b) == b \div NReg

Pack(lo, hi) == (lo % NReg) + (hi % NReg) * NReg

(* The operands of a line: registers d, a, b, c, or d, a and the immediate *)
(* b; of a branch, register d, distance b and condition c.                 *)
EncodeImm(e, o) == <<Pack(o.d, o.a), o.b % ByteMod, e.op + HighBit>>

(* asm_firstpass: the bytes of a line.  The formats it does not handle     *)
(* have none.                                                              *)
Encode(e, o) ==
  LET bytes(cb, b) == <<cb, b[1], b[2], b[3]>> IN
  CASE e.format = "R4R4I8O8_IFHBS" /\ o.imm -> bytes(0, EncodeImm(e, o))
    [] e.format = "R4R4I8O8_IFHBS" /\ ~o.imm ->
         bytes(0, <<Pack(o.d, o.a), Pack(o.b, o.c), e.op>>)
    [] e.format = "U16O8" -> bytes(0, <<0, 0, e.op>>)
    [] e.format = "R4U4RA8O8" -> bytes(0, <<Pack(o.d, o.c), o.b % ByteMod, e.op>>)
    [] e.format = "R4R4R4R4" -> bytes(0, <<Pack(o.d, o.a), Pack(o.b, o.c), e.op>>)
    [] e.format = "F4F4F4F4" -> bytes(1, <<Pack(o.d, o.a), Pack(o.b, o.c), e.op>>)
    [] OTHER -> << >>

NoInst == [name |-> "none", format |-> "none", op |-> 0]

xm_inst_table == InstTable      \* a definition, so that TLC evaluates it once

FirstOf(hits) == IF hits = {} THEN NoInst ELSE xm_inst_table[Min(hits)]

Match_Masked(b0, b3, e) ==       \* a slip: one bit too many is cut off
  CASE Cb0(e.format) = "debug" -> Hi(b0) = e.op
    [] e.format = "R4R4I8O8_IFHBS" -> b3 % (HighBit \div 2) = e.op
    [] OTHER -> b3 = e.op

(* cpu_match_inst, of the first and the last byte of an instruction: the   *)
(* control byte is looked at for the debug format only.                    *)
Match(b0, b3, e) ==
  CASE Cb0(e.format) = "debug" -> Hi(b0) = e.op
    [] e.format = "R4R4I8O8_IFHBS" -> b3 % HighBit = e.op
    [] OTHER -> b3 = e.op

(* cpu_step: the first entry of the table that matches.                    *)
Dispatch(id) ==
  LET b0 == id[0] b3 == id[3] IN
    FirstOf({k \in DOMAIN xm_inst_table : Match(b0, b3, xm_inst_table[k])})

(* Whatever bytes are fetched, the simulator's model has a step for what   *)
(* they run as.  Only half of the first byte is ever looked at.            *)
ASSUME ExecutedAssumption ==
  \A cb \in 0 .. NReg - 1, b3 \in Bytes :
    Dispatch([k \in 0 .. 3 |-> IF k = 0 THEN cb * NReg ELSE b3]).name \in Executed

(* dis_disassemble: the first entry with that opcode, whatever its format. *)
Listed(b3) == FirstOf({k \in DOMAIN xm_inst_table : xm_inst_table[k].op = b3 % HighBit})
===============================================================================
