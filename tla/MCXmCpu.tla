------------------------------- MODULE MCXmCpu --------------------------------
(* Bytes of six bits, words of twenty-four, eight registers.  The table is *)
(* an excerpt of the real one at opcodes that six bits hold: one for the   *)
(* arithmetic and the memory, one for the control and the blocks.          *)
EXTENDS XmCpu, SequencesExt

DataTable ==
     Group("R4R4I8O8_IFHBS", 0,
       <<"add", "sub", "mul", "div", "rem", "imul", "and", "xor", "or", "shl", "shr",
         "pcnt", "clz", "clo", "bswap", "ipcnt", "stb", "stw", "stl", "stq",
         "ldb", "ldw", "ldl", "ldq", "lea", "cmp", "cmpkp">>)
  \o Group("R4R4R4R4", 28, <<"strcat", "indtab", "indtab8">>)
  \o Group("F4F4F4F4", 27, <<"fceil">>)
  \o Group("F4F4F4F4", 59, <<"frsqrt", "fmax", "fgamma", "fsqrtcri">>)
  \o Group("D8", 7, <<"halt">>)

ControlTable ==
     Group("R4R4I8O8_IFHBS", 0, <<"add", "cmp", "stl">>)
  \o Group("R4R4R4R4", 8, <<"memcpy", "memset", "memchrf", "chtree", "strncpy">>)
  \o Group("AA16O8", 16, <<"jmp">>) \o Group("RA16O8", 17, <<"jmprel">>)
  \o Group("R4U4RA8O8", 18, <<"call">>) \o Group("U16O8", 19, <<"ret">>)
  \o Group("R4U4RA8O8", 40,
       <<"bz", "b", "bgzs", "bgpc", "bgpcrela", "bo", "bgoz", "bemax",
         "bet0", "bet1", "bet2", "bet3", "bet4", "bet5", "bet6", "bet7">>)
  \o Group("F4F4F4F4", 24, <<"frsqrt", "fmax", "fclamp">>)
  \o Group("D8", 7, <<"halt">>)

(* Three bit patterns: zero, an address of the rom and one of the ram.     *)
(* Which instruction makes which of them has nothing to do with IEEE.      *)
MCFloatWords == {0, RomBase + 4, RamBase}
MCFloat(op, x, y, z) ==
  CASE op = "frsqrt" -> IF {x, y, z} = {0} THEN RomBase + 4 ELSE RamBase
    [] op = "fmax" -> IF x > z THEN x ELSE z
    [] OTHER -> 0

(* A line by its name, d, a, b, c; and with an immediate or a distance.    *)
Entry(name) == InstTable[CHOOSE k \in DOMAIN InstTable : InstTable[k].name = name]
Line(name, d, a, b, c) ==
  Encode(Entry(name), [d |-> d, a |-> a, b |-> b, c |-> c, imm |-> FALSE])
Imm(name, d, a, b) ==
  Encode(Entry(name), [d |-> d, a |-> a, b |-> b, c |-> 0, imm |-> TRUE])
Br(name, d, distance, cc) ==
  Encode(Entry(name), [d |-> d, a |-> 0, b |-> distance, c |-> cc, imm |-> FALSE])
Raw(name, b1, b2) == <<0, b1, b2, Entry(name).op>>

UpTo(n, lines) == UNION {{FlattenSeq(s) : s \in [1 .. k -> lines]} : k \in 1 .. n}

DataLines ==
  {Imm("add", 1, 1, 40), Line("sub", 1, 0, 1, 0), Line("cmp", 2, 1, 1, 3),
   Imm("cmpkp", 2, 1, 9), Line("mul", 3, 1, 1, 1), Line("div", 1, 1, 2, 0),
   Imm("stl", 1, 6, 1), Line("stl", 1, 1, 2, 1), Imm("stb", 1, 6, 1),
   Imm("ldl", 3, 6, 1), Imm("clz", 4, 1, 3)}

OtherLines ==
  {Line(DataTable[k].name, 2, 1, 5, 3) : k \in 1 .. 30} \cup
  {Imm(DataTable[k].name, 2, 1, 7) : k \in 1 .. 27} \cup
  {Line(name, 1, 2, 3, 4) : name \in FloatOps \cap {e.name : e \in Range(DataTable)}} \cup
  {<<0, 0, 0, 31>>}

DataPrograms == UpTo(3, DataLines) \cup OtherLines \cup {<<63, 0, 0, 0>>, <<1, 2>>}

ControlLines ==
  {Imm("add", 1, 1, 63), Line("cmp", 2, 1, 1, 0), Imm("stl", 1, 7, 1),
   Line("memcpy", 2, 7, 6, 5), Line("memset", 2, 6, 0, 5), Line("memchrf", 2, 7, 5, 5),
   Line("chtree", 2, 6, 5, 5), Br("b", 1, -4, 0), Br("bgzs", 1, -8, 3),
   Br("bet1", 2, 8, 6), Br("call", 7, 8, 0), Line("ret", 0, 0, 0, 0)}

ControlOthers ==
  {Br(ControlTable[k].name, d, 8, cc) : k \in 13 .. 28, d \in 0 .. 2, cc \in {0, 1, 6}} \cup
  {Raw("jmp", 0, 20), Raw("jmp", 3, 0), Raw("jmprel", 63, 60), Br("call", 7, 8, 5),
   Line("strncpy", 3, 6, 7, 5)}

(* call through the float registers, which lie behind the others, and      *)
(* through the vector registers behind those.                              *)
FloatLines ==
  {Line("frsqrt", 1, 0, 0, 0), Line("frsqrt", 2, 1, 0, 0), Line("fmax", 3, 1, 0, 2),
   Line("fclamp", 1, 2, 2, 2), Br("call", 1, 4, 1), Br("call", 3, -4, 1), Br("call", 1, 8, 2)}

ControlPrograms == UpTo(3, ControlLines) \cup ControlOthers \cup UpTo(3, FloatLines)

(* $r6 in the ram, $r7 (the return address) at the rom; $r1 negative or    *)
(* one, $r5 a small count.                                                 *)
Regs(x) == [k \in Registers |-> CASE k = 1 -> x [] k = 5 -> 3 [] k = 6 -> RamBase
                                  [] k = 7 -> RomBase [] OTHER -> 0]
MCTests == <<"!", "Z", "C">>
MCRegs == {Regs(1), Regs(WordMod - 30)}
SmallRegs == {Regs(1)}
===============================================================================
