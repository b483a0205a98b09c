------------------------------- MODULE MCCcToXm -------------------------------
(* The compiler as in MCCcLower; bytes of six bits and eight registers, as *)
(* in MCXmCpu: three T registers, two A registers and the next three.  TP, *)
(* which no line of the compiler names, would be the ninth.                *)
EXTENDS CcToXm

MCLevel == [op \in BinOps \cup CondOps |-> CASE op = "MUL" -> 1 [] op = "SUB" -> 3 [] OTHER -> 7]

Isa == INSTANCE XmIsa WITH InstTable <- << >>     \* for its Group

MCTable ==
     Isa!Group("R4R4I8O8_IFHBS", 0, <<"add", "sub", "mul">>)
  \o Isa!Group("U16O8", 19, <<"ret">>) \o Isa!Group("R4U4RA8O8", 40, <<"bz", "b">>)
  \o Isa!Group("D8", 7, <<"halt">>)

(* Two numbers for a0, the second of them negative where it is signed, and *)
(* a1 differs from both.                                                   *)
Argument(x) == [n \in 0 .. NA - 1 |-> x + 3 * n]
TwoArguments == {Argument(5), Argument(16777211)}
===============================================================================
