----------------------------- MODULE MCCcLower ----------------------------
(* Small instances of the compiler.                                        *)
EXTENDS CcLower

MCLevel == [op \in BinOps \cup CondOps |->
              CASE op = "MUL" -> 1 [] op = "DIV" -> 2 [] op = "SUB" -> 3
                [] op = "ADD" -> 4 [] OTHER -> 7]
=============================================================================
