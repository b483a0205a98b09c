----------------------------- MODULE MCCcOptimise ----------------------------
(* Small instances of the emitter and the optimiser.                       *)
EXTENDS CcOptimise

MCLevel == [op \in BinOps \cup CondOps |->
              CASE op = "MUL" -> 1 [] op = "DIV" -> 2 [] op = "SUB" -> 3
                [] op = "ADD" -> 4 [] OTHER -> 7]
=============================================================================
