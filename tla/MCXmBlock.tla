------------------------------ MODULE MCXmBlock ------------------------------
(* Small instances of the block unit: bytes of one bit, words of four, so  *)
(* that an address space of 16 holds a rom, a ram and unmapped stretches   *)
(* below, between and above them.                                          *)
EXTENDS XmBlock

MCMemories ==
  {[x \in Cells |-> IF x[1] = "trap" THEN 0 ELSE IF x[1] = "rom" THEN 1
                    ELSE IF x[2] \in ones THEN 1 ELSE 0]
     : ones \in {{}, {0}, {0, 1, 2, 3}, {1, 2}}}
=============================================================================
