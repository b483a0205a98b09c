------------------------------- MODULE XmBlock -------------------------------
(***************************************************************************)
(* The block instructions of the simulator (isa/sim.c, memcpy to           *)
(* chtreeunchk).  One step is one turn of the instruction's loop, so that  *)
(* what a copy reads after it has written is visible, and so is a loop     *)
(* that does not end.  The operands are captured by cpu_decode_r4x4 before *)
(* the loop starts.                                                        *)
(***************************************************************************)
EXTENDS XmMemory

CONSTANTS
  BlockOps,    \* the instructions that run
  Operands,    \* the register values they are given
  InitialMemories,
  MaxRuns      \* bound: instructions of one behaviour

AllBlockOps == {"memcpy", "memmov", "memset", "memchr", "memchrf", "strcpy",
                "strncpy", "chtree", "chtreeunchk"}
ASSUME BlockOpsAssumption == BlockOps \subseteq AllBlockOps
ASSUME OperandsAssumption ==
  Operands \subseteq Words /\ InitialMemories \subseteq Memories /\ MaxRuns \in Nat

VARIABLES
  mem,      \* rom, ram and trap_page
  blk,      \* the running instruction, or Idle
  before,   \* history: the memory when the instruction started
  runs      \* instructions started (the bound's counter)

blockVars == <<mem, blk, before, runs>>

Idle == [op |-> "idle", a |-> 0, b |-> 0, c |-> 0, i |-> 0, res |-> 0, over |-> TRUE]

busy == ~blk.over

(* The loop's next turn and its end; an address is cut to a word, so a     *)
(* counter that runs on comes round.                                       *)
Turn == blk' = [blk EXCEPT !.i = W(@ + 1)]
Over == blk' = [blk EXCEPT !.over = TRUE]
Found(p) == blk' = [blk EXCEPT !.over = TRUE, !.res = p]

Runs(ops) == busy /\ blk.op \in ops
Counted == Runs({"memcpy", "memmov", "memset", "memchr", "memchrf", "strncpy"})

Copy(to, from) ==
  mem' = Write8(mem, W(blk.a + to), Read8(mem, W(blk.b + from)))

Keep == UNCHANGED <<before, runs>>

-----------------------------------------------------------------------------
(* The decoded instruction: what $rD is given unless the loop says other.  *)
Started(op, a, b, c) ==
  [op |-> op, a |-> a, b |-> b, c |-> c, i |-> 0,
   res |-> IF op \in {"memchr", "memchrf"} THEN 0 ELSE a, over |-> FALSE]

BlockStart(op, a, b, c) ==
  /\ ~busy
  /\ runs < MaxRuns
  /\ blk' = Started(op, a, b, c)
  /\ before' = mem
  /\ runs' = runs + 1
  /\ UNCHANGED mem

(* The condition of the for loops: i < ds.c.                               *)
CountOver ==
  /\ Counted
  /\ blk.i >= blk.c
  /\ Over
  /\ UNCHANGED mem /\ Keep

CopyTurn_Backwards ==       \* a slip: memcpy starts at the end
  /\ Runs({"memcpy"})
  /\ blk.i < blk.c
  /\ Copy(blk.c - blk.i, blk.c - blk.i)
  /\ Turn /\ Keep

CopyTurn ==
  /\ Runs({"memcpy"})
  /\ blk.i < blk.c
  /\ Copy(blk.i, blk.i)
  /\ Turn /\ Keep

(* memmov: forwards when the destination is above the source.              *)
MoveTurn ==
  /\ Runs({"memmov"})
  /\ blk.i < blk.c
  /\ LET k == IF blk.a > blk.b THEN blk.i ELSE blk.c - blk.i IN Copy(k, k)
  /\ Turn /\ Keep

SetTurn ==
  /\ Runs({"memset"})
  /\ blk.i < blk.c
  /\ mem' = Write8(mem, W(blk.a + blk.i), blk.b)
  /\ Turn /\ Keep

SearchTurn_Goes ==       \* a slip: the last byte compared decides
  /\ Runs({"memchr", "memchrf"})
  /\ blk.i < blk.c
  /\ blk' = [blk EXCEPT !.i = W(@ + 1),
                        !.res = IF Read8(mem, W(blk.a + blk.i)) = blk.b THEN blk.a ELSE 0]
  /\ UNCHANGED mem /\ Keep

(* memchr and memchrf: the byte is compared with the whole register, and   *)
(* the result is where the search started.                                 *)
SearchTurn ==
  /\ Runs({"memchr", "memchrf"})
  /\ blk.i < blk.c
  /\ IF Read8(mem, W(blk.a + blk.i)) = blk.b THEN Found(blk.a) ELSE Turn
  /\ UNCHANGED mem /\ Keep

StringTurn_Through ==       \* a slip: the break at the terminator is missing
  /\ Runs({"strcpy", "strncpy"})
  /\ blk.op = "strncpy" => blk.i < blk.c
  /\ Copy(blk.i, blk.i)
  /\ Turn /\ Keep

(* strcpy and strncpy: the terminator is copied and ends the loop.         *)
StringTurn ==
  /\ Runs({"strcpy", "strncpy"})
  /\ blk.op = "strncpy" => blk.i < blk.c
  /\ Copy(blk.i, blk.i)
  /\ IF Read8(mem, W(blk.b + blk.i)) = 0 THEN Over ELSE Turn
  /\ Keep

ChaseTurn_Endless ==       \* a slip: only a null pointer ends the chase
  /\ Runs({"chtree", "chtreeunchk"})
  /\ LET p == Read32(mem, W(blk.res + blk.b)) IN
       blk' = [blk EXCEPT !.res = p, !.over = p = 0]
  /\ UNCHANGED mem /\ Keep

(* chtree: blk.res is p, the counter is what is left of c.  Neither is     *)
(* written back.                                                           *)
ChaseTurn ==
  /\ Runs({"chtree", "chtreeunchk"})
  /\ LET p == Read32(mem, W(blk.res + blk.b)) IN
       blk' = [blk EXCEPT !.res = p, !.i = @ + 1,
                 !.over = (p = 0 /\ blk.op = "chtree") \/ blk.i = blk.c]
  /\ UNCHANGED mem /\ Keep

BlockTurn ==
  \/ CountOver \/ CopyTurn \/ MoveTurn \/ SetTurn \/ SearchTurn
  \/ StringTurn \/ ChaseTurn

-----------------------------------------------------------------------------
(* The block unit alone: one instruction after the other.                  *)

BlockInit ==
  /\ mem \in InitialMemories
  /\ blk = Idle
  /\ before = mem
  /\ runs = 0

BlockNext ==
  \/ \E op \in BlockOps, a, b, c \in Operands : BlockStart(op, a, b, c)
  \/ BlockTurn

BlockSpec == BlockInit /\ [][BlockNext]_blockVars

(* The simulator is one thread: a loop that can turn does turn.            *)
FairBlockSpec == BlockSpec /\ WF_blockVars(BlockTurn)

-----------------------------------------------------------------------------
(* Properties *)

BlockTypeOK ==
  /\ mem \in Memories /\ before \in Memories
  /\ blk.op \in AllBlockOps \cup {"idle"}
  /\ {blk.a, blk.b, blk.c, blk.res} \subseteq Words
  /\ blk.i \in 0 .. WordMod
  /\ runs \in 0 .. MaxRuns

Target == {Cell(blk.a, k) : k \in 0 .. blk.c - 1}
Source == {Cell(blk.b, k) : k \in 0 .. blk.c - 1}

(* A counted instruction leaves alone every cell but those of its c        *)
(* destination bytes, wherever they are mapped: across the end of a region *)
(* it goes on in the trap page and never in what the array holds next.     *)
WritesStayInTarget ==
  blk.op \in {"memcpy", "memset", "strncpy"} =>
    \A x \in Cells \ Target : mem[x] = before[x]

(* A search writes nothing and ends at the first byte of its area that is  *)
(* equal to the register, or after the last one.  This is the code's       *)
(* search and not the one of isa/README.md:141, which is for u8($rB) and   *)
(* has the address where it is found: a register beyond a byte is never    *)
(* found, and what a search that finds returns is where it began, which    *)
(* for an area at 0 is also what it returns when it finds nothing.         *)
Matches == {k \in 0 .. blk.c - 1 : before[Cell(blk.a, k)] = blk.b}

SearchStopsAtFirst ==
  blk.over /\ blk.op \in {"memchr", "memchrf"} =>
    /\ mem = before
    /\ IF Matches = {} THEN blk.res = 0 /\ blk.i = blk.c
       ELSE blk.res = blk.a /\ blk.i \in Matches /\ \A k \in Matches : blk.i <= k

(* Every instruction that counts ends; so does a chase, whatever cycles    *)
(* the pointers make, because the counter bounds it.                       *)
CountedEnds == (busy /\ blk.op # "strcpy") ~> ~busy

(* strcpy ends when its source has a terminator that it reaches before it  *)
(* reads what it has written itself.  Nothing else bounds it.              *)
Terminated ==
  \E n \in 0 .. WordMod - 1 :
    /\ before[Cell(blk.b, n)] = 0
    /\ \A k \in 0 .. n : Cell(blk.b, k) \notin {Cell(blk.a, j) : j \in 0 .. n}

StringCopyEnds == (busy /\ blk.op = "strcpy" /\ Terminated) ~> ~busy

(* The loops do what the instruction promises as one step: whatever lies   *)
(* between, the memory is seen before the first turn and after the last.   *)
(* Of a memmov that does not copy upwards only the frame is promised, c + 1*)
(* bytes of it; that it is no copy is what MoveCopies shows.               *)
Promise == INSTANCE XmBlockSpec WITH
  mem <- IF busy THEN before ELSE mem,
  cmd <- [q |-> [op |-> blk.op, a |-> blk.a, b |-> blk.b, c |-> blk.c],
          over |-> blk.over]

KeepsPromise == Promise!PromiseSpec

-----------------------------------------------------------------------------
(* What isa/README.md says and the code does not do *)

(* "Copies $rC bytes from $rB to $rA": the destination ends up with what   *)
(* the source held.                                                        *)
MoveCopies ==
  blk.over /\ blk.op = "memmov" =>
    \A k \in 0 .. blk.c - 1 :
      (\A j \in 0 .. blk.c - 1 : j # k => Cell(blk.a, j) # Cell(blk.a, k))
        => mem[Cell(blk.a, k)] = before[Cell(blk.b, k)]
=============================================================================
