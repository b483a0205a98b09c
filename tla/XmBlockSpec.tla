----------------------------- MODULE XmBlockSpec -----------------------------
(***************************************************************************)
(* What the block instructions promise (isa/README.md, "Accelerated DMA    *)
(* instruction set"): each one is a single step from the memory it was     *)
(* given to the memory it leaves.  A copy whose source and destination     *)
(* overlap promises only where it writes.  A memmov to the same or a lower *)
(* address promises no more, and a byte beyond its area: this is weaker    *)
(* than isa/README.md:132, "Copies $rC bytes from $rB to $rA", which the   *)
(* code does not do (MoveCopies in XmBlock).                               *)
(***************************************************************************)
EXTENDS XmMemory

CONSTANTS BlockOps, Operands, InitialMemories

VARIABLES
  mem,    \* the memory between two instructions
  cmd     \* the last instruction asked for, and whether it is over

Commands == [op : BlockOps, a : Operands, b : Operands, c : Operands]
NoCommand == [op |-> "idle", a |-> 0, b |-> 0, c |-> 0]

Area(p, n) == {Cell(p, k) : k \in 0 .. n - 1}
Lasts(p, n, x) == {k \in 0 .. n - 1 :
  Cell(p, k) = x /\ \A j \in k + 1 .. n - 1 : Cell(p, j) # x}

Frame(p, n) == \A x \in Cells \ Area(p, n) : mem'[x] = mem[x]

(* The n bytes at a are what the n bytes at b were.                        *)
Copied(a, b, n) ==
  /\ Frame(a, n)
  /\ \A x \in Area(a, n) : \A k \in Lasts(a, n, x) : mem'[x] = mem[Cell(b, k)]

CopiedIfApart(a, b, n) ==
  /\ Frame(a, n)
  /\ Area(a, n) \cap Area(b, n) = {} => Copied(a, b, n)

(* The length of the string at p with its terminator, n at most.           *)
Length(p, n) ==
  LET zeros == {k \in 0 .. n - 1 : mem[Cell(p, k)] = 0}
  IN IF zeros = {} THEN n ELSE 1 + CHOOSE k \in zeros : \A j \in zeros : k <= j

(* A string copy: when what it copies is apart from where it copies it to, *)
(* exactly the string up to its terminator, or its first n bytes.          *)
StringCopied(a, b, n) ==
  LET len == Length(b, n) IN
    IF Area(a, len) \cap Area(b, len) = {} THEN Copied(a, b, len) ELSE Frame(a, n)

Perform(q) ==
  CASE q.op = "memcpy"  -> CopiedIfApart(q.a, q.b, q.c)
    [] q.op = "memmov"  -> IF q.a > q.b THEN CopiedIfApart(q.a, q.b, q.c)
                           ELSE Frame(q.a, q.c + 1)
    [] q.op = "memset"  -> /\ Frame(q.a, q.c)
                           /\ \A x \in Area(q.a, q.c) : mem'[x] = q.b % ByteMod
    [] q.op = "strncpy" -> StringCopied(q.a, q.b, q.c)
    [] q.op = "strcpy"  -> StringCopied(q.a, q.b, WordMod)
    [] OTHER            -> mem' = mem

SpecInit == mem \in InitialMemories /\ cmd = [q |-> NoCommand, over |-> TRUE]

Issue ==
  /\ cmd.over
  /\ \E q \in Commands : cmd' = [q |-> q, over |-> FALSE]
  /\ UNCHANGED mem

Complete ==
  /\ ~cmd.over
  /\ Perform(cmd.q)
  /\ cmd' = [cmd EXCEPT !.over = TRUE]

SpecNext == Issue \/ Complete

PromiseSpec == SpecInit /\ [][SpecNext]_<<mem, cmd>>
=============================================================================
