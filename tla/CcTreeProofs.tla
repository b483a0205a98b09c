----------------------------- MODULE CcTreeProofs -----------------------------
(***************************************************************************)
(* Proofs about the tree that the parser's rules build, for every list of  *)
(* operators, every set of specifiers and every source: each rule of an    *)
(* expression or a statement keeps the arena a forest of what the rules    *)
(* have filled.                                                            *)
(***************************************************************************)
EXTENDS CcFrontProofs

-----------------------------------------------------------------------------
(* The shapes of the tree                                                  *)

LeafTypes == {"IDENT", "LITERAL"}
OpsTo(l) == {Ops[k] : k \in 1 .. l}
Branches == OpsTo(Len(Ops)) \cup {"IF", "RETURN", "ASSIGN", "NEW_VAR"}

Kids(ns, n) == {ns[n].kids[k] : k \in DOMAIN ns[n].kids}

(* A block of one child; of one value, whose operator binds at least as    *)
(* tight as the l-th.                                                      *)
Single(ns, b) == ns[b].type = "BLOCK" /\ Len(ns[b].kids) = 1
ValueIn(ns, b, l) == Single(ns, b) /\ ns[ns[b].kids[1]].type \in LeafTypes \cup OpsTo(l)

(* A block of one conditional, or of a block of a value.                   *)
ExprIn(ns, b) ==
  Single(ns, b) /\ (ns[ns[b].kids[1]].type = "IF" \/ ValueIn(ns, ns[b].kids[1], Len(Ops)))

(* A block that an expression has filled, or will.                         *)
ExprBlock(ns, b) == ns[b] = Block \/ ValueIn(ns, b, Len(Ops)) \/ ExprIn(ns, b)

(* Nodes whose children are what they should be in the end.                *)
OpDone(ns, n) ==
  /\ Len(ns[n].kids) = 2
  /\ \E l \in 1 .. Len(Ops) :
       ns[n].type = Ops[l] /\ ValueIn(ns, ns[n].kids[1], l - 1) /\ ValueIn(ns, ns[n].kids[2], l - 1)
IfDone(ns, n) ==
  /\ ns[n].type = "IF" /\ Len(ns[n].kids) = 3
  /\ ValueIn(ns, ns[n].kids[1], Len(Ops)) /\ ExprIn(ns, ns[n].kids[2]) /\ ExprIn(ns, ns[n].kids[3])
ReturnDone(ns, n) ==
  ns[n].type = "RETURN" /\ Len(ns[n].kids) = 1 /\ ExprBlock(ns, ns[n].kids[1])
Done(ns, n) ==
  \/ ns[n].type \in LeafTypes \cup {"NEW_VAR"}
  \/ OpDone(ns, n) \/ IfDone(ns, n) \/ ReturnDone(ns, n) \/ ValueIn(ns, n, Len(Ops))

Returns(ns, b) == ns[b].type = "BLOCK" /\ \A m \in Kids(ns, b) : ns[m].type = "RETURN"

(* The oldest node that belongs to n: what n has, older than itself, was   *)
(* pushed for it.                                                          *)
Oldest(ns, n) == IF ns[n].type \in Branches THEN ns[n].kids[1] ELSE n

(* A record of these fields, as Node makes it.                             *)
IsNode(x) == x = [type |-> x.type, kids |-> x.kids, name |-> x.name, func |-> x.func]

(* References stay in the arena, and none is to the translation unit.      *)
Formed(ns, n) ==
  /\ IsNode(ns[n])
  /\ IsSeq(ns[n].kids)
  /\ Kids(ns, n) \subseteq (1 .. Len(ns)) \ {UnitBlock}
  /\ ns[n].type \in Branches \cup LeafTypes \cup {"INVALID", "BLOCK", "NEW_TYPE"}

BranchOK(ns, n) ==
  ns[n].type \in Branches =>
    /\ Len(ns[n].kids) >= 1 /\ ns[n].kids[1] < n
    /\ ns[n].type # "NEW_VAR" => \A m \in Kids(ns, n) : ns[m].type = "BLOCK" /\ ns[n].kids[1] <= m
    /\ ns[n].type = "NEW_VAR" =>
         /\ Len(ns[n].kids) = 2 /\ ns[ns[n].kids[1]].type = "NEW_TYPE"
         /\ \/ ns[n].kids[2] = NIL
            \/ /\ ns[n].kids[1] <= ns[n].kids[2] /\ ns[n].kids[2] < n
               /\ Returns(ns, ns[n].kids[2])
ListOK(ns, n) ==
  /\ ns[n].type \in LeafTypes \cup {"INVALID"} => Kids(ns, n) = {}
  /\ ns[n].type \in {"BLOCK", "NEW_TYPE"} => \A m \in Kids(ns, n) : Oldest(ns, m) > n
  /\ ns[n].type = "BLOCK" => \A m \in Kids(ns, n) : Done(ns, m)
  /\ ns[n].type = "NEW_TYPE" => \A m \in Kids(ns, n) : ns[m].type = "NEW_VAR"
NodeOK(ns, n) == Formed(ns, n) /\ BranchOK(ns, n) /\ ListOK(ns, n)

ArenaOK(ns) ==
  /\ IsSeq(ns) /\ Len(ns) >= 2 /\ ns[NIL].type = "INVALID" /\ ns[UnitBlock].type = "BLOCK"
  /\ \A n \in 1 .. Len(ns) : NodeOK(ns, n)

-----------------------------------------------------------------------------
(* What the activations know of it                                         *)

DeclFns == {"specifiers", "declarator", "parameter"}
StmtFns == {"compound", "jump"}

(* No other node has a child among those that f made, where f may yet      *)
(* remove them.                                                            *)
MadeBy(f) == {f.made[d] : d \in DOMAIN f.made}
Private(ns, S) == \A n \in 1 .. Len(ns) : n \notin S => \A m \in Kids(ns, n) : m \notin S
Removable(f) == Failing(f) \/ (f.fn = "external" /\ f.at # "enter")

(* All variables are older.                                                *)
NoVarFrom(ns, e) == \A n \in 1 .. Len(ns) : ns[n].type = "NEW_VAR" => n < e

OfAll(ns, f) ==
  /\ f.expr <= f.mark[2] /\ f.mark[2] <= Len(ns)
  /\ f.fn # "external" => f.mark[2] >= 2
  /\ \A d \in DOMAIN f.made : f.made[d] \in 1 .. Len(ns)
  /\ Removable(f) => Private(ns, MadeBy(f))
Parts(ns, f) ==
  /\ f.fn = "binop" /\ f.at = "rhs" =>
       /\ ns[f.made[1]].type = Ops[f.level] /\ Len(ns[f.made[1]].kids) = 2
       /\ ns[f.made[1]].kids[1] = f.made[3] /\ ns[f.made[1]].kids[2] = f.made[2]
       /\ ValueIn(ns, f.made[3], f.level - 1)
  /\ f.fn = "conditional" /\ f.at \in {"then", "else"} =>
       /\ ns[f.made[1]].type = "IF" /\ Len(ns[f.made[1]].kids) = 3
       /\ ns[f.made[1]].kids[1] = f.made[4] /\ ns[f.made[1]].kids[2] = f.made[3]
       /\ ns[f.made[1]].kids[3] = f.made[2]
       /\ ValueIn(ns, f.made[4], Len(Ops))
       /\ f.at = "else" => ExprIn(ns, f.made[3])
OfExpr(ns, f) ==
  /\ InExpr(f) => NoVarFrom(ns, f.expr)
  /\ f.fn = "binop" => f.level \in 1 .. Len(Ops)
  /\ Parts(ns, f)
OfStmt(ns, f) ==
  /\ f.fn = "jump" /\ f.at \in {"value", "semi"} =>
       /\ Len(f.made) = 2 /\ f.made[2] > f.mark[2] /\ f.made[1] > f.mark[2]
       /\ ns[f.made[1]].type = "RETURN" /\ Len(ns[f.made[1]].kids) = 1
       /\ ns[f.made[1]].kids[1] = f.made[2]
       /\ ExprBlock(ns, f.made[2]) /\ NoVarFrom(ns, f.made[2])
  /\ f.fn = "compound" /\ f.at \in {"enter", "open"} => ns[f.expr] = Block
  /\ f.fn = "compound" /\ f.at \in {"first", "more"} => Len(f.made) = 1 /\ f.made[1] = f.expr
OfDecl(ns, f) ==
  /\ f.fn = "external" /\ f.at # "enter" =>
       /\ Len(f.made) = 3 /\ f.made[3] > UnitBlock /\ f.made[3] < f.made[2] /\ f.made[2] < f.made[1]
       /\ ns[f.made[1]].type = "NEW_VAR" /\ Len(ns[f.made[1]].kids) = 2
       /\ ns[f.made[1]].kids[1] = f.made[3] /\ ns[f.made[1]].kids[2] = f.made[2]
       /\ f.at \in {"specs", "decl"} => ns[f.made[2]] = Block
       /\ f.at = "specs" => Kids(ns, f.made[3]) = {}
  /\ f.fn = "parameter" /\ f.at # "enter" =>
       /\ Len(f.made) = 2 /\ f.made[1] = f.mark[2] + 1 /\ f.made[2] = f.mark[2] + 2
       /\ ns[f.made[2]].type = "NEW_VAR" /\ ns[f.made[2]].kids[1] = f.made[1]
       /\ f.at = "specs" => Kids(ns, f.made[1]) = {}
  /\ f.fn \in {"parameter", "declarator"} => f.expr >= 1 /\ ns[f.expr].type = "NEW_VAR"
  /\ f.fn = "declarator" /\ f.at \in {"enter", "name"} => Kids(ns, ns[f.expr].kids[1]) = {}
OfTree(ns, f) == OfAll(ns, f) /\ OfExpr(ns, f) /\ OfStmt(ns, f) /\ OfDecl(ns, f)

(* Any activation and one that runs inside of it.                          *)
Inside(f, c) ==
  /\ \A d \in DOMAIN f.made : f.made[d] <= c.mark[2]
  /\ f.fn \in DeclFns => c.fn \in DeclFns
  /\ f.fn = "compound" => c.fn = "jump" \/ InExpr(c)
  /\ f.fn = "jump" => InExpr(c)
  /\ f.at = "specs" => c.fn = "specifiers"
  /\ f.fn = "external" =>
       /\ f.at \in {"specs", "decl"} => c.fn \in DeclFns
       /\ f.at = "body" => c.fn \in StmtFns \/ InExpr(c)
       /\ c.fn \in StmtFns => c.expr = f.made[2]

(* A caller and the activation that it called: what it fills, and how.     *)
Operates(c, l) == (c.fn = "unary" /\ l = 0) \/ (c.fn = "binop" /\ c.level = l /\ l # 0)
Asks(f, c) ==
  /\ f.fn = "binop" /\ f.at = "lhs" => c.expr = f.made[1] /\ Operates(c, f.level - 1)
  /\ f.fn = "binop" /\ f.at = "rhs" => c.expr = f.made[2] /\ Operates(c, f.level - 1)
  /\ f.fn = "conditional" /\ f.at = "cond" => c.expr = f.made[1] /\ Operates(c, Len(Ops))
  /\ f.fn = "conditional" /\ f.at = "then" => c.expr = f.made[3] /\ c.fn = "expression"
  /\ f.fn = "conditional" /\ f.at = "else" => c.expr = f.made[2] /\ c.fn = "conditional"
  /\ f.fn = "assignment" /\ f.at = "cond" => c.expr = f.expr /\ c.fn = "conditional"
  /\ f.fn = "expression" /\ f.at = "first" => c.expr = f.expr /\ c.fn = "assignment"

(* What one that says true has filled, ...                                 *)
Fills(ns, c) ==
  /\ c.fn = "unary" => ValueIn(ns, c.expr, 0)
  /\ c.fn = "binop" => ValueIn(ns, c.expr, c.level)
  /\ c.fn \in {"conditional", "assignment", "expression"} => ExprIn(ns, c.expr)

(* ... as the one that called it sees it.                                  *)
Filled(ns, f) ==
  /\ f.fn = "binop" /\ f.at = "lhs" => ValueIn(ns, f.made[1], f.level - 1)
  /\ f.fn = "binop" /\ f.at = "rhs" => ValueIn(ns, f.made[2], f.level - 1)
  /\ f.fn = "conditional" /\ f.at = "cond" => ValueIn(ns, f.made[1], Len(Ops))
  /\ f.fn = "conditional" /\ f.at = "then" => ExprIn(ns, f.made[3])
  /\ f.fn = "conditional" /\ f.at = "else" => ExprIn(ns, f.made[2])
  /\ f.fn = "assignment" /\ f.at = "cond" => ExprIn(ns, f.expr)
  /\ f.fn = "expression" /\ f.at = "first" => ExprIn(ns, f.expr)

Tree ==
  /\ stack # << >> /\ \A f \in {stack[1]} : f.fn = "external"
  /\ \A k \in 1 .. Depth : \A f \in {stack[k]} : OfTree(nodes, f)
  /\ \A k \in 1 .. Depth : \A j \in 1 .. k - 1 : \A f \in {stack[j]}, c \in {stack[k]} : Inside(f, c)
  /\ \A k \in 1 .. Depth - 1 : \A f \in {stack[k]}, c \in {stack[k + 1]} : Asks(f, c)
  /\ ret = "true" => \A f \in {Top} : Filled(nodes, f)

-----------------------------------------------------------------------------
(* Nodes                                                                   *)

(* The kinds of nodes are apart.                                           *)
LEMMA Kinds ==
  /\ Len(Ops) \in Nat
  /\ \A l \in Int : l <= Len(Ops) => OpsTo(l) \subseteq OpsTo(Len(Ops))
  /\ \A l \in 1 .. Len(Ops) : Ops[l] \in OpsTo(Len(Ops))
  /\ OpsTo(Len(Ops)) \cap {"INVALID", "IDENT", "LITERAL", "BLOCK", "IF", "RETURN", "ASSIGN",
                           "NEW_TYPE", "NEW_VAR"} = {}
<1>1. Len(Ops) \in Nat /\ DOMAIN Ops = 1 .. Len(Ops)
  BY OpsAssumption, LenProperties
<1>2. OpsTo(Len(Ops)) = Range(Ops)
  BY <1>1 DEF OpsTo, Range
<1>3. ASSUME NEW l \in Int, l <= Len(Ops) PROVE OpsTo(l) \subseteq OpsTo(Len(Ops))
  <2>1. \A k \in 1 .. l : k \in 1 .. Len(Ops)
    BY <1>1, <1>3
  <2>2. QED
    BY <2>1 DEF OpsTo
<1>4. \A l \in 1 .. Len(Ops) : Ops[l] \in OpsTo(Len(Ops))
  BY DEF OpsTo
<1>5. QED
  BY <1>1, <1>2, <1>3, <1>4, OpsAssumption

(* A block is no branch, nor is a leaf or a type.                          *)
LEMMA NoBranches ==
  /\ \A t \in {"INVALID", "IDENT", "LITERAL", "BLOCK", "NEW_TYPE"} : t \notin Branches
  /\ \A l \in Int : l <= Len(Ops) => {"BLOCK", "NEW_TYPE", "RETURN", "IF", "NEW_VAR"} \cap (LeafTypes \cup OpsTo(l)) = {}
<1>1. \A l \in Int : l <= Len(Ops) => {"BLOCK", "NEW_TYPE", "RETURN", "IF", "NEW_VAR"} \cap OpsTo(l) = {}
  BY Kinds
<1>2. {"BLOCK", "NEW_TYPE", "RETURN", "IF", "NEW_VAR"} \cap LeafTypes = {}
  BY DEF LeafTypes
<1>3. \A t \in {"INVALID", "IDENT", "LITERAL", "BLOCK", "NEW_TYPE"} :
        t \notin OpsTo(Len(Ops)) /\ t \notin {"IF", "RETURN", "ASSIGN", "NEW_VAR"}
  BY Kinds
<1>4. QED
  BY <1>1, <1>2, <1>3 DEF Branches

(* The children of a node.                                                 *)
LEMMA KidsOf ==
  ASSUME NEW ns, NEW n, Formed(ns, n)
  PROVE  /\ Len(ns[n].kids) \in Nat /\ DOMAIN ns[n].kids = 1 .. Len(ns[n].kids)
         /\ \A k \in 1 .. Len(ns[n].kids) : ns[n].kids[k] \in Kids(ns, n)
         /\ Kids(ns, n) \subseteq 1 .. Len(ns)
         /\ (Len(ns[n].kids) = 0 <=> Kids(ns, n) = {})
         /\ Len(ns[n].kids) = 1 => Kids(ns, n) = {ns[n].kids[1]}
<1>1. Len(ns[n].kids) \in Nat /\ DOMAIN ns[n].kids = 1 .. Len(ns[n].kids)
  BY SeqDomain DEF Formed
<1>2. \A k \in 1 .. Len(ns[n].kids) : ns[n].kids[k] \in Kids(ns, n)
  BY <1>1 DEF Kids
<1>3. Len(ns[n].kids) = 0 => Kids(ns, n) = {}
  BY <1>1 DEF Kids
<1>4. Len(ns[n].kids) # 0 => 1 \in 1 .. Len(ns[n].kids)
  BY <1>1
<1>5. ASSUME Len(ns[n].kids) = 1 PROVE Kids(ns, n) = {ns[n].kids[1]}
  <2>1. DOMAIN ns[n].kids = {1}
    BY <1>1, <1>5
  <2>2. QED
    BY <2>1 DEF Kids
<1>6. QED
  BY <1>1, <1>2, <1>3, <1>4, <1>5 DEF Formed

(* The blocks that are spoken of have a child that is in the arena.        *)
LEMMA KidOf ==
  ASSUME NEW ns, NEW n, Formed(ns, n), Single(ns, n)
  PROVE  ns[n].kids[1] \in Kids(ns, n)
<1>1. 1 \in 1 .. Len(ns[n].kids)
  BY DEF Single
<1>2. QED
  BY <1>1, KidsOf

-----------------------------------------------------------------------------
(* Nodes that stay as they are                                             *)

SameNode(ns, ms, n) ==
  /\ ms[n].type = ns[n].type /\ ms[n].kids = ns[n].kids /\ (ms[n] = Block <=> ns[n] = Block)
  /\ IsNode(ns[n]) => IsNode(ms[n])

(* On D the arena is as it was.                                            *)
Agrees(ns, ms, D) ==
  /\ \A n \in D : SameNode(ns, ms, n) /\ Formed(ns, n) /\ Kids(ns, n) \subseteq D

(* What is said of a node there stays true, ...                            *)
LEMMA AgreeSays ==
  ASSUME NEW ns, NEW ms, NEW D, Agrees(ns, ms, D), NEW n \in D
  PROVE  /\ \A l : ValueIn(ms, n, l) <=> ValueIn(ns, n, l)
         /\ ExprIn(ms, n) <=> ExprIn(ns, n)
         /\ ExprBlock(ms, n) <=> ExprBlock(ns, n)
         /\ Kids(ms, n) = Kids(ns, n)
<1>1. ASSUME NEW m \in D
      PROVE  \A l : ValueIn(ms, m, l) <=> ValueIn(ns, m, l)
  <2>1. SameNode(ns, ms, m)
    BY DEF Agrees
  <2>2. Single(ns, m) <=> Single(ms, m)
    BY <2>1 DEF SameNode, Single
  <2>3. ASSUME Single(ns, m) PROVE SameNode(ns, ms, ns[m].kids[1])
    BY <2>3, KidOf DEF Agrees
  <2>4. QED
    BY <2>1, <2>2, <2>3 DEF ValueIn, SameNode
<1>2. SameNode(ns, ms, n)
  BY DEF Agrees
<1>3. Single(ns, n) <=> Single(ms, n)
  BY <1>2 DEF SameNode, Single
<1>4. ASSUME Single(ns, n) PROVE ns[n].kids[1] \in D /\ SameNode(ns, ms, ns[n].kids[1])
  BY <1>4, KidOf DEF Agrees
<1>5. ExprIn(ms, n) <=> ExprIn(ns, n)
  BY <1>1, <1>2, <1>3, <1>4 DEF ExprIn, SameNode
<1>6. ExprBlock(ms, n) <=> ExprBlock(ns, n)
  BY <1>1, <1>2, <1>5 DEF ExprBlock, SameNode
<1>7. QED
  BY <1>1, <1>2, <1>5, <1>6 DEF SameNode, Kids

(* ... and so is that it is done, ...                                      *)
LEMMA AgreeDone ==
  ASSUME NEW ns, NEW ms, NEW D, Agrees(ns, ms, D), NEW n \in D
  PROVE  /\ Done(ns, n) => Done(ms, n)
         /\ Returns(ns, n) => Returns(ms, n)
         /\ Oldest(ms, n) = Oldest(ns, n)
<1>1. SameNode(ns, ms, n) /\ Formed(ns, n) /\ Kids(ns, n) \subseteq D
  BY DEF Agrees
<1>2. Kids(ms, n) = Kids(ns, n)
  BY AgreeSays
<1>3. ASSUME NEW m \in Kids(ns, n)
      PROVE  /\ SameNode(ns, ms, m) /\ (ExprIn(ms, m) <=> ExprIn(ns, m))
             /\ (ExprBlock(ms, m) <=> ExprBlock(ns, m))
             /\ \A l : ValueIn(ms, m, l) <=> ValueIn(ns, m, l)
  <2>1. m \in D
    BY <1>1
  <2>2. SameNode(ns, ms, m)
    BY <2>1 DEF Agrees
  <2>3. QED
    BY <2>1, <2>2, AgreeSays
<1>4. \A k \in 1 .. Len(ns[n].kids) : ns[n].kids[k] \in Kids(ns, n)
  BY <1>1, KidsOf
<1>5. Returns(ns, n) => Returns(ms, n)
  BY <1>1, <1>2, <1>3 DEF Returns, SameNode
<1>6. OpDone(ns, n) => OpDone(ms, n)
  BY <1>1, <1>3, <1>4 DEF OpDone, SameNode
<1>7. IfDone(ns, n) => IfDone(ms, n)
  BY <1>1, <1>3, <1>4 DEF IfDone, SameNode
<1>8. ReturnDone(ns, n) => ReturnDone(ms, n)
  BY <1>1, <1>3, <1>4 DEF ReturnDone, SameNode
<1>9. ValueIn(ns, n, Len(Ops)) => ValueIn(ms, n, Len(Ops))
  BY AgreeSays
<1>10. QED
  BY <1>1, <1>5, <1>6, <1>7, <1>8, <1>9 DEF Done, Oldest, SameNode

(* ... and that it is as it should be.                                     *)
LEMMA AgreeNode ==
  ASSUME NEW ns, NEW ms, NEW D, Agrees(ns, ms, D), D \subseteq 1 .. Len(ms), NEW n \in D, NodeOK(ns, n)
  PROVE  NodeOK(ms, n)
<1>1. SameNode(ns, ms, n) /\ Formed(ns, n) /\ Kids(ns, n) \subseteq D
  BY DEF Agrees
<1>2. Kids(ms, n) = Kids(ns, n)
  BY AgreeSays
<1>3. \A m \in Kids(ns, n) : SameNode(ns, ms, m)
  BY <1>1 DEF Agrees
<1>4. \A m \in Kids(ns, n) : /\ Done(ns, m) => Done(ms, m)
                             /\ Returns(ns, m) => Returns(ms, m)
                             /\ Oldest(ms, m) = Oldest(ns, m)
  BY <1>1, AgreeDone
<1>5. \A k \in 1 .. Len(ns[n].kids) : ns[n].kids[k] \in Kids(ns, n)
  BY <1>1, KidsOf
<1>6. Formed(ms, n)
  BY <1>1, <1>2 DEF Formed, SameNode
<1>7. BranchOK(ms, n)
  <2>1. BranchOK(ns, n)
    BY DEF NodeOK
  <2>2. QED
    BY <2>1, <1>1, <1>2, <1>3, <1>4, <1>5 DEF BranchOK, SameNode
<1>8. ListOK(ms, n)
  <2>1. ListOK(ns, n)
    BY DEF NodeOK
  <2>2. QED
    BY <2>1, <1>1, <1>2, <1>3, <1>4 DEF ListOK, SameNode
<1>9. QED
  BY <1>6, <1>7, <1>8 DEF NodeOK

-----------------------------------------------------------------------------
(* A block that is filled                                                  *)

(* ms is ns but for the block b, which was empty and now holds an          *)
(* expression.                                                             *)
Fill(ns, ms, b) ==
  /\ SameBut(ms, ns, b) /\ b \in 1 .. Len(ns) /\ b # UnitBlock /\ ns[b] = Block
  /\ ValueIn(ms, b, Len(Ops)) \/ ExprIn(ms, b)
  /\ \A n \in 1 .. Len(ns) : ns[n].type = "NEW_VAR" => b \notin Kids(ns, n)

(* What is said of a node stays true, ...                                  *)
LEMMA FillSays ==
  ASSUME NEW ns, NEW ms, NEW b, Fill(ns, ms, b), NEW n \in 1 .. Len(ns), Formed(ns, n)
  PROVE  /\ ms[n].type = ns[n].type /\ (n # b => ms[n] = ns[n])
         /\ \A l : ValueIn(ns, n, l) => n # b /\ ValueIn(ms, n, l)
<1>1. ns[b].type = "BLOCK" /\ ns[b].kids = << >>
  BY DEF Fill, Block, Node
<1>2. ms[b].type = "BLOCK"
  BY DEF Fill, ValueIn, ExprIn, Single
<1>3. ASSUME NEW m \in 1 .. Len(ns) PROVE ms[m].type = ns[m].type /\ (m # b => ms[m] = ns[m])
  BY <1>1, <1>2 DEF Fill, SameBut
<1>4. ASSUME NEW l, ValueIn(ns, n, l) PROVE n # b /\ ValueIn(ms, n, l)
  <2>1. Single(ns, n)
    BY <1>4 DEF ValueIn
  <2>2. n # b
    <3>1. Len(ns[b].kids) = 0
      BY <1>1, EmptySeq
    <3>2. Len(ns[n].kids) = 1
      BY <2>1 DEF Single
    <3>3. b \in 1 .. Len(ns)
      BY DEF Fill
    <3>4. QED
      BY <3>1, <3>2, <3>3
  <2>3. ns[n].kids[1] \in 1 .. Len(ns)
    BY <2>1, KidOf, KidsOf
  <2>4. QED
    BY <1>3, <1>4, <2>1, <2>2, <2>3 DEF ValueIn, Single
<1>5. QED
  BY <1>3, <1>4

(* ... of blocks that hold expressions too, ...                            *)
LEMMA FillSaysMore ==
  ASSUME NEW ns, NEW ms, NEW b, Fill(ns, ms, b), NEW n \in 1 .. Len(ns),
         \A m \in 1 .. Len(ns) : Formed(ns, m)
  PROVE  /\ ExprIn(ns, n) => n # b /\ ExprIn(ms, n)
         /\ ExprBlock(ns, n) => ExprBlock(ms, n)
         /\ Oldest(ms, n) = Oldest(ns, n)
<1>1. ns[b].type = "BLOCK" /\ ns[b].kids = << >> /\ "BLOCK" \notin Branches
  BY NoBranches DEF Fill, Block, Node
<1>2. ASSUME NEW m \in 1 .. Len(ns)
      PROVE  /\ ms[m].type = ns[m].type /\ (m # b => ms[m] = ns[m])
             /\ \A l : ValueIn(ns, m, l) => ValueIn(ms, m, l)
  BY FillSays
<1>3. ASSUME ExprIn(ns, n) PROVE n # b /\ ExprIn(ms, n)
  <2>1. Single(ns, n)
    BY <1>3 DEF ExprIn
  <2>2. n # b
    BY <1>1, <2>1 DEF Single
  <2>3. ns[n].kids[1] \in 1 .. Len(ns)
    BY <2>1, KidOf, KidsOf
  <2>4. QED
    BY <1>2, <1>3, <2>1, <2>2, <2>3 DEF ExprIn, Single
<1>4. ExprBlock(ms, b)
  BY DEF Fill, ExprBlock
<1>5. ExprBlock(ns, n) => ExprBlock(ms, n)
  BY <1>2, <1>3, <1>4 DEF ExprBlock
<1>6. Oldest(ms, n) = Oldest(ns, n)
  BY <1>1, <1>2 DEF Oldest
<1>7. QED
  BY <1>3, <1>5, <1>6

(* ... that a node is done stays true, ...                                 *)
LEMMA FillDone ==
  ASSUME NEW ns, NEW ms, NEW b, Fill(ns, ms, b), NEW n \in 1 .. Len(ns),
         \A m \in 1 .. Len(ns) : Formed(ns, m)
  PROVE  /\ Done(ns, n) => Done(ms, n)
         /\ n # b /\ Returns(ns, n) => Returns(ms, n)
<1>1. ns[b].type = "BLOCK" /\ "BLOCK" \notin OpsTo(Len(Ops))
  BY Kinds DEF Fill, Block, Node
<1>2. ms[n].type = ns[n].type /\ (n # b => ms[n] = ns[n])
  BY FillSays
<1>3. ASSUME NEW m \in Kids(ns, n)
      PROVE  /\ ms[m].type = ns[m].type /\ (ExprIn(ns, m) => ExprIn(ms, m))
             /\ (ExprBlock(ns, m) => ExprBlock(ms, m))
             /\ \A l : ValueIn(ns, m, l) => ValueIn(ms, m, l)
  <2>1. m \in 1 .. Len(ns)
    BY KidsOf
  <2>2. QED
    BY <2>1, FillSays, FillSaysMore
<1>4. \A k \in 1 .. Len(ns[n].kids) : ns[n].kids[k] \in Kids(ns, n)
  BY KidsOf
<1>5. n # b /\ Returns(ns, n) => Returns(ms, n)
  BY <1>2, <1>3 DEF Returns, Kids
<1>6. OpDone(ns, n) => OpDone(ms, n)
  <2>1. ASSUME OpDone(ns, n) PROVE n # b
    <3>1. ns[n].type \in OpsTo(Len(Ops))
      BY <2>1, Kinds DEF OpDone
    <3>2. QED
      BY <3>1, <1>1
  <2>2. QED
    BY <1>2, <1>3, <1>4, <2>1 DEF OpDone
<1>7. IfDone(ns, n) => IfDone(ms, n)
  BY <1>1, <1>2, <1>3, <1>4 DEF IfDone
<1>8. ReturnDone(ns, n) => ReturnDone(ms, n)
  BY <1>1, <1>2, <1>3, <1>4 DEF ReturnDone
<1>9. ValueIn(ns, n, Len(Ops)) => ValueIn(ms, n, Len(Ops))
  BY FillSays
<1>10. QED
  BY <1>2, <1>5, <1>6, <1>7, <1>8, <1>9 DEF Done

(* ... and every node stays as it should be.                               *)
LEMMA FillArena ==
  ASSUME NEW ns, NEW ms, NEW b, Fill(ns, ms, b), NodeOK(ms, b), ArenaOK(ns)
  PROVE  ArenaOK(ms)
<1>1. \A m \in 1 .. Len(ns) : NodeOK(ns, m) /\ Formed(ns, m)
  BY DEF ArenaOK, NodeOK
<1>2. Len(ms) = Len(ns) /\ IsSeq(ms) /\ NodeOK(ms, b) /\ Len(ns) \in Nat
  BY DEF Fill, SameBut
<1>3. ASSUME NEW m \in 1 .. Len(ns)
      PROVE  ms[m].type = ns[m].type /\ (m # b => ms[m] = ns[m]) /\ Oldest(ms, m) = Oldest(ns, m)
  BY <1>1, FillSays, FillSaysMore
<1>4. ASSUME NEW n \in 1 .. Len(ns), n # b PROVE NodeOK(ms, n)
  <2>1. ms[n] = ns[n] /\ Kids(ms, n) = Kids(ns, n)
    BY <1>3, <1>4 DEF Kids
  <2>2. Formed(ms, n)
    BY <1>1, <1>2, <2>1 DEF Formed
  <2>3. Kids(ns, n) \subseteq 1 .. Len(ns) /\ \A k \in 1 .. Len(ns[n].kids) : ns[n].kids[k] \in Kids(ns, n)
    BY <1>1, KidsOf
  <2>4. \A m \in Kids(ns, n) : /\ ms[m].type = ns[m].type /\ Oldest(ms, m) = Oldest(ns, m)
                               /\ Done(ns, m) => Done(ms, m)
                               /\ m # b /\ Returns(ns, m) => Returns(ms, m)
    BY <1>1, <1>3, <2>3, FillDone
  <2>5. ns[n].type = "NEW_VAR" => b \notin Kids(ns, n)
    BY DEF Fill
  <2>6. BranchOK(ms, n)
    <3>1. BranchOK(ns, n)
      BY <1>1 DEF NodeOK
    <3>2. QED
      BY <3>1, <2>1, <2>3, <2>4, <2>5 DEF BranchOK
  <2>7. ListOK(ms, n)
    <3>1. ListOK(ns, n)
      BY <1>1 DEF NodeOK
    <3>2. QED
      BY <3>1, <2>1, <2>4 DEF ListOK
  <2>8. QED
    BY <2>2, <2>6, <2>7 DEF NodeOK
<1>5. ms[NIL].type = "INVALID" /\ ms[UnitBlock].type = "BLOCK"
  <2>1. NIL \in 1 .. Len(ns) /\ UnitBlock \in 1 .. Len(ns)
    BY <1>2 DEF ArenaOK, NIL, UnitBlock
  <2>2. QED
    BY <1>3, <2>1 DEF ArenaOK
<1>6. QED
  BY <1>2, <1>4, <1>5 DEF ArenaOK

-----------------------------------------------------------------------------
(* A list that grows                                                       *)

(* ms is ns but for the list b, which has m as one more child.             *)
Given(ns, ms, b, m) ==
  /\ SameBut(ms, ns, b) /\ b \in 1 .. Len(ns) /\ ns[b].type \in {"BLOCK", "NEW_TYPE"}
  /\ ms[b].type = ns[b].type /\ ms[b].kids = Append(ns[b].kids, m) /\ IsNode(ms[b])
  /\ m \in (1 .. Len(ns)) \ {UnitBlock} /\ Oldest(ns, m) > b
  /\ ns[b].type = "BLOCK" => Done(ns, m)
  /\ ns[b].type = "NEW_TYPE" => ns[m].type = "NEW_VAR"
  /\ \A n \in 1 .. Len(ns) :
       /\ ns[n].type # "NEW_VAR" => b \notin Kids(ns, n)
       /\ b \in Kids(ns, n) /\ ns[b].type = "BLOCK" => ns[m].type = "RETURN"

(* What is said of the other nodes stays true, ...                         *)
LEMMA GivenSays ==
  ASSUME NEW ns, NEW ms, NEW b, NEW c, Given(ns, ms, b, c), NEW n \in 1 .. Len(ns), n # b,
         \A m \in 1 .. Len(ns) : Formed(ns, m)
  PROVE  /\ ms[n] = ns[n] /\ Oldest(ms, n) = Oldest(ns, n)
         /\ \A l : ValueIn(ns, n, l) => ValueIn(ms, n, l)
         /\ ExprIn(ns, n) => ExprIn(ms, n)
         /\ ExprBlock(ns, n) => ExprBlock(ms, n)
<1>1. ASSUME NEW m \in 1 .. Len(ns) PROVE ms[m].type = ns[m].type /\ (m # b => ms[m] = ns[m])
  BY DEF Given, SameBut
<1>2. ASSUME NEW m \in 1 .. Len(ns), m # b, NEW l, ValueIn(ns, m, l) PROVE ValueIn(ms, m, l)
  <2>1. Single(ns, m)
    BY <1>2 DEF ValueIn
  <2>2. ns[m].kids[1] \in 1 .. Len(ns)
    BY <2>1, KidOf, KidsOf
  <2>3. QED
    BY <1>1, <1>2, <2>1, <2>2 DEF ValueIn, Single
<1>3. ASSUME ExprIn(ns, n) PROVE ExprIn(ms, n)
  <2>1. Single(ns, n)
    BY <1>3 DEF ExprIn
  <2>2. ns[n].kids[1] \in Kids(ns, n) /\ Kids(ns, n) \subseteq 1 .. Len(ns)
    BY <2>1, KidOf, KidsOf
  <2>3. ns[n].kids[1] # b
    BY <2>1, <2>2 DEF Given, Single
  <2>4. QED
    BY <1>1, <1>2, <1>3, <2>1, <2>2, <2>3 DEF ExprIn, Single
<1>4. ExprBlock(ns, n) => ExprBlock(ms, n)
  BY <1>1, <1>2, <1>3 DEF ExprBlock
<1>5. Oldest(ms, n) = Oldest(ns, n)
  BY <1>1 DEF Oldest
<1>6. QED
  BY <1>1, <1>2, <1>3, <1>4, <1>5

(* ... that a node is done stays true, ...                                 *)
LEMMA GivenDone ==
  ASSUME NEW ns, NEW ms, NEW b, NEW c, Given(ns, ms, b, c), NEW n \in 1 .. Len(ns), n # b,
         \A m \in 1 .. Len(ns) : Formed(ns, m)
  PROVE  /\ Done(ns, n) => Done(ms, n)
         /\ Returns(ns, n) => Returns(ms, n)
<1>1. ms[n] = ns[n]
  BY GivenSays
<1>2. ASSUME NEW m \in Kids(ns, n), ns[n].type # "NEW_VAR"
      PROVE  /\ ms[m].type = ns[m].type /\ (ExprIn(ns, m) => ExprIn(ms, m))
             /\ (ExprBlock(ns, m) => ExprBlock(ms, m))
             /\ \A l : ValueIn(ns, m, l) => ValueIn(ms, m, l)
  <2>1. m \in 1 .. Len(ns)
    BY KidsOf
  <2>2. m # b
    BY <1>2 DEF Given
  <2>3. QED
    BY <2>1, <2>2, GivenSays
<1>3. \A k \in 1 .. Len(ns[n].kids) : ns[n].kids[k] \in Kids(ns, n)
  BY KidsOf
<1>4. Returns(ns, n) => Returns(ms, n)
  BY <1>1, <1>2 DEF Returns, Kids
<1>5. OpDone(ns, n) => OpDone(ms, n)
  <2>1. ASSUME OpDone(ns, n) PROVE ns[n].type # "NEW_VAR"
    <3>1. ns[n].type \in OpsTo(Len(Ops))
      BY <2>1, Kinds DEF OpDone
    <3>2. QED
      BY <3>1, Kinds
  <2>2. QED
    BY <1>1, <1>2, <1>3, <2>1 DEF OpDone
<1>6. IfDone(ns, n) => IfDone(ms, n)
  BY <1>1, <1>2, <1>3 DEF IfDone
<1>7. ReturnDone(ns, n) => ReturnDone(ms, n)
  BY <1>1, <1>2, <1>3 DEF ReturnDone
<1>8. ValueIn(ns, n, Len(Ops)) => ValueIn(ms, n, Len(Ops))
  BY GivenSays
<1>9. QED
  BY <1>1, <1>4, <1>5, <1>6, <1>7, <1>8 DEF Done

(* ... and every node stays as it should be.                               *)
LEMMA GivenArena ==
  ASSUME NEW ns, NEW ms, NEW b, NEW c, Given(ns, ms, b, c), ArenaOK(ns)
  PROVE  ArenaOK(ms)
<1>1. \A m \in 1 .. Len(ns) : NodeOK(ns, m) /\ Formed(ns, m)
  BY DEF ArenaOK, NodeOK
<1>2. Len(ms) = Len(ns) /\ IsSeq(ms) /\ Len(ns) \in Nat /\ b \in 1 .. Len(ns) /\ ms[b].type = ns[b].type
      /\ ns[b].type \in {"BLOCK", "NEW_TYPE"} /\ ns[b].type \notin Branches
  BY NoBranches DEF Given, SameBut
<1>3. ASSUME NEW m \in 1 .. Len(ns)
      PROVE  ms[m].type = ns[m].type /\ (m # b => ms[m] = ns[m]) /\ Oldest(ms, m) = Oldest(ns, m)
  <2>1. CASE m = b
    BY <1>2, <2>1 DEF Oldest
  <2>2. CASE m # b
    BY <1>1, <2>2, GivenSays
  <2>3. QED
    BY <2>1, <2>2
<1>4. IsSeq(ms[b].kids) /\ Kids(ms, b) = Kids(ns, b) \cup {c}
  <2>1. IsSeq(ns[b].kids)
    BY <1>1, <1>2 DEF Formed
  <2>2. /\ ms[b].kids = Append(ns[b].kids, c)
    BY DEF Given
  <2>3. PICK s : s = ns[b].kids
    OBVIOUS
  <2>4. PICK t : t = ms[b].kids
    OBVIOUS
  <2>5. /\ IsSeq(t) /\ Len(t) = Len(s) + 1 /\ Len(s) \in Nat
        /\ \A i \in 1 .. Len(s) : t[i] = s[i]
        /\ t[Len(s) + 1] = c
    BY <2>1, <2>2, <2>3, <2>4, SeqAppend
  <2>6. DOMAIN t = 1 .. Len(t) /\ DOMAIN s = 1 .. Len(s)
    BY <2>1, <2>3, <2>5, SeqDomain
  <2>7. \A i \in DOMAIN t : t[i] = c \/ (i \in DOMAIN s /\ t[i] = s[i])
    <3>1. \A i \in 1 .. Len(s) + 1 : i = Len(s) + 1 \/ i \in 1 .. Len(s)
      BY <2>5
    <3>2. QED
      BY <2>5, <2>6, <3>1
  <2>8. \A i \in DOMAIN s : i \in DOMAIN t /\ t[i] = s[i]
    BY <2>5, <2>6
  <2>9. Len(s) + 1 \in DOMAIN t
    BY <2>5, <2>6
  <2> DEFINE A == {t[i] : i \in DOMAIN t}
             B == {s[i] : i \in DOMAIN s} \cup {c}
  <2>10. A = B
    <3>1. t[Len(s) + 1] = c
      BY <2>5
    <3>2. A \subseteq B
      BY <2>7, Zenon
    <3>3. B \subseteq A
      BY <2>8, <2>9, <3>1, Zenon
    <3> HIDE DEF A, B
    <3>4. QED
      BY <3>2, <3>3
  <2>11. Kids(ms, b) = A
    BY <2>4, Zenon DEF Kids
  <2>12. B = Kids(ns, b) \cup {c}
    BY <2>3, Zenon DEF Kids
  <2> HIDE DEF A, B
  <2>13. QED
    BY <2>4, <2>5, <2>10, <2>11, <2>12
<1>5. \A m \in Kids(ns, b) : m \in 1 .. Len(ns) /\ m # b
  BY <1>1, <1>2, KidsOf DEF Given
<1>6. NodeOK(ms, b)
  <2>1. NodeOK(ns, b)
    BY <1>1, <1>2
  <2>2. Formed(ms, b)
    BY <1>2, <1>4, <2>1 DEF Formed, NodeOK, Given
  <2>3. c \in 1 .. Len(ns) /\ Oldest(ms, c) > b /\ (ns[b].type = "NEW_TYPE" => ms[c].type = "NEW_VAR")
    BY <1>3 DEF Given
  <2>4. c # b
    <3>1. Oldest(ns, c) > b
      BY DEF Given
    <3>2. Oldest(ns, b) = b
      BY <1>2 DEF Oldest
    <3>3. QED
      BY <1>2, <3>1, <3>2
  <2>5. ns[b].type = "BLOCK" => Done(ms, c)
    BY <1>1, <2>3, <2>4, GivenDone DEF Given
  <2>6. \A m \in Kids(ns, b) : ms[m].type = ns[m].type /\ Oldest(ms, m) = Oldest(ns, m) /\ (Done(ns, m) => Done(ms, m))
    BY <1>1, <1>3, <1>5, GivenDone
  <2>7. ListOK(ms, b)
    <3>1. ListOK(ns, b) /\ ns[b].type \notin LeafTypes \cup {"INVALID"}
      BY <1>2, <2>1 DEF NodeOK, LeafTypes
    <3>2. QED
      BY <3>1, <1>2, <1>4, <2>3, <2>5, <2>6 DEF ListOK
  <2>8. BranchOK(ms, b)
    BY <1>2 DEF BranchOK
  <2>9. QED
    BY <2>2, <2>7, <2>8 DEF NodeOK
<1>7. ASSUME NEW n \in 1 .. Len(ns), n # b PROVE NodeOK(ms, n)
  <2>1. ms[n] = ns[n] /\ Kids(ms, n) = Kids(ns, n)
    BY <1>3, <1>7 DEF Kids
  <2>2. Formed(ms, n)
    BY <1>1, <1>2, <2>1 DEF Formed
  <2>3. Kids(ns, n) \subseteq 1 .. Len(ns) /\ \A k \in 1 .. Len(ns[n].kids) : ns[n].kids[k] \in Kids(ns, n)
    BY <1>1, KidsOf
  <2>4. \A m \in Kids(ns, n) : /\ ms[m].type = ns[m].type /\ Oldest(ms, m) = Oldest(ns, m)
                               /\ m # b => (Done(ns, m) => Done(ms, m)) /\ (Returns(ns, m) => Returns(ms, m))
    BY <1>1, <1>3, <2>3, GivenDone
  <2>5. ns[n].type # "NEW_VAR" => b \notin Kids(ns, n)
    BY DEF Given
  <2>6. ASSUME b \in Kids(ns, n), Returns(ns, b) PROVE Returns(ms, b)
    <3>1. ns[c].type = "RETURN" /\ c \in 1 .. Len(ns)
      BY <2>6 DEF Given, Returns
    <3>2. QED
      BY <1>2, <1>3, <1>4, <1>5, <2>6, <3>1 DEF Returns
  <2>7. \A m \in Kids(ns, n) : Returns(ns, m) => Returns(ms, m)
    BY <2>4, <2>6
  <2>8. BranchOK(ms, n)
    <3>1. BranchOK(ns, n)
      BY <1>1 DEF NodeOK
    <3>2. QED
      BY <3>1, <2>1, <2>3, <2>4, <2>7 DEF BranchOK
  <2>9. ListOK(ms, n)
    <3>1. ListOK(ns, n)
      BY <1>1 DEF NodeOK
    <3>2. \A m \in Kids(ns, n) : ns[n].type = "BLOCK" => m # b
      BY <2>5
    <3>3. QED
      BY <3>1, <3>2, <2>1, <2>4 DEF ListOK
  <2>10. QED
    BY <2>2, <2>8, <2>9 DEF NodeOK
<1>8. ms[NIL].type = "INVALID" /\ ms[UnitBlock].type = "BLOCK"
  <2>1. NIL \in 1 .. Len(ns) /\ UnitBlock \in 1 .. Len(ns)
    BY <1>2 DEF ArenaOK, NIL, UnitBlock
  <2>2. QED
    BY <1>3, <2>1 DEF ArenaOK
<1>9. QED
  BY <1>2, <1>6, <1>7, <1>8 DEF ArenaOK

-----------------------------------------------------------------------------
(* Activations that wait                                                   *)

(* f waits for the innermost activation top: it is older.                  *)
Waits(ns, f, top) ==
  /\ f.mark[2] \in Nat /\ top.mark[2] \in Nat /\ f.expr \in Nat /\ Len(ns) \in Nat
  /\ f.mark[2] <= top.mark[2] /\ top.mark[2] <= Len(ns)
  /\ \A d \in DOMAIN f.made : f.made[d] \in 1 .. top.mark[2]
  /\ DOMAIN f.made = 1 .. Len(f.made) /\ Sized(f)
  /\ Removable(f) => NIL \notin MadeBy(f)
  /\ ~Alone(f) /\ f.fn \in Fns
  /\ InExpr(f) => InExpr(top)
  /\ Inside(f, top)
  /\ OfTree(ns, f)

(* Where one waits, what it made has a number of its own.                  *)
LEMMA WaitsMade ==
  ASSUME NEW ns, NEW f, NEW top, Waits(ns, f, top)
  PROVE  /\ f.fn = "binop" /\ f.at = "rhs" => {f.made[1], f.made[2], f.made[3]} \subseteq 1 .. top.mark[2]
         /\ f.fn = "conditional" /\ f.at \in {"then", "else"} =>
              {f.made[1], f.made[2], f.made[3], f.made[4]} \subseteq 1 .. top.mark[2]
         /\ f.fn = "jump" /\ f.at = "semi" => {f.made[1], f.made[2]} \subseteq 1 .. top.mark[2]
         /\ f.fn = "external" /\ f.at # "enter" =>
              {f.made[1], f.made[2], f.made[3]} \subseteq 1 .. top.mark[2]
         /\ f.fn = "parameter" /\ f.at # "enter" => {f.made[1], f.made[2]} \subseteq 1 .. top.mark[2]
         /\ MadeBy(f) \subseteq 1 .. top.mark[2]
<1>1. /\ f.fn = "binop" /\ f.at = "rhs" => Len(f.made) = 3
      /\ f.fn = "conditional" /\ f.at \in {"then", "else"} => Len(f.made) = 4
  BY DEF Waits, Sized
<1>2. f.fn = "jump" /\ f.at = "semi" => Len(f.made) = 2
  BY DEF Waits, OfTree, OfStmt
<1>3. /\ f.fn = "external" /\ f.at # "enter" => Len(f.made) = 3
      /\ f.fn = "parameter" /\ f.at # "enter" => Len(f.made) = 2
  BY DEF Waits, OfTree, OfDecl
<1>4. \A d \in 1 .. Len(f.made) : f.made[d] \in 1 .. top.mark[2]
  BY DEF Waits
<1>5. MadeBy(f) \subseteq 1 .. top.mark[2]
  BY DEF Waits, MadeBy
<1>6. QED
  BY <1>1, <1>2, <1>3, <1>4, <1>5

(* What waits keeps its tree where the arena agrees, ...                   *)
LEMMA WaitsAgree ==
  ASSUME NEW ns, NEW ms, NEW f, NEW top, Waits(ns, f, top), NEW D, Agrees(ns, ms, D),
         1 .. top.mark[2] \subseteq D, D \subseteq 1 .. Len(ns), D \subseteq 1 .. Len(ms),
         Len(ms) \in Nat, top.mark[2] <= Len(ms),
         \A n \in 1 .. Len(ms) : n \notin D =>
           /\ ms[n].type = "NEW_VAR" => top.fn \in DeclFns \cup {"external"}
           /\ \A m \in Kids(ms, n) : m = NIL \/ m > top.mark[2]
  PROVE  OfTree(ms, f)
<1>1. OfAll(ns, f) /\ OfExpr(ns, f) /\ OfStmt(ns, f) /\ OfDecl(ns, f) /\ ~Alone(f)
  BY DEF Waits, OfTree
<1>2. ASSUME NEW n \in D
      PROVE  /\ SameNode(ns, ms, n) /\ Kids(ms, n) = Kids(ns, n)
             /\ \A l : ValueIn(ns, n, l) => ValueIn(ms, n, l)
             /\ ExprIn(ns, n) => ExprIn(ms, n)
             /\ ExprBlock(ns, n) => ExprBlock(ms, n)
  BY AgreeSays, ZenonT(40) DEF Agrees
<1>3. f.mark[2] \in Nat /\ top.mark[2] \in Nat /\ f.expr \in Nat /\ Len(ns) \in Nat /\ f.mark[2] <= top.mark[2]
  BY DEF Waits
<1>4. OfAll(ms, f)
  <2>1. \A d \in DOMAIN f.made : f.made[d] \in 1 .. Len(ms)
    BY DEF Waits
  <2>2. f.mark[2] <= Len(ms)
    BY <1>3
  <2>3. ASSUME Removable(f) PROVE Private(ms, MadeBy(f))
    <3>1. Private(ns, MadeBy(f)) /\ NIL \notin MadeBy(f)
      BY <1>1, <2>3 DEF OfAll, Waits
    <3>2. MadeBy(f) \subseteq 1 .. top.mark[2]
      BY WaitsMade
    <3>3. \A m \in MadeBy(f) : ~(m > top.mark[2])
      BY <1>3, <3>2
    <3>4. ASSUME NEW n \in 1 .. Len(ms), n \notin MadeBy(f), NEW m \in Kids(ms, n) PROVE m \notin MadeBy(f)
      <4>1. CASE n \in D
        <5>1. n \in 1 .. Len(ns) /\ m \in Kids(ns, n)
          BY <1>2, <3>4, <4>1
        <5>2. QED
          BY <3>1, <3>4, <5>1 DEF Private
      <4>2. CASE n \notin D
        BY <3>1, <3>3, <3>4, <4>2
      <4>3. QED
        BY <4>1, <4>2
    <3>5. QED
      BY <3>4 DEF Private
  <2>4. QED
    BY <1>1, <2>1, <2>2, <2>3 DEF OfAll
<1>5. InExpr(f) \/ f.fn = "jump" => InExpr(top) /\ top.fn \notin DeclFns \cup {"external"}
  BY DEF Waits, Inside, InExpr, ExprFns, DeclFns
<1>6. ASSUME InExpr(f) \/ f.fn = "jump", NEW e, NoVarFrom(ns, e) PROVE NoVarFrom(ms, e)
  <2>1. ASSUME NEW n \in 1 .. Len(ms), ms[n].type = "NEW_VAR" PROVE n < e
    <3>1. n \in D
      BY <1>5, <1>6, <2>1
    <3>2. n \in 1 .. Len(ns) /\ ns[n].type = "NEW_VAR"
      BY <1>2, <2>1, <3>1 DEF SameNode
    <3>3. QED
      BY <1>6, <3>2 DEF NoVarFrom
  <2>2. QED
    BY <2>1 DEF NoVarFrom
<1>7. OfExpr(ms, f)
  <2>1. InExpr(f) => NoVarFrom(ms, f.expr)
    BY <1>1, <1>6 DEF OfExpr, Parts
  <2>2. f.fn = "binop" => f.level \in 1 .. Len(Ops)
    BY <1>1 DEF OfExpr, Parts
  <2>3. ASSUME f.fn = "binop" /\ f.at = "rhs"
        PROVE  /\ ms[f.made[1]].type = Ops[f.level] /\ Len(ms[f.made[1]].kids) = 2
               /\ ms[f.made[1]].kids[1] = f.made[3] /\ ms[f.made[1]].kids[2] = f.made[2]
               /\ ValueIn(ms, f.made[3], f.level - 1)
    <3>1. f.made[1] \in D /\ f.made[3] \in D
      BY <2>3, WaitsMade
    <3>2. QED
      BY <1>1, <1>2, <2>3, <3>1 DEF OfExpr, Parts, SameNode
  <2>4. ASSUME f.fn = "conditional" /\ f.at \in {"then", "else"}
        PROVE  /\ ms[f.made[1]].type = "IF" /\ Len(ms[f.made[1]].kids) = 3
               /\ ms[f.made[1]].kids[1] = f.made[4] /\ ms[f.made[1]].kids[2] = f.made[3]
               /\ ms[f.made[1]].kids[3] = f.made[2]
               /\ ValueIn(ms, f.made[4], Len(Ops))
               /\ f.at = "else" => ExprIn(ms, f.made[3])
    <3>1. f.made[1] \in D /\ f.made[3] \in D /\ f.made[4] \in D
      BY <2>4, WaitsMade
    <3>2. QED
      BY <1>1, <1>2, <2>4, <3>1 DEF OfExpr, Parts, SameNode
  <2>5. QED
    BY <2>1, <2>2, <2>3, <2>4 DEF OfExpr, Parts
<1>8. OfStmt(ms, f)
  <2>1. ASSUME f.fn = "jump" /\ f.at = "semi"
        PROVE  /\ ms[f.made[1]].type = "RETURN" /\ Len(ms[f.made[1]].kids) = 1
               /\ ms[f.made[1]].kids[1] = f.made[2]
               /\ ExprBlock(ms, f.made[2]) /\ NoVarFrom(ms, f.made[2])
    <3>1. f.made[1] \in D /\ f.made[2] \in D
      BY <2>1, WaitsMade
    <3>2. QED
      BY <1>1, <1>2, <1>6, <2>1, <3>1 DEF OfStmt, SameNode
  <2>2. f.at \notin {"value", "enter", "open"}
    BY <1>1 DEF Alone
  <2>3. QED
    BY <1>1, <2>1, <2>2 DEF OfStmt
<1>9. OfDecl(ms, f)
  <2>1. ASSUME f.fn = "external" /\ f.at # "enter"
        PROVE  /\ ms[f.made[1]].type = "NEW_VAR" /\ Len(ms[f.made[1]].kids) = 2
               /\ ms[f.made[1]].kids[1] = f.made[3] /\ ms[f.made[1]].kids[2] = f.made[2]
               /\ f.at \in {"specs", "decl"} => ms[f.made[2]] = Block
               /\ f.at = "specs" => Kids(ms, f.made[3]) = {}
    <3>1. f.made[1] \in D /\ f.made[2] \in D /\ f.made[3] \in D
      BY <2>1, WaitsMade
    <3>2. QED
      BY <1>1, <1>2, <2>1, <3>1 DEF OfDecl, SameNode
  <2>2. ASSUME f.fn = "parameter" /\ f.at # "enter"
        PROVE  /\ ms[f.made[2]].type = "NEW_VAR" /\ ms[f.made[2]].kids[1] = f.made[1]
               /\ f.at = "specs" => Kids(ms, f.made[1]) = {}
    <3>1. f.made[1] \in D /\ f.made[2] \in D
      BY <2>2, WaitsMade
    <3>2. QED
      BY <1>1, <1>2, <2>2, <3>1 DEF OfDecl, SameNode
  <2>3. ASSUME f.fn \in {"parameter", "declarator"} PROVE f.expr >= 1 /\ ms[f.expr].type = "NEW_VAR"
    <3>1. f.expr >= 1 /\ f.expr <= f.mark[2] /\ ns[f.expr].type = "NEW_VAR"
      BY <1>1, <2>3 DEF OfDecl, OfAll
    <3>2. f.expr \in D
      BY <1>3, <3>1
    <3>3. QED
      BY <1>2, <3>1, <3>2 DEF SameNode
  <2>4. f.at \notin {"enter", "name"}
    BY <1>1 DEF Alone
  <2>5. QED
    BY <1>1, <2>1, <2>2, <2>3, <2>4 DEF OfDecl
<1>10. QED
  BY <1>4, <1>7, <1>8, <1>9 DEF OfTree

(* ... where the block of the innermost expression is filled, ...          *)
LEMMA WaitsFill ==
  ASSUME NEW ns, NEW ms, NEW f, NEW top, Waits(ns, f, top), InExpr(top), Fill(ns, ms, top.expr),
         \A m \in 1 .. Len(ns) : Formed(ns, m),
         Removable(f) => \A m \in Kids(ms, top.expr) : m \notin MadeBy(f)
  PROVE  OfTree(ms, f)
<1> DEFINE b == top.expr
<1>1. OfAll(ns, f) /\ OfExpr(ns, f) /\ OfStmt(ns, f) /\ OfDecl(ns, f) /\ ~Alone(f) /\ Inside(f, top)
  BY DEF Waits, OfTree
<1>2. ASSUME NEW n \in 1 .. Len(ns)
      PROVE  /\ ms[n].type = ns[n].type /\ (n # b => ms[n] = ns[n])
             /\ \A l : ValueIn(ns, n, l) => ValueIn(ms, n, l)
             /\ ExprIn(ns, n) => ExprIn(ms, n)
             /\ ExprBlock(ns, n) => ExprBlock(ms, n)
  BY FillSays, FillSaysMore
<1>3. f.mark[2] \in Nat /\ top.mark[2] \in Nat /\ f.expr \in Nat /\ Len(ns) \in Nat /\ Len(ms) = Len(ns)
      /\ f.mark[2] <= top.mark[2] /\ top.mark[2] <= Len(ns) /\ b \in 1 .. Len(ns) /\ ns[b].type = "BLOCK"
  BY DEF Waits, Fill, SameBut, Block, Node
<1>4. ASSUME NEW m \in 1 .. top.mark[2] PROVE m \in 1 .. Len(ns)
  BY <1>3
<1>5. OfAll(ms, f)
  <2>1. ASSUME Removable(f) PROVE Private(ms, MadeBy(f))
    <3>1. Private(ns, MadeBy(f))
      BY <1>1, <2>1 DEF OfAll
    <3>2. ASSUME NEW n \in 1 .. Len(ms), n \notin MadeBy(f), NEW m \in Kids(ms, n) PROVE m \notin MadeBy(f)
      <4>1. CASE n = b
        BY <2>1, <3>2, <4>1
      <4>2. CASE n # b
        <5>1. n \in 1 .. Len(ns) /\ m \in Kids(ns, n)
          BY <1>2, <1>3, <3>2, <4>2 DEF Kids
        <5>2. QED
          BY <3>1, <3>2, <5>1 DEF Private
      <4>3. QED
        BY <4>1, <4>2
    <3>3. QED
      BY <3>2 DEF Private
  <2>2. QED
    BY <1>1, <1>3, <2>1 DEF OfAll
<1>6. ASSUME NEW e, NoVarFrom(ns, e) PROVE NoVarFrom(ms, e)
  BY <1>2, <1>3, <1>6 DEF NoVarFrom
<1>7. ASSUME NEW n \in 1 .. top.mark[2], ns[n].type # "BLOCK" PROVE ms[n] = ns[n]
  <2>1. n \in 1 .. Len(ns) /\ n # b
    BY <1>3, <1>4, <1>7
  <2>2. QED
    BY <1>2, <2>1
<1>8. OfExpr(ms, f)
  <2>1. ASSUME f.fn = "binop" /\ f.at = "rhs"
        PROVE  /\ ms[f.made[1]].type = Ops[f.level] /\ Len(ms[f.made[1]].kids) = 2
               /\ ms[f.made[1]].kids[1] = f.made[3] /\ ms[f.made[1]].kids[2] = f.made[2]
               /\ ValueIn(ms, f.made[3], f.level - 1)
    <3>1. f.made[1] \in 1 .. top.mark[2] /\ f.made[3] \in 1 .. top.mark[2]
      BY <2>1, WaitsMade
    <3>2. ns[f.made[1]].type # "BLOCK"
      <4>1. ns[f.made[1]].type \in OpsTo(Len(Ops))
        BY <1>1, <2>1, Kinds DEF OfExpr, Parts
      <4>2. QED
        BY <4>1, Kinds
    <3>3. ms[f.made[1]] = ns[f.made[1]] /\ f.made[3] \in 1 .. Len(ns)
      BY <1>4, <1>7, <3>1, <3>2
    <3>4. QED
      BY <1>1, <1>2, <2>1, <3>3 DEF OfExpr, Parts
  <2>2. ASSUME f.fn = "conditional" /\ f.at \in {"then", "else"}
        PROVE  /\ ms[f.made[1]].type = "IF" /\ Len(ms[f.made[1]].kids) = 3
               /\ ms[f.made[1]].kids[1] = f.made[4] /\ ms[f.made[1]].kids[2] = f.made[3]
               /\ ms[f.made[1]].kids[3] = f.made[2]
               /\ ValueIn(ms, f.made[4], Len(Ops))
               /\ f.at = "else" => ExprIn(ms, f.made[3])
    <3>1. {f.made[1], f.made[3], f.made[4]} \subseteq 1 .. top.mark[2]
      BY <2>2, WaitsMade
    <3>2. ns[f.made[1]].type = "IF"
      BY <1>1, <2>2 DEF OfExpr, Parts
    <3>3. ms[f.made[1]] = ns[f.made[1]] /\ f.made[3] \in 1 .. Len(ns) /\ f.made[4] \in 1 .. Len(ns)
      BY <1>4, <1>7, <3>1, <3>2
    <3>4. QED
      BY <1>1, <1>2, <2>2, <3>3 DEF OfExpr, Parts
  <2>3. QED
    BY <1>1, <1>6, <2>1, <2>2 DEF OfExpr, Parts
<1>9. OfStmt(ms, f)
  <2>1. ASSUME f.fn = "jump" /\ f.at = "semi"
        PROVE  /\ ms[f.made[1]].type = "RETURN" /\ Len(ms[f.made[1]].kids) = 1
               /\ ms[f.made[1]].kids[1] = f.made[2]
               /\ ExprBlock(ms, f.made[2]) /\ NoVarFrom(ms, f.made[2])
    <3>1. f.made[1] \in 1 .. top.mark[2] /\ f.made[2] \in 1 .. top.mark[2]
      BY <2>1, WaitsMade
    <3>2. ns[f.made[1]].type = "RETURN"
      BY <1>1, <2>1 DEF OfStmt
    <3>3. ms[f.made[1]] = ns[f.made[1]] /\ f.made[2] \in 1 .. Len(ns)
      BY <1>4, <1>7, <3>1, <3>2
    <3>4. QED
      BY <1>1, <1>2, <1>6, <2>1, <3>3 DEF OfStmt
  <2>2. f.at \notin {"value", "enter", "open"}
    BY <1>1 DEF Alone
  <2>3. QED
    BY <1>1, <2>1, <2>2 DEF OfStmt
<1>10. OfDecl(ms, f)
  <2>1. f.fn \notin DeclFns /\ (f.fn = "external" => f.at \notin {"specs", "decl"})
    BY <1>1 DEF Inside, InExpr, ExprFns, DeclFns
  <2>2. ASSUME f.fn = "external" /\ f.at # "enter"
        PROVE  /\ ms[f.made[1]].type = "NEW_VAR" /\ Len(ms[f.made[1]].kids) = 2
               /\ ms[f.made[1]].kids[1] = f.made[3] /\ ms[f.made[1]].kids[2] = f.made[2]
    <3>1. f.made[1] \in 1 .. top.mark[2] /\ ns[f.made[1]].type = "NEW_VAR"
      BY <1>1, <2>2, WaitsMade DEF OfDecl
    <3>2. ms[f.made[1]] = ns[f.made[1]]
      BY <1>7, <3>1
    <3>3. QED
      BY <1>1, <2>2, <3>2 DEF OfDecl
  <2>3. QED
    BY <1>1, <2>1, <2>2 DEF OfDecl, DeclFns
<1>11. QED
  BY <1>5, <1>8, <1>9, <1>10 DEF OfTree

(* ... and where a declaration or a statement is handed over.              *)
LEMMA WaitsGiven ==
  ASSUME NEW ns, NEW ms, NEW f, NEW top, Waits(ns, f, top), NEW b, NEW c, Given(ns, ms, b, c),
         c > top.mark[2], c \in Nat,
         top.fn = "jump" \/ (top.fn = "parameter" /\ ns[b].type = "NEW_TYPE")
  PROVE  OfTree(ms, f)
<1>1. OfAll(ns, f) /\ OfExpr(ns, f) /\ OfStmt(ns, f) /\ OfDecl(ns, f) /\ ~Alone(f) /\ Inside(f, top)
  BY DEF Waits, OfTree
<1>2. ASSUME NEW n \in 1 .. Len(ns)
      PROVE  ms[n].type = ns[n].type /\ (n # b => ms[n] = ns[n])
  BY DEF Given, SameBut
<1>3. f.mark[2] \in Nat /\ top.mark[2] \in Nat /\ f.expr \in Nat /\ Len(ns) \in Nat /\ Len(ms) = Len(ns)
      /\ f.mark[2] <= top.mark[2] /\ top.mark[2] <= Len(ns) /\ b \in 1 .. Len(ns)
      /\ ns[b].type \in {"BLOCK", "NEW_TYPE"}
  BY DEF Waits, Given, SameBut
<1>4. ~InExpr(top) /\ top.fn # "specifiers"
  BY DEF InExpr, ExprFns
<1>5. ~InExpr(f) /\ f.fn # "jump" /\ f.at # "specs"
  BY <1>1, <1>4 DEF Waits, Inside
<1>6. ASSUME NEW m \in 1 .. top.mark[2] PROVE m \in 1 .. Len(ns)
  BY <1>3
<1>7. ASSUME NEW n \in 1 .. top.mark[2], ns[n].type = "NEW_VAR" PROVE ms[n] = ns[n]
  <2>1. n \in 1 .. Len(ns) /\ n # b
    BY <1>3, <1>6, <1>7
  <2>2. QED
    BY <1>2, <2>1
<1>8. OfAll(ms, f)
  <2>1. ASSUME Removable(f) PROVE Private(ms, MadeBy(f))
    <3>1. Private(ns, MadeBy(f)) /\ MadeBy(f) \subseteq 1 .. top.mark[2]
      BY <1>1, <2>1, WaitsMade DEF OfAll
    <3>2. c \notin MadeBy(f)
      BY <1>3, <3>1
    <3>3. Kids(ms, b) \subseteq Kids(ns, b) \cup {c}
      <4>1. ms[b].kids = Append(ns[b].kids, c)
        BY DEF Given
      <4>2. ASSUME NEW k \in DOMAIN ms[b].kids PROVE ms[b].kids[k] = c \/ ms[b].kids[k] \in Kids(ns, b)
        BY <4>1, <4>2 DEF Kids
      <4>3. QED
        BY <4>2 DEF Kids
    <3>4. ASSUME NEW n \in 1 .. Len(ms), n \notin MadeBy(f), NEW m \in Kids(ms, n) PROVE m \notin MadeBy(f)
      <4>1. n \in 1 .. Len(ns) /\ (m \in Kids(ns, n) \/ m = c)
        <5>1. n \in 1 .. Len(ns) /\ (n # b => Kids(ms, n) = Kids(ns, n))
          BY <1>2, <1>3, <3>4 DEF Kids
        <5>2. QED
          BY <3>3, <3>4, <5>1
      <4>2. QED
        BY <3>1, <3>2, <3>4, <4>1 DEF Private
    <3>5. QED
      BY <3>4 DEF Private
  <2>2. QED
    BY <1>1, <1>3, <2>1 DEF OfAll
<1>9. OfExpr(ms, f)
  BY <1>5 DEF OfExpr, Parts, InExpr, ExprFns
<1>10. OfStmt(ms, f)
  BY <1>1, <1>5 DEF OfStmt, Alone
<1>11. OfDecl(ms, f)
  <2>1. ASSUME f.fn = "external" /\ f.at # "enter"
        PROVE  /\ ms[f.made[1]].type = "NEW_VAR" /\ Len(ms[f.made[1]].kids) = 2
               /\ ms[f.made[1]].kids[1] = f.made[3] /\ ms[f.made[1]].kids[2] = f.made[2]
               /\ f.at = "decl" => ms[f.made[2]] = Block
    <3>1. {f.made[1], f.made[2]} \subseteq 1 .. top.mark[2] /\ ns[f.made[1]].type = "NEW_VAR"
      BY <1>1, <2>1, WaitsMade DEF OfDecl
    <3>2. ms[f.made[1]] = ns[f.made[1]]
      BY <1>7, <3>1
    <3>3. ASSUME f.at = "decl" PROVE ms[f.made[2]] = Block
      <4>1. top.fn # "jump"
        BY <1>1, <2>1, <3>3 DEF Inside, DeclFns
      <4>2. ns[f.made[2]] = Block /\ ns[b].type = "NEW_TYPE"
        BY <1>1, <2>1, <3>3, <4>1 DEF OfDecl
      <4>3. f.made[2] # b
        BY <4>2 DEF Block, Node
      <4>4. QED
        BY <1>2, <1>6, <3>1, <4>2, <4>3
    <3>4. QED
      BY <1>1, <2>1, <3>2, <3>3 DEF OfDecl
  <2>2. ASSUME f.fn = "parameter" /\ f.at # "enter"
        PROVE  ms[f.made[2]].type = "NEW_VAR" /\ ms[f.made[2]].kids[1] = f.made[1]
    <3>1. f.made[2] \in 1 .. top.mark[2] /\ ns[f.made[2]].type = "NEW_VAR"
      BY <1>1, <2>2, WaitsMade DEF OfDecl
    <3>2. ms[f.made[2]] = ns[f.made[2]]
      BY <1>7, <3>1
    <3>3. QED
      BY <1>1, <2>2, <3>2 DEF OfDecl
  <2>3. ASSUME f.fn \in {"parameter", "declarator"} PROVE f.expr >= 1 /\ ms[f.expr].type = "NEW_VAR"
    <3>1. f.expr >= 1 /\ f.expr <= f.mark[2] /\ ns[f.expr].type = "NEW_VAR"
      BY <1>1, <2>3 DEF OfDecl, OfAll
    <3>2. f.expr \in 1 .. Len(ns)
      BY <1>3, <3>1
    <3>3. QED
      BY <1>2, <3>1, <3>2
  <2>4. f.at \notin {"enter", "name", "specs"}
    BY <1>1, <1>5 DEF Alone
  <2>5. QED
    BY <1>1, <2>1, <2>2, <2>3, <2>4 DEF OfDecl
<1>12. QED
  BY <1>8, <1>9, <1>10, <1>11 DEF OfTree

-----------------------------------------------------------------------------
(* An arena that grows                                                     *)

(* ms is ns with new nodes, which refer to no node that is older than the  *)
(* activation top.                                                         *)
Grows(top, ns, ms) ==
  /\ IsSeq(ms) /\ Len(ns) <= Len(ms)
  /\ \A n \in 1 .. Len(ns) : SameNode(ns, ms, n)
  /\ \A n \in Len(ns) + 1 .. Len(ms) :
       /\ NodeOK(ms, n)
       /\ ms[n].type = "NEW_VAR" => top.fn \in DeclFns \cup {"external"}
       /\ \A m \in Kids(ms, n) : m = NIL \/ m > top.mark[2]

(* Every node stays as it should be.                                       *)
LEMMA GrowsArena ==
  ASSUME NEW top, NEW ns, NEW ms, Grows(top, ns, ms), ArenaOK(ns)
  PROVE  ArenaOK(ms) /\ Agrees(ns, ms, 1 .. Len(ns)) /\ Len(ns) \in Nat /\ Len(ms) \in Nat
<1>1. \A n \in 1 .. Len(ns) : NodeOK(ns, n) /\ Formed(ns, n) /\ SameNode(ns, ms, n)
  BY DEF ArenaOK, NodeOK, Grows
<1>2. Len(ns) \in Nat /\ Len(ms) \in Nat /\ Len(ns) <= Len(ms) /\ Len(ns) >= 2
  BY SeqDomain DEF ArenaOK, Grows
<1>3. \A n \in 1 .. Len(ns) : Kids(ns, n) \subseteq 1 .. Len(ns)
  BY <1>1 DEF Formed
<1>4. Agrees(ns, ms, 1 .. Len(ns))
  BY <1>1, <1>3 DEF Agrees
<1>5. \A n \in 1 .. Len(ns) : NodeOK(ms, n)
  <2>1. 1 .. Len(ns) \subseteq 1 .. Len(ms)
    BY <1>2
  <2>2. QED
    BY <1>1, <1>4, <2>1, AgreeNode
<1>6. \A n \in 1 .. Len(ms) : n \in 1 .. Len(ns) \/ n \in Len(ns) + 1 .. Len(ms)
  BY <1>2
<1>7. \A n \in 1 .. Len(ms) : NodeOK(ms, n)
  BY <1>5, <1>6 DEF Grows
<1>8. ms[NIL].type = "INVALID" /\ ms[UnitBlock].type = "BLOCK"
  <2>1. NIL \in 1 .. Len(ns) /\ UnitBlock \in 1 .. Len(ns)
    BY <1>2 DEF NIL, UnitBlock
  <2>2. QED
    BY <1>1, <2>1 DEF ArenaOK, SameNode
<1>9. QED
  BY <1>2, <1>4, <1>7, <1>8 DEF ArenaOK, Grows

(* What waits keeps its tree.                                              *)
LEMMA GrowsWaits ==
  ASSUME NEW top, NEW ns, NEW ms, Grows(top, ns, ms), ArenaOK(ns), NEW f, Waits(ns, f, top)
  PROVE  OfTree(ms, f)
<1>1. Agrees(ns, ms, 1 .. Len(ns)) /\ Len(ns) \in Nat /\ Len(ms) \in Nat /\ Len(ns) <= Len(ms)
  BY GrowsArena DEF Grows
<1>2. top.mark[2] \in Nat /\ top.mark[2] <= Len(ns)
  BY DEF Waits
<1>3. PICK D : D = 1 .. Len(ns)
  OBVIOUS
<1>4. 1 .. top.mark[2] \subseteq D /\ D \subseteq 1 .. Len(ns) /\ D \subseteq 1 .. Len(ms) /\ top.mark[2] <= Len(ms)
  BY <1>1, <1>2, <1>3
<1>5. \A n \in 1 .. Len(ms) : n \notin D =>
        /\ ms[n].type = "NEW_VAR" => top.fn \in DeclFns \cup {"external"}
        /\ \A m \in Kids(ms, n) : m = NIL \/ m > top.mark[2]
  <2>1. \A n \in 1 .. Len(ms) : n \notin D => n \in Len(ns) + 1 .. Len(ms)
    BY <1>1, <1>3
  <2>2. QED
    BY <2>1 DEF Grows
<1>6. QED
  BY <1>1, <1>3, <1>4, <1>5, WaitsAgree

-----------------------------------------------------------------------------
(* The steps of any activation                                             *)

(* The callers of the innermost activation wait.                           *)
LEMMA WaitsFor ==
  ASSUME Parse, Tree, stack # << >>, NEW top, top = Top, NEW k \in 1 .. Depth - 1, NEW f, f = stack[k]
  PROVE  Waits(nodes, f, top)
<1>1. top \in Frames /\ top = stack[Depth] /\ Depth \in Nat /\ Depth >= 1 /\ FrameOK(top)
  BY OfTop
<1>2. f \in Frames /\ FrameOK(f) /\ ~Alone(f) /\ Over(f, top)
  BY OfCaller
<1>3. OfTree(nodes, f) /\ Inside(f, top)
  <2>1. k \in 1 .. Depth /\ Depth \in 1 .. Depth /\ k \in 1 .. Depth - 1
    BY <1>1
  <2>2. QED
    BY <1>1, <2>1 DEF Tree
<1>4. /\ f.mark[2] \in Nat /\ top.mark[2] \in Nat /\ f.expr \in Nat
      /\ DOMAIN f.made = 1 .. Len(f.made) /\ Len(f.made) \in Nat
      /\ \A d \in DOMAIN f.made : f.made[d] \in Nat
  BY <1>1, <1>2, FrameFields
<1>5. Len(nodes) \in Nat
  BY SeqDomain DEF Parse, Types
<1>6. f.mark[2] <= top.mark[2] /\ top.mark[2] <= Len(nodes) /\ (InExpr(f) => InExpr(top))
  BY <1>1, <1>2 DEF Over, FrameOK, Spanned
<1>7. \A d \in DOMAIN f.made : f.made[d] \in 1 .. top.mark[2]
  BY <1>3, <1>4, <1>5 DEF OfTree, OfAll, Inside
<1>8. ASSUME Removable(f) PROVE NIL \notin MadeBy(f)
  <2>1. CASE Failing(f)
    <3>1. InExpr(f) /\ f.fn # "external"
      BY <2>1 DEF Failing, Passing, InExpr, ExprFns
    <3>2. \A d \in DOMAIN f.made : f.made[d] \in f.mark[2] + 1 .. Len(nodes)
      BY <1>2, <3>1 DEF FrameOK, Spanned
    <3>3. f.mark[2] >= 2
      BY <1>3, <3>1 DEF OfTree, OfAll
    <3>4. ASSUME NEW d \in DOMAIN f.made PROVE f.made[d] # 1
      <4>1. PICK x : x = f.made[d]
        OBVIOUS
      <4>2. x \in f.mark[2] + 1 .. Len(nodes) /\ f.mark[2] \in Nat
        BY <1>4, <3>2, <4>1
      <4>3. x > 2
        BY <1>5, <3>3, <4>2
      <4>4. QED
        BY <4>1, <4>3
    <3>5. QED
      BY <3>4 DEF MadeBy, NIL
  <2>2. CASE f.fn = "external" /\ f.at # "enter"
    <3>1. Len(f.made) = 3 /\ f.made[3] > 2 /\ f.made[3] < f.made[2] /\ f.made[2] < f.made[1]
      BY <1>3, <2>2 DEF OfTree, OfDecl, UnitBlock
    <3>2. \A d \in DOMAIN f.made : d = 1 \/ d = 2 \/ d = 3
      BY <1>4, <3>1
    <3>3. f.made[1] \in Nat /\ f.made[2] \in Nat /\ f.made[3] \in Nat
      BY <1>4, <3>1
    <3>4. \A d \in DOMAIN f.made : f.made[d] # 1
      BY <3>1, <3>2, <3>3
    <3>5. QED
      BY <3>4 DEF MadeBy, NIL
  <2>3. QED
    BY <1>8, <2>1, <2>2 DEF Removable
<1>9. Sized(f) /\ f.fn \in Fns
  BY <1>2 DEF FrameOK, Frames
<1>10. QED
  BY <1>2, <1>3, <1>4, <1>5, <1>6, <1>7, <1>8, <1>9 DEF Waits

(* The innermost one.                                                      *)
LEMMA TopTree ==
  ASSUME Parse, Tree, stack # << >>, NEW top, top = Top
  PROVE  /\ OfTree(nodes, top) /\ (ret = "true" => Filled(nodes, top))
         /\ top.mark[2] \in Nat /\ top.expr \in Nat /\ top.mark[2] <= Len(nodes)
         /\ Len(nodes) \in Nat /\ DOMAIN top.made = 1 .. Len(top.made) /\ Len(top.made) \in Nat
<1>1. top \in Frames /\ top = stack[Depth] /\ Depth \in 1 .. Depth /\ FrameOK(top)
  BY OfTop
<1>2. Len(nodes) \in Nat
  BY SeqDomain DEF Parse, Types
<1>3. QED
  BY <1>1, <1>2, FrameFields DEF Tree, FrameOK, Spanned

(* Which rule calls which.                                                 *)
Goes(me, c) ==
  /\ me.fn \in DeclFns => c.fn \in DeclFns /\ me.fn # "specifiers"
  /\ me.fn = "compound" => c.fn = "jump" /\ c.expr = me.expr
  /\ me.fn = "jump" \/ InExpr(me) => InExpr(c)
  /\ me.at = "specs" => c.fn = "specifiers"
  /\ me.fn = "external" =>
       /\ me.at \in {"specs", "decl", "body"}
       /\ me.at \in {"specs", "decl"} => c.fn \in DeclFns
       /\ me.at = "body" => c.fn = "compound" /\ c.expr = me.made[2]

(* An activation that goes on is inside of the same ones, ...              *)
LEMMA InsideOn ==
  ASSUME NEW f, NEW top, NEW me, Inside(f, top),
         me.fn = top.fn, me.expr = top.expr, me.mark = top.mark
  PROVE  Inside(f, me)
  BY DEF Inside, InExpr

(* ... and one that it calls is inside of them too.                        *)
LEMMA InsideMore ==
  ASSUME NEW ns, NEW f, NEW top, NEW me, NEW c, Waits(ns, f, top), Goes(me, c),
         me.fn = top.fn, me.expr = top.expr, c.mark[2] \in Nat, Len(ns) <= c.mark[2],
         top.fn # "external", top.fn \in Fns
  PROVE  Inside(f, c)
<1>1. Inside(f, top) /\ \A d \in DOMAIN f.made : f.made[d] \in 1 .. top.mark[2]
  BY DEF Waits
<1>2. \A d \in DOMAIN f.made : f.made[d] <= c.mark[2]
  BY <1>1 DEF Waits
<1>3. InExpr(me) <=> InExpr(top)
  BY DEF InExpr
<1>4. f.at # "specs"
  BY <1>1 DEF Inside, Goes, DeclFns
<1>5. top.fn \in DeclFns \/ top.fn = "compound" \/ top.fn = "jump" \/ InExpr(top)
  BY DEF Fns, DeclFns, InExpr, ExprFns
<1>6. /\ top.fn \in DeclFns => c.fn \in DeclFns
      /\ top.fn = "compound" => c.fn = "jump" /\ c.expr = top.expr
      /\ top.fn = "jump" \/ InExpr(top) => InExpr(c)
  BY <1>3 DEF Goes
<1>7. \A fn : /\ fn \in DeclFns => fn \notin StmtFns
              /\ fn \in ExprFns => fn \notin StmtFns \cup DeclFns
  BY DEF DeclFns, StmtFns, ExprFns
<1>8. c.fn \in StmtFns => top.fn = "compound" /\ top.fn \in StmtFns /\ c.expr = top.expr
  BY <1>5, <1>6, <1>7 DEF InExpr, StmtFns
<1>9. f.fn \in DeclFns => c.fn \in DeclFns
  BY <1>1, <1>6 DEF Inside
<1>10. f.fn = "compound" => c.fn = "jump" \/ InExpr(c)
  BY <1>1, <1>6 DEF Inside
<1>11. f.fn = "jump" => InExpr(c)
  BY <1>1, <1>6 DEF Inside
<1>12. ASSUME f.fn = "external"
       PROVE  /\ f.at \in {"specs", "decl"} => c.fn \in DeclFns
              /\ f.at = "body" => c.fn \in StmtFns \/ InExpr(c)
              /\ c.fn \in StmtFns => c.expr = f.made[2]
  <2>1. f.at \in {"specs", "decl"} => c.fn \in DeclFns
    BY <1>1, <1>6, <1>12 DEF Inside
  <2>2. f.at = "body" => c.fn \in StmtFns \/ InExpr(c)
    BY <1>1, <1>6, <1>12 DEF Inside, StmtFns
  <2>3. c.fn \in StmtFns => c.expr = f.made[2]
    BY <1>1, <1>8, <1>12 DEF Inside
  <2>4. QED
    BY <2>1, <2>2, <2>3
<1>13. QED
  BY <1>2, <1>4, <1>9, <1>10, <1>11, <1>12 DEF Inside

(* A call: me calls c.                                                     *)
HandsOn(top, me, c) ==
  /\ me.fn = top.fn /\ me.expr = top.expr /\ me.mark = top.mark /\ me.level = top.level
  /\ Goes(me, c) /\ Asks(me, c)

(* The arena and what is known of it are kept by a call.                   *)
LEMMA TreeCalled ==
  ASSUME Parse, Tree, ArenaOK(nodes), stack # << >>, NEW top, top = Top,
         NEW me \in Frames, NEW c \in Frames, stack' = Front(stack) \o <<me, c>>, ret' = NoRet,
         Grows(top, nodes, nodes'), HandsOn(top, me, c), c.mark[2] = Len(nodes'),
         OfTree(nodes', me), OfTree(nodes', c)
  PROVE  Tree' /\ ArenaOK(nodes')
<1>1. /\ top \in Frames /\ top = stack[Depth] /\ Depth \in Nat /\ Depth >= 1
      /\ (top.fn = "external" => Depth = 1)
  BY OfTop
<1>2. /\ stack' \in Seq(Frames) /\ Depth' = Depth + 1 /\ Top' = c
      /\ stack'[Depth] = me /\ stack'[Depth + 1] = c
      /\ \A i \in 1 .. Depth - 1 : stack'[i] = stack[i]
  BY FrontCall DEF Parse, Types, Depth, Top
<1>3. ArenaOK(nodes') /\ Len(nodes) \in Nat /\ Len(nodes') \in Nat /\ Len(nodes) <= Len(nodes')
  BY GrowsArena DEF Grows
<1>4. ASSUME NEW k \in 1 .. Depth - 1, NEW f, f = stack[k]
      PROVE  Waits(nodes, f, top) /\ OfTree(nodes', f)
  BY <1>4, WaitsFor, GrowsWaits
<1>5. \A k \in 1 .. Depth + 1 : k \in 1 .. Depth - 1 \/ k = Depth \/ k = Depth + 1
  BY <1>1
<1>6. stack' # << >> /\ \A f \in {stack'[1]} : f.fn = "external"
  <2>1. stack' # << >>
    BY <1>1, <1>2, EmptySeq DEF Depth
  <2>2. stack[1].fn = "external"
    BY DEF Tree
  <2>3. CASE Depth = 1
    BY <1>1, <1>2, <2>2, <2>3 DEF HandsOn
  <2>4. CASE Depth # 1
    <3>1. 1 \in 1 .. Depth - 1
      BY <1>1, <2>4
    <3>2. QED
      BY <1>2, <2>2, <3>1
  <2>5. QED
    BY <2>1, <2>3, <2>4
<1>7. \A k \in 1 .. Depth + 1 : \A f \in {stack'[k]} : OfTree(nodes', f)
  BY <1>2, <1>4, <1>5
<1>8. Inside(me, c)
  <2>1. \A d \in DOMAIN me.made : me.made[d] <= c.mark[2]
    BY <1>3 DEF OfTree, OfAll
  <2>2. c.fn \in DeclFns => c.fn \notin StmtFns
    BY DEF DeclFns, StmtFns
  <2>3. Goes(me, c)
    BY DEF HandsOn
  <2>4. me.fn = "external" =>
          /\ me.at \in {"specs", "decl"} => c.fn \in DeclFns
          /\ me.at = "body" => c.fn \in StmtFns \/ InExpr(c)
          /\ c.fn \in StmtFns => c.expr = me.made[2]
    BY <2>2, <2>3 DEF Goes, StmtFns
  <2>5. QED
    BY <2>1, <2>3, <2>4 DEF Goes, Inside
<1>9. ASSUME NEW j \in 1 .. Depth - 1, NEW f, f = stack[j]
      PROVE  Inside(f, me) /\ Inside(f, c)
  <2>1. Waits(nodes, f, top) /\ Inside(f, top)
    BY <1>4, <1>9 DEF Waits
  <2>2. top.fn # "external" /\ top.fn \in Fns /\ c.mark[2] \in Nat
    BY <1>1, <1>3, SMTT(30) DEF Frames
  <2>3. QED
    BY <1>3, <2>1, <2>2, InsideOn, InsideMore DEF HandsOn
<1>10. ASSUME NEW k \in 1 .. Depth + 1, NEW j \in 1 .. k - 1, NEW f, f = stack'[j], NEW d, d = stack'[k]
       PROVE  Inside(f, d)
  <2>1. CASE k \in 1 .. Depth - 1
    <3>1. j \in 1 .. Depth - 1 /\ k \in 1 .. Depth
      BY <1>1, <2>1
    <3>2. f = stack[j] /\ d = stack[k]
      BY <1>2, <1>10, <2>1, <3>1
    <3>3. QED
      BY <3>1, <3>2 DEF Tree
  <2>2. CASE k = Depth
    BY <1>2, <1>9, <1>10, <2>2
  <2>3. CASE k = Depth + 1
    <3>1. j \in 1 .. Depth - 1 \/ j = Depth
      BY <1>1, <2>3
    <3>2. QED
      BY <1>2, <1>8, <1>9, <1>10, <2>3, <3>1
  <2>4. QED
    BY <1>5, <2>1, <2>2, <2>3
<1>11. ASSUME NEW k \in 1 .. Depth, NEW f, f = stack'[k], NEW d, d = stack'[k + 1]
       PROVE  Asks(f, d)
  <2>1. CASE k = Depth
    BY <1>2, <1>11, <2>1 DEF HandsOn
  <2>2. CASE k # Depth
    <3>1. k \in 1 .. Depth - 1 /\ (k + 1 = Depth \/ k + 1 \in 1 .. Depth - 1)
      BY <1>1, <2>2
    <3>2. PICK e : e = stack[k + 1]
      OBVIOUS
    <3>3. f = stack[k] /\ d.fn = e.fn /\ d.expr = e.expr /\ d.level = e.level
      BY <1>1, <1>2, <1>11, <3>1, <3>2 DEF HandsOn
    <3>4. Asks(f, e)
      BY <3>1, <3>2, <3>3 DEF Tree
    <3>5. QED
      BY <3>3, <3>4 DEF Asks, Operates
  <2>3. QED
    BY <2>1, <2>2
<1>12. ret' # "true"
  BY DEF NoRet
<1>13. Depth' - 1 = Depth
  BY <1>1, <1>2
<1>14. /\ \A k \in 1 .. Depth' : \A f \in {stack'[k]} : OfTree(nodes', f)
       /\ \A k \in 1 .. Depth' : \A j \in 1 .. k - 1 : \A f \in {stack'[j]}, d \in {stack'[k]} : Inside(f, d)
       /\ \A k \in 1 .. Depth' - 1 : \A f \in {stack'[k]}, d \in {stack'[k + 1]} : Asks(f, d)
  BY <1>2, <1>7, <1>10, <1>11, <1>13
<1>15. Tree'
  BY <1>6, <1>12, <1>14 DEF Tree
<1>16. QED
  BY <1>3, <1>15

(* One that fills its block does what it was asked for.                    *)
LEMMA AsksFills ==
  ASSUME NEW ns, NEW f, NEW c, Asks(f, c), Fills(ns, c)
  PROVE  Filled(ns, f)
<1>1. ASSUME NEW l, Operates(c, l) PROVE ValueIn(ns, c.expr, l)
  BY <1>1 DEF Operates, Fills
<1>2. c.fn \in {"conditional", "expression", "assignment"} => ExprIn(ns, c.expr)
  BY DEF Fills
<1>3. QED
  BY <1>1, <1>2 DEF Asks, Filled

(* They are kept by a return, ...                                          *)
LEMMA TreeReturned ==
  ASSUME Parse, Tree, stack # << >>, NEW top, top = Top, top.fn # "external",
         NEW v, Return(v), v = "true" => Fills(nodes', top),
         \A k \in 1 .. Depth - 1 : \A f \in {stack[k]} : OfTree(nodes', f)
  PROVE  Tree'
<1>1. top \in Frames /\ top = stack[Depth] /\ Depth \in Nat /\ Depth >= 1
  BY OfTop
<1>2. /\ stack' \in Seq(Frames) /\ Depth' = Depth - 1 /\ ret' = v
      /\ \A i \in 1 .. Depth - 1 : stack'[i] = stack[i]
  BY FrontType DEF Parse, Types, Depth, Return
<1>3. Depth # 1
  BY <1>1 DEF Tree
<1>4. stack' # << >> /\ \A f \in {stack'[1]} : f.fn = "external"
  <2>1. stack' # << >>
    BY <1>1, <1>2, <1>3, EmptySeq DEF Depth
  <2>2. 1 \in 1 .. Depth - 1
    BY <1>1, <1>3
  <2>3. QED
    BY <1>2, <2>1, <2>2 DEF Tree
<1>5. \A k \in 1 .. Depth' : k \in 1 .. Depth - 1 /\ k \in 1 .. Depth /\ \A j \in 1 .. k - 1 : j \in 1 .. Depth - 1
  BY <1>1, <1>2
<1>6. \A k \in 1 .. Depth' - 1 : k \in 1 .. Depth - 1 /\ k + 1 \in 1 .. Depth - 1
  BY <1>1, <1>2
<1>7. /\ \A k \in 1 .. Depth' : \A f \in {stack'[k]} : OfTree(nodes', f)
      /\ \A k \in 1 .. Depth' : \A j \in 1 .. k - 1 : \A f \in {stack'[j]}, d \in {stack'[k]} : Inside(f, d)
      /\ \A k \in 1 .. Depth' - 1 : \A f \in {stack'[k]}, d \in {stack'[k + 1]} : Asks(f, d)
  BY <1>2, <1>5, <1>6 DEF Tree
<1>8. ASSUME v = "true" PROVE \A f \in {Top'} : Filled(nodes', f)
  <2>1. Top' = stack[Depth - 1]
    <3>1. Top' = stack'[Depth - 1]
      BY <1>2 DEF Top, Last, Depth
    <3>2. Depth - 1 \in 1 .. Depth - 1
      BY <1>1, <1>3
    <3>3. QED
      BY <1>2, <3>1, <3>2
  <2>2. PICK f : f = stack[Depth - 1]
    OBVIOUS
  <2>3. Asks(f, top)
    <3>1. Depth - 1 \in 1 .. Depth - 1 /\ Depth - 1 + 1 = Depth
      BY <1>1, <1>3
    <3>2. QED
      BY <1>1, <2>2, <3>1 DEF Tree
  <2>4. QED
    BY <1>8, <2>1, <2>2, <2>3, AsksFills
<1>9. QED
  BY <1>2, <1>4, <1>7, <1>8 DEF Tree

(* ... and where an activation goes on.                                    *)
LEMMA TreeContinued ==
  ASSUME Parse, Tree, stack # << >>, NEW top, top = Top, NEW me \in Frames, Continue(me),
         me.fn = top.fn, me.expr = top.expr, me.mark = top.mark, me.level = top.level,
         OfTree(nodes', me),
         \A k \in 1 .. Depth - 1 : \A f \in {stack[k]} : OfTree(nodes', f)
  PROVE  Tree'
<1>1. top \in Frames /\ top = stack[Depth] /\ Depth \in Nat /\ Depth >= 1
  BY OfTop
<1>2. /\ stack' \in Seq(Frames) /\ Depth' = Depth /\ Top' = me
      /\ stack'[Depth] = me /\ ret' = NoRet
      /\ \A i \in 1 .. Depth - 1 : stack'[i] = stack[i]
  BY FrontAppend DEF Parse, Types, Depth, Top, Continue
<1>3. ASSUME NEW k \in 1 .. Depth
      PROVE  /\ stack'[k].fn = stack[k].fn /\ stack'[k].expr = stack[k].expr
             /\ stack'[k].mark = stack[k].mark /\ stack'[k].level = stack[k].level
             /\ k # Depth => stack'[k] = stack[k]
  <2>1. k = Depth \/ k \in 1 .. Depth - 1
    BY <1>1
  <2>2. QED
    BY <1>1, <1>2, <2>1
<1>4. stack' # << >> /\ \A f \in {stack'[1]} : f.fn = "external"
  <2>1. stack' # << >>
    BY <1>1, <1>2, EmptySeq DEF Depth
  <2>2. 1 \in 1 .. Depth
    BY <1>1
  <2>3. QED
    BY <1>3, <2>1, <2>2 DEF Tree
<1>5. \A k \in 1 .. Depth : \A f \in {stack'[k]} : OfTree(nodes', f)
  <2>1. \A k \in 1 .. Depth : k = Depth \/ k \in 1 .. Depth - 1
    BY <1>1
  <2>2. QED
    BY <1>2, <2>1
<1>6. ASSUME NEW k \in 1 .. Depth, NEW j \in 1 .. k - 1, NEW f, f = stack'[j], NEW d, d = stack'[k]
      PROVE  Inside(f, d)
  <2>1. j \in 1 .. Depth /\ j # Depth
    BY <1>1
  <2>2. f = stack[j]
    BY <1>3, <1>6, <2>1
  <2>3. PICK e : e = stack[k]
    OBVIOUS
  <2>4. Inside(f, e)
    BY <2>2, <2>3 DEF Tree
  <2>5. d.fn = e.fn /\ d.expr = e.expr /\ d.mark = e.mark
    BY <1>3, <1>6, <2>3
  <2>6. QED
    BY <2>4, <2>5, InsideOn
<1>7. ASSUME NEW k \in 1 .. Depth - 1, NEW f, f = stack'[k], NEW d, d = stack'[k + 1]
      PROVE  Asks(f, d)
  <2>1. k \in 1 .. Depth /\ k # Depth /\ k + 1 \in 1 .. Depth
    BY <1>1
  <2>2. f = stack[k]
    BY <1>3, <1>7, <2>1
  <2>3. PICK e : e = stack[k + 1]
    OBVIOUS
  <2>4. Asks(f, e)
    BY <2>2, <2>3 DEF Tree
  <2>5. d.fn = e.fn /\ d.expr = e.expr /\ d.level = e.level
    BY <1>3, <1>7, <2>1, <2>3
  <2>6. QED
    BY <2>4, <2>5 DEF Asks, Operates
<1>8. ret' # "true"
  BY <1>2 DEF NoRet
<1>9. /\ \A k \in 1 .. Depth' : \A f \in {stack'[k]} : OfTree(nodes', f)
      /\ \A k \in 1 .. Depth' : \A j \in 1 .. k - 1 : \A f \in {stack'[j]}, d \in {stack'[k]} : Inside(f, d)
      /\ \A k \in 1 .. Depth' - 1 : \A f \in {stack'[k]}, d \in {stack'[k + 1]} : Asks(f, d)
  BY <1>2, <1>5, <1>6, <1>7
<1>10. QED
  BY <1>4, <1>8, <1>9 DEF Tree

(* An arena that stays grows, too.                                         *)
LEMMA GrowsSame ==
  ASSUME NEW top, NEW ns, ArenaOK(ns)
  PROVE  Grows(top, ns, ns)
<1>1. IsSeq(ns) /\ Len(ns) \in Nat
  BY SeqDomain DEF ArenaOK
<1>2. \A n \in 1 .. Len(ns) : SameNode(ns, ns, n)
  BY DEF SameNode
<1>3. Len(ns) + 1 .. Len(ns) = {}
  BY <1>1
<1>4. QED
  BY <1>1, <1>2, <1>3 DEF Grows

(* Where the arena grows, what waits is kept.                              *)
LEMMA GrowsKeeps ==
  ASSUME Parse, Tree, ArenaOK(nodes), stack # << >>, NEW top, top = Top, NEW ms, Grows(top, nodes, ms)
  PROVE  /\ ArenaOK(ms)
         /\ \A k \in 1 .. Depth - 1 : \A f \in {stack[k]} : Waits(ms, f, top)
<1>1. ArenaOK(ms) /\ Len(nodes) \in Nat /\ Len(ms) \in Nat /\ Len(nodes) <= Len(ms)
  BY GrowsArena DEF Grows
<1>2. ASSUME NEW k \in 1 .. Depth - 1, NEW f, f = stack[k]
      PROVE  Waits(ms, f, top)
  <2>1. Waits(nodes, f, top)
    BY <1>2, WaitsFor
  <2>2. OfTree(ms, f)
    BY <2>1, GrowsWaits
  <2>3. QED
    BY <1>1, <2>1, <2>2 DEF Waits
<1>3. QED
  BY <1>1, <1>2

-----------------------------------------------------------------------------
(* The block of an expression                                              *)

(* b is empty, and no variable's.                                          *)
Empty(ns, b) ==
  /\ b \in 3 .. Len(ns) /\ ns[b] = Block
  /\ \A n \in 1 .. Len(ns) : ns[n].type = "NEW_VAR" => b \notin Kids(ns, n)

(* So is the one of the innermost expression.                              *)
LEMMA TopEmpty ==
  ASSUME Parse, Tree, ArenaOK(nodes), stack # << >>, NEW top, top = Top, InExpr(top),
         ~(ret = "true" /\ Passing(top)), NEW ns, Grows(top, nodes, ns)
  PROVE  Empty(ns, top.expr) /\ top.expr <= top.mark[2] /\ top.mark[2] \in Nat /\ Len(ns) \in Nat
<1>1. /\ nodes[top.expr] = Block /\ top.expr \in 1 .. top.mark[2]
      /\ top.mark[2] \in Nat /\ top.mark[2] <= Len(nodes) /\ Len(nodes) \in Nat
  BY TopBlank
<1>2. Depth \in Nat /\ Depth >= 1 /\ top = stack[Depth] /\ top.fn # "external" /\ top.fn \notin DeclFns
  BY OfTop DEF InExpr, ExprFns, DeclFns
<1>3. OfTree(nodes, top)
  BY TopTree
<1>4. NoVarFrom(nodes, top.expr)
  BY <1>3 DEF OfTree, OfExpr, Parts
<1>5. PICK ext : ext = stack[1]
  OBVIOUS
<1>6. ext.fn = "external" /\ 1 \in 1 .. Depth - 1
  BY <1>2, <1>5 DEF Tree
<1>7. Waits(nodes, ext, top)
  BY <1>5, <1>6, WaitsFor
<1>8. ext.at # "enter"
  BY <1>7 DEF Waits, Alone
<1>9. /\ {ext.made[1], ext.made[2], ext.made[3]} \subseteq 1 .. top.mark[2]
      /\ ext.made[3] > 2 /\ ext.made[3] < ext.made[2] /\ ext.made[2] < ext.made[1]
      /\ nodes[ext.made[1]].type = "NEW_VAR"
  BY <1>6, <1>7, <1>8, WaitsMade, SMTT(30) DEF Waits, OfTree, OfDecl, UnitBlock
<1>10. ext.made[1] < top.expr
  BY <1>1, <1>4, <1>9 DEF NoVarFrom
<1>11. top.expr \in 3 .. Len(nodes)
  BY <1>1, <1>9, <1>10
<1>12. Len(ns) \in Nat /\ Len(nodes) <= Len(ns)
  BY GrowsArena DEF Grows
<1>13. top.expr \in 1 .. Len(nodes) /\ top.expr \in 3 .. Len(ns)
  BY <1>11, <1>12
<1>14. ns[top.expr] = Block
  BY <1>1, <1>13 DEF Grows, SameNode
<1>15. ASSUME NEW n \in 1 .. Len(ns), ns[n].type = "NEW_VAR"
       PROVE  top.expr \notin Kids(ns, n)
  <2>1. n \in 1 .. Len(nodes)
    <3>1. n \in 1 .. Len(nodes) \/ n \in Len(nodes) + 1 .. Len(ns)
      BY <1>1, <1>12
    <3>2. QED
      BY <1>2, <1>15, <3>1 DEF Grows
  <2>2. nodes[n].type = "NEW_VAR" /\ Kids(ns, n) = Kids(nodes, n)
    BY <1>15, <2>1 DEF Grows, SameNode, Kids
  <2>3. n < top.expr
    BY <1>4, <2>1, <2>2 DEF NoVarFrom
  <2>4. NodeOK(nodes, n)
    BY <2>1 DEF ArenaOK
  <2>5. DOMAIN nodes[n].kids = 1 .. Len(nodes[n].kids)
    BY <2>4, KidsOf DEF NodeOK
  <2>6. /\ Len(nodes[n].kids) = 2 /\ nodes[n].kids[1] < n
        /\ nodes[n].kids[2] = NIL \/ nodes[n].kids[2] < n
    <3>1. nodes[n].type \in Branches
      BY <2>2 DEF Branches
    <3>2. QED
      BY <2>2, <2>4, <3>1 DEF NodeOK, BranchOK
  <2>7. \A k \in 1 .. 2 : nodes[n].kids[k] \in 1 .. Len(nodes)
    BY <2>4, <2>5, <2>6, KidsOf DEF NodeOK
  <2>8. \A k \in 1 .. 2 : nodes[n].kids[k] # top.expr
    <3>1. \A k \in 1 .. 2 : k = 1 \/ k = 2
      OBVIOUS
    <3>2. QED
      BY <1>11, <2>1, <2>3, <2>6, <2>7, <3>1 DEF NIL
  <2>9. QED
    BY <2>2, <2>5, <2>6, <2>8 DEF Kids
<1>16. QED
  BY <1>1, <1>12, <1>13, <1>14, <1>15 DEF Empty

(* What belongs to a node is older.                                        *)
LEMMA OldestLess ==
  ASSUME NEW ns, NEW n \in Nat, NodeOK(ns, n)
  PROVE  Oldest(ns, n) <= n /\ Oldest(ns, n) \in Nat
<1>1. ns[n].type \in Branches => ns[n].kids[1] \in Nat /\ ns[n].kids[1] < n
  <2>1. ns[n].type \in Branches => ns[n].kids[1] \in Kids(ns, n) /\ ns[n].kids[1] < n
    BY KidsOf DEF NodeOK, BranchOK
  <2>2. Kids(ns, n) \subseteq Nat
    BY KidsOf DEF NodeOK
  <2>3. QED
    BY <2>1, <2>2
<1>2. QED
  BY <1>1 DEF Oldest

(* An empty block is given its only child.                                 *)
LEMMA OnlyChild ==
  ASSUME NEW ns, IsSeq(ns), NEW b, Empty(ns, b), NEW c, NEW ms, ms = WithChild(ns, b, c)
  PROVE  /\ SameBut(ms, ns, b) /\ IsNode(ms[b]) /\ ms[b].type = "BLOCK" /\ IsSeq(ms[b].kids)
         /\ Len(ms[b].kids) = 1 /\ ms[b].kids[1] = c
<1>1. SameBut(ms, ns, b)
  BY ChildGiven
<1>2. b \in DOMAIN ns
  <2>1. DOMAIN ns = 1 .. Len(ns) /\ Len(ns) \in Nat
    BY SeqDomain
  <2>2. QED
    BY <2>1 DEF Empty
<1>3. ms[b] = [ns[b] EXCEPT !.kids = Append(@, c)]
  BY <1>2 DEF WithChild
<1>4. ns[b] = [type |-> "BLOCK", kids |-> << >>, name |-> 0, func |-> FALSE]
  BY DEF Empty, Block, Node
<1>5. ms[b].type = "BLOCK" /\ ms[b].kids = Append(<< >>, c) /\ IsNode(ms[b])
  <2>1. PICK kids : kids = Append(<< >>, c)
    OBVIOUS
  <2>2. ms[b] = [type |-> "BLOCK", kids |-> kids, name |-> 0, func |-> FALSE]
    <3>1. PICK none : none = << >>
      OBVIOUS
    <3>2. PICK old : old = ns[b]
      OBVIOUS
    <3>3. old = [type |-> "BLOCK", kids |-> none, name |-> 0, func |-> FALSE]
      BY <1>4, <3>1, <3>2, Zenon
    <3>4. old.kids = none
      BY <3>3
    <3>5. Append(old.kids, c) = kids
      BY <2>1, <3>1, <3>4, Zenon
    <3>6. ms[b] = [old EXCEPT !.kids = kids]
      BY <1>3, <3>2, <3>5, Zenon
    <3>7. QED
      BY <3>3, <3>6
  <2>3. QED
    BY <2>1, <2>2 DEF IsNode
<1>6. IsSeq(<< >>) /\ Len(<< >>) = 0
  BY EmptySeq DEF IsSeq
<1>7. PICK s : s = << >>
  OBVIOUS
<1>8. PICK t : t = Append(s, c)
  OBVIOUS
<1>9. IsSeq(t) /\ Len(t) = 1 /\ t[1] = c
  <2>1. IsSeq(s) /\ Len(s) = 0
    BY <1>6, <1>7
  <2>2. IsSeq(t) /\ Len(t) = Len(s) + 1 /\ t[Len(s) + 1] = c
    BY <1>8, <2>1, SeqAppend
  <2>3. QED
    BY <2>1, <2>2
<1>10. QED
  BY <1>1, <1>5, <1>7, <1>8, <1>9

(* A block of one child that an expression may have is filled.             *)
LEMMA FilledOne ==
  ASSUME NEW ns, ArenaOK(ns), NEW b, Empty(ns, b), NEW ms, SameBut(ms, ns, b),
         IsNode(ms[b]), ms[b].type = "BLOCK", IsSeq(ms[b].kids), Len(ms[b].kids) = 1,
         NEW c \in 1 .. Len(ns), ms[b].kids[1] = c, Oldest(ns, c) > b, Done(ns, c),
         NEW l \in Int, l <= Len(Ops),
         \/ ns[c].type \in LeafTypes \cup OpsTo(l)
         \/ ns[c].type = "IF" \/ ValueIn(ns, c, Len(Ops))
  PROVE  /\ Fill(ns, ms, b) /\ ArenaOK(ms) /\ Kids(ms, b) = {c}
         /\ ns[c].type \in LeafTypes \cup OpsTo(l) => ValueIn(ms, b, l)
         /\ ns[c].type = "IF" \/ ValueIn(ns, c, Len(Ops)) => ExprIn(ms, b)
<1>1. /\ b \in 3 .. Len(ns) /\ ns[b].type = "BLOCK" /\ Len(ns) \in Nat /\ ns[b] = Block
      /\ \A n \in 1 .. Len(ns) : ns[n].type = "NEW_VAR" => b \notin Kids(ns, n)
  BY DEF Empty, Block, Node, SameBut
<1>2. \A n \in 1 .. Len(ns) : NodeOK(ns, n) /\ Formed(ns, n)
  BY DEF ArenaOK, NodeOK
<1>3. "BLOCK" \notin Branches /\ "BLOCK" \notin LeafTypes \cup OpsTo(Len(Ops))
  BY NoBranches, Kinds
<1>4. c # b /\ c # UnitBlock
  <2>1. Oldest(ns, b) = b
    BY <1>1, <1>3 DEF Oldest
  <2>2. Oldest(ns, UnitBlock) = UnitBlock
    BY <1>3 DEF Oldest, ArenaOK
  <2>3. QED
    BY <1>1, <2>1, <2>2 DEF UnitBlock
<1>5. ms[c] = ns[c]
  BY <1>4 DEF SameBut
<1>6. Single(ms, b)
  BY DEF Single
<1>7. ns[c].type \in LeafTypes \cup OpsTo(l) => ValueIn(ms, b, l) /\ ValueIn(ms, b, Len(Ops))
  <2>1. OpsTo(l) \subseteq OpsTo(Len(Ops))
    BY Kinds
  <2>2. QED
    BY <1>5, <1>6, <2>1 DEF ValueIn
<1>8. ASSUME ValueIn(ns, c, Len(Ops)) PROVE ValueIn(ms, c, Len(Ops))
  <2>1. Single(ns, c)
    BY <1>8 DEF ValueIn
  <2>2. ns[c].kids[1] \in 1 .. Len(ns)
    BY <1>2, <2>1, KidOf, KidsOf
  <2>3. ns[c].kids[1] # b
    BY <1>1, <1>3, <1>8 DEF ValueIn
  <2>4. ms[ns[c].kids[1]] = ns[ns[c].kids[1]]
    BY <2>2, <2>3 DEF SameBut
  <2>5. QED
    BY <1>5, <1>8, <2>1, <2>4 DEF ValueIn, Single
<1>9. ns[c].type = "IF" \/ ValueIn(ns, c, Len(Ops)) => ExprIn(ms, b)
  BY <1>5, <1>6, <1>8 DEF ExprIn
<1>10. Fill(ns, ms, b)
  <2>1. b \in 1 .. Len(ns) /\ b # UnitBlock
    BY <1>1 DEF UnitBlock
  <2>2. QED
    BY <1>1, <1>7, <1>9, <2>1 DEF Fill
<1>11. Kids(ms, b) = {c}
  <2>1. DOMAIN ms[b].kids = {1}
    BY SeqDomain
  <2>2. QED
    BY <2>1 DEF Kids
<1>12. NodeOK(ms, b)
  <2>1. Len(ms) = Len(ns)
    BY DEF SameBut
  <2>2. Formed(ms, b)
    BY <1>4, <1>11, <2>1 DEF Formed
  <2>3. BranchOK(ms, b)
    BY <1>3 DEF BranchOK
  <2>4. Done(ms, c)
    BY <1>2, <1>10, FillDone
  <2>5. Oldest(ms, c) = Oldest(ns, c)
    BY <1>5 DEF Oldest
  <2>6. ListOK(ms, b)
    BY <1>11, <2>4, <2>5 DEF ListOK, LeafTypes
  <2>7. QED
    BY <2>2, <2>3, <2>6 DEF NodeOK
<1>13. QED
  BY <1>7, <1>9, <1>10, <1>11, <1>12, FillArena

(* A rule of expressions has filled its block, and says so.                *)
LEMMA ExprTrue ==
  ASSUME Parse, Tree, ArenaOK(nodes), stack # << >>, NEW top, top = Top, InExpr(top),
         NEW ns, Grows(top, nodes, ns), Fill(ns, nodes', top.expr),
         \A m \in Kids(nodes', top.expr) : m \in Nat /\ m > top.mark[2],
         Return("true"), Fills(nodes', top)
  PROVE  Tree'
<1>1. ArenaOK(ns) /\ \A k \in 1 .. Depth - 1 : \A f \in {stack[k]} : Waits(ns, f, top)
  BY GrowsKeeps
<1>2. \A n \in 1 .. Len(ns) : Formed(ns, n)
  BY <1>1 DEF ArenaOK, NodeOK
<1>3. top.mark[2] \in Nat /\ top.fn # "external"
  BY TopTree DEF InExpr, ExprFns
<1>4. ASSUME NEW k \in 1 .. Depth - 1, NEW f, f = stack[k]
      PROVE  OfTree(nodes', f)
  <2>1. Waits(ns, f, top)
    BY <1>1, <1>4
  <2>2. \A m \in Kids(nodes', top.expr) : m \notin MadeBy(f)
    <3>1. MadeBy(f) \subseteq 1 .. top.mark[2]
      BY <2>1, WaitsMade
    <3>2. QED
      BY <1>3, <3>1
  <2>3. QED
    BY <1>2, <2>1, <2>2, WaitsFill
<1>5. QED
  BY <1>3, <1>4, TreeReturned

(* A rule returns, and leaves the arena as it was.                         *)
LEMMA PlainTree ==
  ASSUME Parse, Tree, ArenaOK(nodes), stack # << >>, NEW top, top = Top, top.fn # "external",
         nodes' = nodes, NEW v, Return(v), v = "true" => Fills(nodes, top)
  PROVE  Tree' /\ ArenaOK(nodes')
<1>1. \A k \in 1 .. Depth - 1 : \A f \in {stack[k]} : Waits(nodes, f, top)
  BY WaitsFor
<1>2. \A k \in 1 .. Depth - 1 : \A f \in {stack[k]} : OfTree(nodes', f)
  BY <1>1 DEF Waits
<1>3. QED
  BY <1>2, TreeReturned

(* A node that is given to the block of the innermost expression.          *)
LEMMA ExprGiven ==
  ASSUME Parse, Tree, ArenaOK(nodes), stack # << >>, NEW top, top = Top, InExpr(top),
         ~(ret = "true" /\ Passing(top)), NEW ns, Grows(top, nodes, ns),
         NEW c \in 1 .. Len(ns), Oldest(ns, c) > top.mark[2], Done(ns, c),
         NEW l \in Int, l <= Len(Ops),
         \/ ns[c].type \in LeafTypes \cup OpsTo(l)
         \/ ns[c].type = "IF" \/ ValueIn(ns, c, Len(Ops)),
         nodes' = WithChild(ns, top.expr, c), Return("true"),
         top.fn \in {"unary", "binop"} => ns[c].type \in LeafTypes \cup OpsTo(l),
         top.fn = "unary" => l = 0, top.fn = "binop" => l = top.level,
         top.fn \notin {"unary", "binop"} => ns[c].type = "IF" \/ ValueIn(ns, c, Len(Ops))
  PROVE  Tree' /\ ArenaOK(nodes')
<1>1. Empty(ns, top.expr) /\ top.expr <= top.mark[2] /\ top.mark[2] \in Nat /\ Len(ns) \in Nat
  BY TopEmpty
<1>2. ArenaOK(ns) /\ IsSeq(ns)
  BY GrowsArena DEF ArenaOK
<1>3. PICK b : b = top.expr
  OBVIOUS
<1>4. PICK ms : ms = nodes'
  OBVIOUS
<1>5. /\ SameBut(ms, ns, b) /\ IsNode(ms[b]) /\ ms[b].type = "BLOCK" /\ IsSeq(ms[b].kids)
      /\ Len(ms[b].kids) = 1 /\ ms[b].kids[1] = c
  BY <1>1, <1>2, <1>3, <1>4, OnlyChild
<1>6. Oldest(ns, c) > b /\ c > top.mark[2]
  <2>1. NodeOK(ns, c)
    BY <1>2 DEF ArenaOK
  <2>2. Oldest(ns, c) <= c /\ Oldest(ns, c) \in Nat
    BY <2>1, OldestLess
  <2>3. QED
    BY <1>1, <1>3, <2>2 DEF Empty
<1>7. /\ Fill(ns, ms, b) /\ ArenaOK(ms) /\ Kids(ms, b) = {c}
      /\ ns[c].type \in LeafTypes \cup OpsTo(l) => ValueIn(ms, b, l)
      /\ ns[c].type = "IF" \/ ValueIn(ns, c, Len(Ops)) => ExprIn(ms, b)
  BY <1>1, <1>2, <1>3, <1>5, <1>6, FilledOne
<1>8. Fills(nodes', top)
  BY <1>3, <1>4, <1>7 DEF Fills
<1>9. QED
  BY <1>3, <1>4, <1>6, <1>7, <1>8, ExprTrue

-----------------------------------------------------------------------------
(* Nodes that are pushed                                                   *)

(* more is s and one more element.                                         *)
OneMore(more, s, e) ==
  /\ IsSeq(more) /\ Len(more) = Len(s) + 1
  /\ \A i \in 1 .. Len(s) : more[i] = s[i]
  /\ more[Len(s) + 1] = e

(* What Append makes of a sequence.                                        *)
LEMMA Appended ==
  ASSUME NEW s, IsSeq(s), NEW e, NEW more, more = Append(s, e)
  PROVE  OneMore(more, s, e)
<1>1. PICK grown : grown = Append(s, e)
  OBVIOUS
<1>2. IsSeq(grown) /\ Len(grown) = Len(s) + 1
      /\ (\A i \in 1 .. Len(s) : grown[i] = s[i]) /\ grown[Len(s) + 1] = e
  BY <1>1, SeqAppend
<1>3. QED
  BY <1>1, <1>2 DEF OneMore

(* What is pushed is a node.                                               *)
LEMMA NodesMade == IsNode(Block) /\ \A type, kids : IsNode(Node(type, kids))
  BY DEF IsNode, Block, Node

(* A node without children is as it should be.                             *)
LEMMA NewNode ==
  ASSUME NEW ns, NEW n, IsNode(ns[n]), ns[n].kids = << >>, ns[n].type \in LeafTypes \cup {"BLOCK", "NEW_TYPE"}
  PROVE  NodeOK(ns, n) /\ Kids(ns, n) = {}
<1>1. IsSeq(ns[n].kids) /\ DOMAIN ns[n].kids = {}
  <2>1. IsSeq(<< >>) /\ Len(<< >>) = 0
    BY EmptySeq DEF IsSeq
  <2>2. PICK s : s = << >>
    OBVIOUS
  <2>3. DOMAIN s = 1 .. Len(s) /\ Len(s) = 0
    BY <2>1, <2>2, SeqDomain
  <2>4. QED
    BY <2>1, <2>2, <2>3
<1>2. Kids(ns, n) = {}
  BY <1>1 DEF Kids
<1>3. ns[n].type \notin Branches
  BY NoBranches DEF LeafTypes
<1>4. Formed(ns, n)
  BY <1>1, <1>2 DEF Formed
<1>5. BranchOK(ns, n) /\ ListOK(ns, n)
  BY <1>2, <1>3 DEF BranchOK, ListOK
<1>6. QED
  BY <1>2, <1>4, <1>5 DEF NodeOK

(* What is pushed makes the arena grow.                                    *)
LEMMA PushGrows ==
  ASSUME NEW top, NEW ns, ArenaOK(ns), NEW new, NEW ms, Extends(ms, ns, new),
         \A i \in 1 .. Len(new) :
           /\ NodeOK(ms, Len(ns) + i)
           /\ ms[Len(ns) + i].type = "NEW_VAR" => top.fn \in DeclFns \cup {"external"}
           /\ \A m \in Kids(ms, Len(ns) + i) : m = NIL \/ m > top.mark[2]
  PROVE  Grows(top, ns, ms)
<1>1. /\ IsSeq(ms) /\ Len(ms) = Len(ns) + Len(new) /\ Len(ns) \in Nat /\ Len(new) \in Nat
      /\ \A i \in 1 .. Len(ns) : ms[i] = ns[i]
  BY DEF Extends
<1>2. \A n \in 1 .. Len(ns) : SameNode(ns, ms, n)
  BY <1>1 DEF SameNode
<1>3. ASSUME NEW n \in Len(ns) + 1 .. Len(ms)
      PROVE  /\ NodeOK(ms, n)
             /\ ms[n].type = "NEW_VAR" => top.fn \in DeclFns \cup {"external"}
             /\ \A m \in Kids(ms, n) : m = NIL \/ m > top.mark[2]
  <2>1. PICK i \in 1 .. Len(new) : n = Len(ns) + i
    <3>1. n - Len(ns) \in 1 .. Len(new) /\ n = Len(ns) + (n - Len(ns))
      BY <1>1
    <3>2. QED
      BY <3>1
  <2>2. QED
    BY <2>1
<1>4. QED
  BY <1>1, <1>2, <1>3 DEF Grows

(* Nobody else refers to what is new.                                      *)
LEMMA NewPrivate ==
  ASSUME NEW top, NEW ns, ArenaOK(ns), NEW ms, Grows(top, ns, ms), NEW S,
         \A m \in S : m \in Nat /\ m > Len(ns),
         \A n \in Len(ns) + 1 .. Len(ms) : n \notin S => \A m \in Kids(ms, n) : m \notin S
  PROVE  Private(ms, S)
<1>1. Len(ns) \in Nat /\ Len(ms) \in Nat
  BY GrowsArena
<1>2. ASSUME NEW n \in 1 .. Len(ns), NEW m \in Kids(ms, n) PROVE m \notin S
  <2>1. Kids(ms, n) = Kids(ns, n)
    BY <1>2 DEF Grows, SameNode, Kids
  <2>2. m \in 1 .. Len(ns)
    BY <1>2, <2>1 DEF ArenaOK, NodeOK, Formed
  <2>3. ~(m > Len(ns))
    BY <1>1, <2>2
  <2>4. QED
    BY <2>3
<1>3. \A n \in 1 .. Len(ms) : n \in 1 .. Len(ns) \/ n \in Len(ns) + 1 .. Len(ms)
  BY <1>1
<1>4. QED
  BY <1>2, <1>3 DEF Private

(* Expressions push no variables.                                          *)
LEMMA NoVarGrows ==
  ASSUME NEW top, InExpr(top), NEW ns, ArenaOK(ns), NEW ms, Grows(top, ns, ms),
         NEW d \in Nat, NoVarFrom(ns, d), NEW e \in Nat, d <= e
  PROVE  NoVarFrom(ms, e)
<1>1. Len(ns) \in Nat /\ Len(ms) \in Nat
  BY GrowsArena
<1>2. top.fn \notin DeclFns \cup {"external"}
  BY DEF InExpr, ExprFns, DeclFns
<1>3. ASSUME NEW n \in 1 .. Len(ms), ms[n].type = "NEW_VAR" PROVE n < e
  <2>1. n \in 1 .. Len(ns)
    <3>1. n \in 1 .. Len(ns) \/ n \in Len(ns) + 1 .. Len(ms)
      BY <1>1
    <3>2. QED
      BY <1>2, <1>3, <3>1 DEF Grows
  <2>2. ns[n].type = "NEW_VAR"
    BY <1>3, <2>1 DEF Grows, SameNode
  <2>3. n < d
    BY <2>1, <2>2 DEF NoVarFrom
  <2>4. QED
    BY <1>1, <2>1, <2>3
<1>4. QED
  BY <1>3 DEF NoVarFrom

-----------------------------------------------------------------------------
(* The rules of expressions                                                *)

(* A rule of expressions calls another.                                    *)
LEMMA ExprTree ==
  ASSUME Parse, Tree, ArenaOK(nodes), stack # << >>, NEW top, top = Top, InExpr(top),
         Grows(top, nodes, nodes'), NEW at, NEW made, NEW me, Moves(me, top, at, made), at # "specs",
         NEW c, NEW fn \in ExprFns, NEW expr \in Nat, NEW a, Begins(c, fn, expr, <<a, Len(nodes')>>),
         stack' = Front(stack) \o <<me, c>>, ret' = NoRet,
         top.expr <= expr, expr <= Len(nodes'),
         c.fn = "binop" => c.level \in 1 .. Len(Ops), Asks(me, c),
         \A d \in DOMAIN made : made[d] \in 1 .. Len(nodes'),
         Removable(me) => Private(nodes', MadeBy(me)),
         Parts(nodes', me)
  PROVE  Tree' /\ ArenaOK(nodes')
<1>1. /\ me \in Frames /\ me.fn = top.fn /\ me.expr = top.expr /\ me.mark = top.mark /\ me.level = top.level
      /\ me.at = at /\ me.made = made
  BY DEF Moves
<1>2. /\ c \in Frames /\ c.fn = fn /\ c.at = "enter" /\ c.expr = expr /\ c.made = << >>
      /\ c.mark[2] = Len(nodes')
  BY DEF Begins
<1>3. InExpr(me) /\ InExpr(c)
  BY <1>1, <1>2 DEF InExpr
<1>4. OfTree(nodes, top) /\ top.mark[2] \in Nat /\ top.expr \in Nat /\ top.mark[2] <= Len(nodes)
  BY TopTree
<1>5. Len(nodes) \in Nat /\ Len(nodes') \in Nat /\ Len(nodes) <= Len(nodes') /\ Len(nodes) >= 2
  BY GrowsArena DEF Grows, ArenaOK
<1>6. \A e \in Nat : top.expr <= e => NoVarFrom(nodes', e)
  <2>1. NoVarFrom(nodes, top.expr)
    BY <1>4 DEF OfTree, OfExpr
  <2>2. QED
    BY <1>4, <2>1, NoVarGrows
<1>7. me.fn \notin DeclFns \cup StmtFns \cup {"external"} /\ c.fn \notin DeclFns \cup StmtFns \cup {"external"}
  BY <1>3 DEF InExpr, ExprFns, DeclFns, StmtFns
<1>8. OfTree(nodes', me)
  <2>1. OfAll(nodes', me)
    BY <1>1, <1>4, <1>5 DEF OfTree, OfAll
  <2>2. OfExpr(nodes', me)
    BY <1>1, <1>4, <1>6 DEF OfTree, OfExpr
  <2>3. OfStmt(nodes', me) /\ OfDecl(nodes', me)
    BY <1>7 DEF OfStmt, OfDecl, StmtFns, DeclFns
  <2>4. QED
    BY <2>1, <2>2, <2>3 DEF OfTree
<1>9. OfTree(nodes', c)
  <2>1. DOMAIN c.made = {}
    <3>1. DOMAIN c.made = 1 .. Len(c.made)
      BY <1>2, FrameFields
    <3>2. Len(c.made) = 0
      BY <1>2, EmptySeq
    <3>3. QED
      BY <3>1, <3>2
  <2>2. OfAll(nodes', c)
    BY <1>2, <1>5, <1>7, <2>1 DEF OfAll, Removable, Failing, Passing
  <2>3. OfExpr(nodes', c)
    BY <1>2, <1>6 DEF OfExpr, Parts
  <2>4. OfStmt(nodes', c) /\ OfDecl(nodes', c)
    BY <1>7 DEF OfStmt, OfDecl, StmtFns, DeclFns
  <2>5. QED
    BY <2>2, <2>3, <2>4 DEF OfTree
<1>10. Goes(me, c)
  BY <1>1, <1>3, <1>7 DEF Goes, StmtFns
<1>11. QED
  BY <1>1, <1>2, <1>8, <1>9, <1>10, TreeCalled DEF HandsOn

(* The activation of a rule of operators knows its level.                  *)
LEMMA RuleOperates ==
  ASSUME NEW level \in 0 .. Len(Ops), NEW expr \in Nat, NEW lock \in BOOLEAN, NEW a \in Nat, NEW b \in Nat,
         NEW c, c = [Rule(level, expr, lock) EXCEPT !.mark = <<a, b>>]
  PROVE  /\ \E fn \in ExprFns : Begins(c, fn, expr, <<a, b>>)
         /\ Operates(c, level) /\ (c.fn = "binop" => c.level \in 1 .. Len(Ops))
<1>1. \E fn \in ExprFns : Begins(c, fn, expr, <<a, b>>)
  <2>1. level \in Int
    OBVIOUS
  <2>2. QED
    BY <2>1, RuleCalled, Zenon
<1>2. PICK mark : mark = <<a, b>>
  OBVIOUS
<1>3. CASE level = 0
  <2>1. c = [Frame("unary", expr, FALSE, 0) EXCEPT !.mark = mark]
    BY <1>2, <1>3 DEF Rule, Unary
  <2>2. c.fn = "unary"
    BY <2>1 DEF Frame
  <2>3. QED
    BY <1>1, <1>3, <2>2 DEF Operates
<1>4. CASE level # 0
  <2>1. c = [Frame("binop", expr, lock, level) EXCEPT !.mark = mark]
    BY <1>2, <1>4 DEF Rule
  <2>2. c.fn = "binop" /\ c.level = level
    BY <2>1 DEF Frame
  <2>3. level \in 1 .. Len(Ops)
    BY <1>4, Kinds
  <2>4. QED
    BY <1>1, <1>4, <2>2, <2>3 DEF Operates
<1>5. QED
  BY <1>3, <1>4

(* An empty block is pushed.                                               *)
LEMMA BlockPushed ==
  ASSUME ArenaOK(nodes), NEW top, NEW ms, Extends(ms, nodes, <<Block>>)
  PROVE  /\ Len(nodes) \in Nat /\ Len(ms) = Len(nodes) + 1 /\ ms[Len(nodes) + 1] = Block
         /\ Grows(top, nodes, ms) /\ ArenaOK(ms) /\ Kids(ms, Len(nodes) + 1) = {}
         /\ Private(ms, {Len(nodes) + 1})
<1>1. PICK new : new = <<Block>>
  OBVIOUS
<1>2. Len(new) = 1 /\ new[1] = Block
  BY <1>1, SeqOne
<1>3. /\ IsSeq(ms) /\ Len(ms) = Len(nodes) + 1 /\ Len(nodes) \in Nat /\ ms[Len(nodes) + 1] = Block
  BY <1>1, <1>2 DEF Extends
<1>4. NodeOK(ms, Len(nodes) + 1) /\ Kids(ms, Len(nodes) + 1) = {}
  <2>1. /\ ms[Len(nodes) + 1].kids = << >> /\ ms[Len(nodes) + 1].type = "BLOCK"
        /\ IsNode(ms[Len(nodes) + 1])
    BY <1>3, NodesMade DEF Block, Node
  <2>2. QED
    BY <2>1, NewNode
<1>5. Grows(top, nodes, ms)
  <2>1. ms[Len(nodes) + 1].type # "NEW_VAR"
    BY <1>3 DEF Block, Node
  <2>2. \A i \in 1 .. Len(new) : i = 1
    BY <1>2
  <2>3. Extends(ms, nodes, new)
    BY <1>1
  <2>4. QED
    BY <1>4, <2>1, <2>2, <2>3, PushGrows
<1>6. Private(ms, {Len(nodes) + 1})
  <2>1. \A n \in Len(nodes) + 1 .. Len(ms) : n = Len(nodes) + 1
    BY <1>3
  <2>2. Len(nodes) + 1 > Len(nodes) /\ Len(nodes) + 1 \in Nat
    BY <1>3
  <2>3. QED
    BY <1>5, <2>1, <2>2, NewPrivate
<1>7. QED
  BY <1>3, <1>4, <1>5, <1>6, GrowsArena

(* A rule begins with an operand, in a block of its own.                   *)
LEMMA OperandAsked ==
  ASSUME Parse, Tree, ArenaOK(nodes), stack # << >>, NEW top, top = Top, InExpr(top),
         NEW at, (top.fn = "binop" /\ at = "lhs") \/ (top.fn = "conditional" /\ at = "cond"),
         NEW level \in 0 .. Len(Ops), top.fn = "binop" => level = top.level - 1,
         top.fn = "conditional" => level = Len(Ops),
         Extends(nodes', nodes, <<Block>>), NEW new, new = Len(nodes) + 1, NEW me, Moves(me, top, at, <<new>>),
         NEW a, NEW c, \E fn \in ExprFns : Begins(c, fn, new, <<a, Len(nodes')>>),
         Operates(c, level), c.fn = "binop" => c.level \in 1 .. Len(Ops),
         stack' = Front(stack) \o <<me, c>>, ret' = NoRet
  PROVE  Tree' /\ ArenaOK(nodes')
<1>1. /\ Len(nodes) \in Nat /\ Len(nodes') = new /\ Grows(top, nodes, nodes') /\ Private(nodes', {new})
  BY BlockPushed
<1>2. PICK made : made = <<new>>
  OBVIOUS
<1>3. Len(made) = 1 /\ made[1] = new /\ DOMAIN made = {1}
  BY <1>2
<1>4. PICK fn \in ExprFns : Begins(c, fn, new, <<a, Len(nodes')>>)
  OBVIOUS
<1>5. me.fn = top.fn /\ me.at = at /\ me.made = made /\ me.level = top.level /\ c.expr = new
  BY <1>2, <1>4 DEF Moves, Begins
<1>6. Asks(me, c)
  BY <1>3, <1>5 DEF Asks
<1>7. MadeBy(me) = {new}
  BY <1>3, <1>5 DEF MadeBy
<1>8. Parts(nodes', me)
  BY <1>5 DEF Parts
<1>9. top.expr <= new /\ new \in Nat /\ new <= Len(nodes') /\ new \in 1 .. Len(nodes')
  <2>1. top.expr \in Nat /\ top.mark[2] \in Nat /\ top.mark[2] <= Len(nodes) /\ top.expr <= top.mark[2]
    BY TopTree DEF OfTree, OfAll
  <2>2. QED
    BY <1>1, <2>1
<1>10. Moves(me, top, at, made) /\ at # "specs" /\ \A d \in DOMAIN made : made[d] \in 1 .. Len(nodes')
  BY <1>2, <1>3, <1>9
<1>11. QED
  BY <1>1, <1>4, <1>6, <1>7, <1>8, <1>9, <1>10, ExprTree

(* An activation of an expression: what it made is its own.                *)
LEMMA ExprMade ==
  ASSUME Parse, Tree, stack # << >>, NEW top, top = Top, InExpr(top)
  PROVE  /\ top \in Frames /\ top.mark[2] \in Nat /\ top.mark[2] >= 2 /\ top.mark[2] <= Len(nodes)
         /\ Len(nodes) \in Nat /\ top.expr \in Nat /\ top.expr <= top.mark[2]
         /\ Len(top.made) \in Nat /\ DOMAIN top.made = 1 .. Len(top.made)
         /\ \A d \in 1 .. Len(top.made) : top.made[d] \in top.mark[2] + 1 .. Len(nodes)
         /\ top.fn = "binop" => top.level \in 1 .. Len(Ops)
         /\ top.fn # "external" /\ OfTree(nodes, top) /\ (ret = "true" => Filled(nodes, top))
<1>1. top \in Frames /\ FrameOK(top)
  BY OfTop
<1>2. /\ OfTree(nodes, top) /\ top.mark[2] \in Nat /\ top.expr \in Nat /\ top.mark[2] <= Len(nodes)
      /\ Len(nodes) \in Nat /\ DOMAIN top.made = 1 .. Len(top.made) /\ Len(top.made) \in Nat
      /\ ret = "true" => Filled(nodes, top)
  BY TopTree
<1>3. top.fn # "external"
  BY DEF InExpr, ExprFns
<1>4. top.expr <= top.mark[2] /\ top.mark[2] >= 2
  BY <1>2, <1>3 DEF OfTree, OfAll
<1>5. \A d \in 1 .. Len(top.made) : top.made[d] \in top.mark[2] + 1 .. Len(nodes)
  BY <1>1, <1>2 DEF FrameOK, Spanned
<1>6. top.fn = "binop" => top.level \in 1 .. Len(Ops)
  BY <1>2 DEF OfTree, OfExpr
<1>7. QED
  BY <1>1, <1>2, <1>3, <1>4, <1>5, <1>6

(* A rule of operators begins with its left operand.                       *)
LEMMA BinopEnterTree ==
  ASSUME Parse, Tree, ArenaOK(nodes), BinopEnter
  PROVE  Tree' /\ ArenaOK(nodes')
<1>1. PICK top : top = Top
  OBVIOUS
<1>2. At("binop", "enter") /\ Push(<<Block>>) /\ cur' = cur
  BY DEF BinopEnter, Stay
<1>3. /\ stack # << >> /\ top.fn = "binop" /\ IsSeq(nodes) /\ top \in Frames
      /\ Len(nodes) \in Nat /\ cur \in Nat
  BY <1>1, <1>2, AtPlace
<1>4. InExpr(top)
  BY <1>3 DEF InExpr, ExprFns
<1>5. top.level \in 1 .. Len(Ops)
  BY <1>1, <1>3, <1>4, ExprMade
<1>6. PICK new : new = Len(nodes) + 1
  OBVIOUS
<1>7. new \in Nat /\ new = Fresh
  BY <1>3, <1>6 DEF Fresh
<1>8. Extends(nodes', nodes, <<Block>>)
  BY <1>2, <1>3, SeqOne, Pushed
<1>9. Len(nodes') = new
  BY <1>6, <1>8, BlockPushed
<1>10. PICK made : made = <<new>>
  OBVIOUS
<1>11. PICK me : me = [top EXCEPT !.at = "lhs", !.made = made]
  OBVIOUS
<1>12. Moves(me, top, "lhs", made)
  <2>1. "lhs" \in Places
    BY DEF Places
  <2>2. made \in Seq(Nat)
    BY <1>7, <1>10, SeqOne
  <2>3. QED
    BY <1>3, <1>11, <2>1, <2>2, FrameMoved, Zenon
<1>13. PICK level : level = top.level - 1
  OBVIOUS
<1>14. level \in 0 .. Len(Ops) /\ FALSE \in BOOLEAN /\ cur' \in Nat /\ Len(nodes') \in Nat
  BY <1>2, <1>3, <1>5, <1>7, <1>9, <1>13, Kinds
<1>15. PICK c : c = [Rule(level, new, FALSE) EXCEPT !.mark = <<cur', Len(nodes')>>]
  OBVIOUS
<1>16. /\ \E fn \in ExprFns : Begins(c, fn, new, <<cur', Len(nodes')>>)
       /\ Operates(c, level) /\ (c.fn = "binop" => c.level \in 1 .. Len(Ops))
  BY <1>7, <1>14, <1>15, RuleOperates, Zenon
<1>17. stack' = Front(stack) \o <<me, c>> /\ ret' = NoRet
  BY <1>1, <1>7, <1>10, <1>11, <1>13, <1>15 DEF BinopEnter, Call
<1>18. Moves(me, top, "lhs", <<new>>)
  BY <1>10, <1>12
<1>19. QED
  BY <1>1, <1>3, <1>4, <1>6, <1>8, <1>13, <1>14, <1>16, <1>17, <1>18, OperandAsked

(* A conditional begins with its condition.                                *)
LEMMA CondEnterTree ==
  ASSUME Parse, Tree, ArenaOK(nodes), CondEnter
  PROVE  Tree' /\ ArenaOK(nodes')
<1>1. PICK top : top = Top
  OBVIOUS
<1>2. At("conditional", "enter") /\ Push(<<Block>>) /\ cur' = cur
  BY DEF CondEnter, Stay
<1>3. /\ stack # << >> /\ top.fn = "conditional" /\ IsSeq(nodes) /\ top \in Frames
      /\ Len(nodes) \in Nat /\ cur \in Nat
  BY <1>1, <1>2, AtPlace
<1>4. InExpr(top)
  BY <1>3 DEF InExpr, ExprFns
<1>5. PICK new : new = Len(nodes) + 1
  OBVIOUS
<1>6. new \in Nat /\ new = Fresh
  BY <1>3, <1>5 DEF Fresh
<1>7. Extends(nodes', nodes, <<Block>>)
  BY <1>2, <1>3, SeqOne, Pushed
<1>8. Len(nodes') = new
  BY <1>5, <1>7, BlockPushed
<1>9. PICK made : made = <<new>>
  OBVIOUS
<1>10. PICK me : me = [top EXCEPT !.at = "cond", !.made = made]
  OBVIOUS
<1>11. Moves(me, top, "cond", made)
  <2>1. "cond" \in Places
    BY DEF Places
  <2>2. made \in Seq(Nat)
    BY <1>6, <1>9, SeqOne
  <2>3. QED
    BY <1>3, <1>10, <2>1, <2>2, FrameMoved, Zenon
<1>12. PICK level : level = Len(Ops)
  OBVIOUS
<1>13. level \in 0 .. Len(Ops) /\ FALSE \in BOOLEAN /\ cur' \in Nat /\ Len(nodes') \in Nat
  BY <1>2, <1>3, <1>6, <1>8, <1>12, Kinds
<1>14. PICK c : c = [Rule(level, new, FALSE) EXCEPT !.mark = <<cur', Len(nodes')>>]
  OBVIOUS
<1>15. /\ \E fn \in ExprFns : Begins(c, fn, new, <<cur', Len(nodes')>>)
       /\ Operates(c, level) /\ (c.fn = "binop" => c.level \in 1 .. Len(Ops))
  BY <1>6, <1>13, <1>14, RuleOperates, Zenon
<1>16. stack' = Front(stack) \o <<me, c>> /\ ret' = NoRet
  BY <1>1, <1>6, <1>9, <1>10, <1>12, <1>14 DEF CondEnter, Call
<1>17. Moves(me, top, "cond", <<new>>)
  BY <1>9, <1>11
<1>18. QED
  BY <1>1, <1>3, <1>4, <1>5, <1>7, <1>12, <1>13, <1>15, <1>16, <1>17, OperandAsked

(* The n-th node is an operator or a statement, with blocks for children.  *)
Elements(kids) == {kids[k] : k \in 1 .. Len(kids)}
Branching(ns, n, kids) ==
  /\ n \in 1 .. Len(ns) /\ IsNode(ns[n]) /\ ns[n].type \in Branches \ {"NEW_VAR"}
  /\ IsSeq(kids) /\ Len(kids) >= 1 /\ ns[n].kids = kids /\ kids[1] < n
  /\ \A k \in 1 .. Len(kids) :
       kids[k] \in (1 .. Len(ns)) \ {UnitBlock} /\ ns[kids[k]].type = "BLOCK" /\ kids[1] <= kids[k]

(* Such a node is formed as it should be.                                  *)
LEMMA NewBranch ==
  ASSUME NEW ns, NEW n, NEW kids, Branching(ns, n, kids)
  PROVE  NodeOK(ns, n) /\ Kids(ns, n) = Elements(kids)
<1> USE DEF Branching, Elements
<1>1. DOMAIN kids = 1 .. Len(kids) /\ Len(kids) \in Nat
  BY SeqDomain
<1>2. Kids(ns, n) = {kids[k] : k \in 1 .. Len(kids)}
  BY <1>1 DEF Kids
<1>3. Formed(ns, n)
  BY <1>2 DEF Formed
<1>4. BranchOK(ns, n)
  BY <1>2 DEF BranchOK
<1>5. ns[n].type \notin LeafTypes \cup {"INVALID", "BLOCK", "NEW_TYPE"}
  BY NoBranches DEF LeafTypes
<1>6. ListOK(ns, n)
  BY <1>5 DEF ListOK
<1>7. QED
  BY <1>2, <1>3, <1>4, <1>6 DEF NodeOK

(* The operator is there: the right operand is next.                       *)
LEMMA BinopOperatorTree ==
  ASSUME Parse, Tree, ArenaOK(nodes), BinopOperator
  PROVE  Tree' /\ ArenaOK(nodes')
<1>1. PICK top : top = Top
  OBVIOUS
<1>2. PICK place \in {"lhs", "retry"} : At("binop", place)
  BY DEF BinopOperator
<1>3. ret = "true"
  BY DEF BinopOperator, HasLhs
<1>4. /\ stack # << >> /\ top.fn = "binop" /\ top.at = place /\ top \in Frames /\ FrameOK(top)
      /\ Len(nodes) \in Nat /\ IsSeq(nodes) /\ cur \in Nat
  BY <1>1, <1>2, AtPlace
<1>5. InExpr(top) /\ Failing(top) /\ (place = "retry" => Tried(top))
  BY <1>4 DEF InExpr, ExprFns, Failing, Tried
<1>6. place = "lhs"
  BY <1>1, <1>3, <1>4, <1>5, TopTold
<1>7. /\ top.mark[2] \in Nat /\ top.mark[2] >= 2 /\ top.mark[2] <= Len(nodes) /\ top.level \in 1 .. Len(Ops)
      /\ top.expr \in Nat /\ top.expr <= top.mark[2]
      /\ top.made[1] \in top.mark[2] + 1 .. Len(nodes) /\ Filled(nodes, top)
  <2>1. Len(top.made) = 1
    BY <1>4 DEF FrameOK, Sized
  <2>2. QED
    BY <1>1, <1>3, <1>4, <1>5, <2>1, ExprMade
<1>8. PICK lhs : lhs = top.made[1]
  OBVIOUS
<1>9. PICK rhs : rhs = Len(nodes) + 1
  OBVIOUS
<1>10. PICK op : op = Len(nodes) + 2
  OBVIOUS
<1>11. rhs \in Nat /\ op \in Nat /\ lhs \in Nat /\ Fresh = rhs /\ Fresh + 1 = op
  BY <1>4, <1>7, <1>8, <1>9, <1>10 DEF Fresh
<1>12. PICK kids : kids = <<lhs, rhs>>
  OBVIOUS
<1>13. IsSeq(kids) /\ Len(kids) = 2 /\ kids[1] = lhs /\ kids[2] = rhs
  BY <1>12, SeqTwo
<1>14. PICK node : node = Node(Operator, kids)
  OBVIOUS
<1>15. Push(<<Block, node>>) /\ cur' = cur + 1
  BY <1>1, <1>8, <1>11, <1>12, <1>14 DEF BinopOperator, Consume
<1>16. PICK new : new = <<Block, node>>
  OBVIOUS
<1>17. IsSeq(new) /\ Len(new) = 2 /\ new[1] = Block /\ new[2] = node
  BY <1>16, SeqTwo
<1>18. Extends(nodes', nodes, new)
  BY <1>4, <1>15, <1>16, <1>17, Pushed
<1>19. /\ Len(nodes') = op /\ (\A n \in 1 .. Len(nodes) : nodes'[n] = nodes[n])
       /\ nodes'[rhs] = Block /\ nodes'[op] = node
  BY <1>4, <1>9, <1>10, <1>17, <1>18 DEF Extends
<1>20. /\ nodes'[op].type = Ops[top.level] /\ nodes'[op].kids = kids
       /\ nodes'[op].type \in Branches \ {"NEW_VAR"}
       /\ IsNode(nodes'[op])
  <2>1. nodes'[op].type = Ops[top.level] /\ nodes'[op].kids = kids /\ IsNode(nodes'[op])
    BY <1>1, <1>14, <1>19, NodesMade DEF Node, Operator
  <2>2. Ops[top.level] \in OpsTo(Len(Ops)) /\ "NEW_VAR" \notin OpsTo(Len(Ops))
    BY <1>7, Kinds
  <2>3. QED
    BY <2>1, <2>2 DEF Branches
<1>21. ValueIn(nodes, lhs, top.level - 1)
  BY <1>4, <1>6, <1>7, <1>8 DEF Filled
<1>22. nodes'[lhs].type = "BLOCK" /\ nodes'[rhs].type = "BLOCK"
  <2>1. lhs \in 1 .. Len(nodes)
    BY <1>4, <1>7, <1>8
  <2>2. QED
    BY <1>19, <1>21, <2>1 DEF ValueIn, Single, Block, Node
<1>23. /\ lhs \in (1 .. Len(nodes')) \ {UnitBlock} /\ rhs \in (1 .. Len(nodes')) \ {UnitBlock}
       /\ lhs <= rhs /\ lhs < op /\ lhs > top.mark[2] /\ rhs > top.mark[2] /\ op \in 1 .. Len(nodes')
  BY <1>4, <1>7, <1>8, <1>9, <1>10, <1>19, SMTT(30) DEF UnitBlock
<1>24. NodeOK(nodes', op) /\ Kids(nodes', op) = {lhs, rhs}
  <2>1. \A k \in 1 .. Len(kids) : k = 1 \/ k = 2
    BY <1>13
  <2>2. NodeOK(nodes', op) /\ Kids(nodes', op) = {kids[k] : k \in 1 .. Len(kids)}
    <3>1. \A k \in 1 .. Len(kids) :
            kids[k] \in (1 .. Len(nodes')) \ {UnitBlock} /\ nodes'[kids[k]].type = "BLOCK" /\ kids[1] <= kids[k]
      BY <1>13, <1>22, <1>23, <2>1
    <3>2. QED
      <4>1. Len(kids) >= 1 /\ kids[1] < op /\ IsSeq(kids)
        BY <1>13, <1>23
      <4>2. QED
        <5>1. Branching(nodes', op, kids)
          BY <1>20, <1>23, <3>1, <4>1 DEF Branching
        <5>2. NodeOK(nodes', op) /\ Kids(nodes', op) = Elements(kids)
          BY <5>1, NewBranch, Zenon
        <5>3. QED
          BY <5>2 DEF Elements
  <2>3. QED
    BY <1>13, <2>1, <2>2
<1>25. NodeOK(nodes', rhs) /\ Kids(nodes', rhs) = {}
  <2>1. IsNode(nodes'[rhs])
    BY <1>19, NodesMade
  <2>2. QED
    BY <1>19, <2>1, NewNode DEF Block, Node
<1>26. Grows(top, nodes, nodes')
  <2>1. nodes'[op].type # "NEW_VAR" /\ nodes'[rhs].type # "NEW_VAR"
    BY <1>20, <1>22
  <2>2. \A i \in 1 .. Len(new) : Len(nodes) + i = rhs \/ Len(nodes) + i = op
    BY <1>4, <1>9, <1>10, <1>17
  <2>3. QED
    <3>1. \A i \in 1 .. Len(new) :
            /\ NodeOK(nodes', Len(nodes) + i)
            /\ nodes'[Len(nodes) + i].type = "NEW_VAR" => top.fn \in DeclFns \cup {"external"}
            /\ \A m \in Kids(nodes', Len(nodes) + i) : m = NIL \/ m > top.mark[2]
      BY <1>23, <1>24, <1>25, <2>1, <2>2
    <3>2. QED
      BY <1>18, <3>1, PushGrows, Zenon
<1>27. PICK made : made = <<op, rhs, lhs>>
  OBVIOUS
<1>28. made \in Seq(Nat) /\ Len(made) = 3 /\ made[1] = op /\ made[2] = rhs /\ made[3] = lhs /\ DOMAIN made = 1 .. 3
  BY <1>11, <1>27, SeqThree
<1>29. PICK me : me = [top EXCEPT !.at = "rhs", !.made = made]
  OBVIOUS
<1>30. Moves(me, top, "rhs", made)
  <2>1. "rhs" \in Places
    BY DEF Places
  <2>2. QED
    BY <1>4, <1>28, <1>29, <2>1, FrameMoved, Zenon
<1>31. PICK level : level = top.level - 1
  OBVIOUS
<1>32. level \in 0 .. Len(Ops) /\ FALSE \in BOOLEAN /\ cur' \in Nat /\ Len(nodes') \in Nat
  BY <1>4, <1>7, <1>11, <1>15, <1>19, <1>31, Kinds
<1>33. PICK c : c = [Rule(level, rhs, FALSE) EXCEPT !.mark = <<cur', Len(nodes')>>]
  OBVIOUS
<1>34. /\ \E fn \in ExprFns : Begins(c, fn, rhs, <<cur', Len(nodes')>>)
       /\ Operates(c, level) /\ (c.fn = "binop" => c.level \in 1 .. Len(Ops))
  BY <1>11, <1>32, <1>33, RuleOperates, Zenon
<1>35. stack' = Front(stack) \o <<me, c>> /\ ret' = NoRet
  BY <1>1, <1>8, <1>11, <1>27, <1>29, <1>31, <1>33 DEF BinopOperator, Call
<1>36. PICK fn \in ExprFns : Begins(c, fn, rhs, <<cur', Len(nodes')>>)
  BY <1>34
<1>37. me.fn = "binop" /\ me.at = "rhs" /\ me.made = made /\ me.level = top.level /\ c.expr = rhs
  BY <1>4, <1>30, <1>36 DEF Moves, Begins
<1>38. Asks(me, c)
  BY <1>28, <1>31, <1>34, <1>37 DEF Asks
<1>39. Parts(nodes', me)
  <2>1. ValueIn(nodes', lhs, top.level - 1)
    <3>1. lhs \in 1 .. Len(nodes)
      BY <1>4, <1>7, <1>8
    <3>2. Agrees(nodes, nodes', 1 .. Len(nodes))
      BY <1>26, GrowsArena
    <3>3. QED
      BY <1>21, <3>1, <3>2, AgreeSays
  <2>2. QED
    BY <1>13, <1>20, <1>28, <1>37, <2>1 DEF Parts
<1>40. ~Removable(me)
  BY <1>37 DEF Removable, Failing, Passing
<1>41. \A d \in DOMAIN made : made[d] \in 1 .. Len(nodes')
  <2>1. \A d \in 1 .. 3 : d = 1 \/ d = 2 \/ d = 3
    OBVIOUS
  <2>2. QED
    BY <1>23, <1>28, <2>1
<1>42. top.expr <= rhs /\ rhs <= Len(nodes')
  BY <1>4, <1>7, <1>9, <1>10, <1>19
<1>43. QED
  BY <1>1, <1>4, <1>5, <1>11, <1>26, <1>30, <1>34, <1>35, <1>36, <1>38, <1>39, <1>40, <1>41, <1>42, ExprTree

(* No left operand: the rule tries itself in its place.                    *)
LEMMA BinopRetryTree ==
  ASSUME Parse, Tree, ArenaOK(nodes), BinopRetry
  PROVE  Tree' /\ ArenaOK(nodes')
<1>1. PICK top : top = Top
  OBVIOUS
<1>2. At("binop", "lhs") /\ nodes' = nodes /\ cur' = cur
  BY DEF BinopRetry, Stay
<1>3. /\ stack # << >> /\ top.fn = "binop" /\ top.at = "lhs" /\ top \in Frames /\ FrameOK(top)
      /\ Len(nodes) \in Nat /\ IsSeq(nodes) /\ cur \in Nat
  BY <1>1, <1>2, AtPlace
<1>4. InExpr(top) /\ Failing(top)
  BY <1>3 DEF InExpr, ExprFns, Failing
<1>5. /\ top.mark[2] \in Nat /\ top.level \in 1 .. Len(Ops) /\ top.expr \in Nat /\ top.expr <= top.mark[2]
      /\ DOMAIN top.made = 1 .. 1 /\ top.made \in Seq(Nat)
      /\ top.made[1] \in top.mark[2] + 1 .. Len(nodes) /\ OfTree(nodes, top)
  <2>1. Len(top.made) = 1 /\ top.made \in Seq(Nat)
    BY <1>3, FrameFields DEF FrameOK, Sized
  <2>2. QED
    BY <1>1, <1>3, <1>4, <2>1, ExprMade
<1>6. PICK lhs \in Nat : lhs = top.made[1]
  BY <1>5
<1>7. PICK me : me = [top EXCEPT !.at = "retry"]
  OBVIOUS
<1>8. Moves(me, top, "retry", top.made)
  <2>1. "retry" \in Places
    BY DEF Places
  <2>2. QED
    BY <1>3, <1>7, <2>1, FrameMoved, Zenon
<1>9. PICK level : level = top.level
  OBVIOUS
<1>10. level \in 0 .. Len(Ops) /\ TRUE \in BOOLEAN /\ cur' \in Nat /\ Len(nodes') \in Nat
  BY <1>2, <1>3, <1>5, <1>9, Kinds
<1>11. PICK c : c = [Rule(level, lhs, TRUE) EXCEPT !.mark = <<cur', Len(nodes')>>]
  OBVIOUS
<1>12. /\ \E fn \in ExprFns : Begins(c, fn, lhs, <<cur', Len(nodes')>>)
       /\ Operates(c, level) /\ (c.fn = "binop" => c.level \in 1 .. Len(Ops))
  BY <1>6, <1>10, <1>11, RuleOperates, Zenon
<1>13. stack' = Front(stack) \o <<me, c>> /\ ret' = NoRet
  BY <1>1, <1>6, <1>7, <1>9, <1>11 DEF BinopRetry, Call
<1>14. me.fn = "binop" /\ me.at = "retry" /\ me.made = top.made
  BY <1>3, <1>8 DEF Moves
<1>15. Grows(top, nodes, nodes')
  BY <1>2, GrowsSame
<1>16. Asks(me, c) /\ Parts(nodes', me)
  BY <1>14 DEF Asks, Parts
<1>17. Private(nodes', MadeBy(me))
  BY <1>2, <1>4, <1>5, <1>14 DEF OfTree, OfAll, Removable, MadeBy
<1>18. top.expr <= lhs /\ lhs <= Len(nodes') /\ \A d \in DOMAIN top.made : top.made[d] \in 1 .. Len(nodes')
  BY <1>2, <1>3, <1>5, <1>6
<1>19. QED
  BY <1>1, <1>3, <1>4, <1>6, <1>8, <1>12, <1>13, <1>15, <1>16, <1>17, <1>18, ExprTree

(* What is in the arena, or one of two that are pushed.                    *)
LEMMA Younger ==
  ASSUME NEW a, NEW b \in Nat, NEW x \in a + 1 .. b + 2, a \in Nat
  PROVE  x \in 1 .. b \/ x = b + 1 \/ x = b + 2
  OBVIOUS

(* What is pushed with the last node, which refers to the others.          *)
Branched(top, new, type, kids, ms) ==
  /\ top.mark[2] \in Nat /\ top.mark[2] >= 2 /\ top.mark[2] <= Len(nodes)
  /\ IsSeq(new) /\ Len(new) = 3 /\ new[1] = Block /\ new[2] = Block
  /\ IsSeq(kids) /\ Len(kids) >= 1 /\ type \in {"IF", "ASSIGN"} /\ new[3] = Node(type, kids)
  /\ Extends(ms, nodes, new) /\ kids[1] <= Len(nodes) + 1
  /\ \A k \in 1 .. Len(kids) :
       /\ kids[k] \in top.mark[2] + 1 .. Len(nodes) + 2 /\ kids[1] <= kids[k]
       /\ kids[k] <= Len(nodes) => nodes[kids[k]].type = "BLOCK"

(* The nodes before stay, the new ones are formed as they should be.       *)
LEMMA BranchPushed ==
  ASSUME ArenaOK(nodes), NEW top, NEW new, NEW type, NEW kids, NEW ms, Branched(top, new, type, kids, ms)
  PROVE  /\ Grows(top, nodes, ms) /\ Len(nodes) \in Nat /\ Len(ms) = Len(nodes) + 3
         /\ \A n \in 1 .. Len(nodes) : ms[n] = nodes[n]
         /\ ms[Len(nodes) + 1] = Block /\ ms[Len(nodes) + 2] = Block
         /\ ms[Len(nodes) + 3].type = type /\ ms[Len(nodes) + 3].kids = kids
<1> USE DEF Branched
<1>1. /\ Len(ms) = Len(nodes) + 3 /\ (\A n \in 1 .. Len(nodes) : ms[n] = nodes[n]) /\ Len(nodes) \in Nat
      /\ ms[Len(nodes) + 1] = Block /\ ms[Len(nodes) + 2] = Block /\ ms[Len(nodes) + 3] = Node(type, kids)
  BY DEF Extends
<1>2. ms[Len(nodes) + 3].type = type /\ ms[Len(nodes) + 3].kids = kids /\ IsNode(ms[Len(nodes) + 3])
  BY <1>1, NodesMade DEF Node
<1>3. ms[Len(nodes) + 1].type = "BLOCK" /\ ms[Len(nodes) + 2].type = "BLOCK"
  BY <1>1 DEF Block, Node
<1>4. ASSUME NEW k \in 1 .. Len(kids)
      PROVE  /\ kids[k] \in (1 .. Len(ms)) \ {UnitBlock} /\ ms[kids[k]].type = "BLOCK"
             /\ kids[1] <= kids[k] /\ kids[k] > top.mark[2]
  <2>0. kids[k] \in top.mark[2] + 1 .. Len(nodes) + 2
    OBVIOUS
  <2>1. kids[k] \in 1 .. Len(nodes) \/ kids[k] = Len(nodes) + 1 \/ kids[k] = Len(nodes) + 2
    <3>1. Len(nodes) \in Nat
      BY <1>1
    <3>2. QED
      BY <2>0, <3>1, Younger, Zenon
  <2>2. ms[kids[k]].type = "BLOCK"
    BY <1>1, <1>3, <2>1
  <2>3. QED
    BY <1>1, <2>0, <2>2, SMTT(30) DEF UnitBlock
<1>5. NodeOK(ms, Len(nodes) + 3) /\ Kids(ms, Len(nodes) + 3) = {kids[k] : k \in 1 .. Len(kids)}
  <2>1. Len(nodes) + 3 \in 1 .. Len(ms) /\ type \in Branches \ {"NEW_VAR"} /\ kids[1] < Len(nodes) + 3
    <3>1. 1 \in 1 .. Len(kids)
      BY SeqDomain
    <3>2. kids[1] \in Nat
      BY <1>1, <3>1
    <3>3. QED
      BY <1>1, <3>2 DEF Branches
  <2>2. QED
    <3>1. \A k \in 1 .. Len(kids) :
            kids[k] \in (1 .. Len(ms)) \ {UnitBlock} /\ ms[kids[k]].type = "BLOCK" /\ kids[1] <= kids[k]
      BY <1>4, Zenon
    <3>2. ms[Len(nodes) + 3].type \in Branches \ {"NEW_VAR"} /\ ms[Len(nodes) + 3].kids = kids
      BY <1>2, <2>1
    <3>3. QED
      <4>1. IsNode(ms[Len(nodes) + 3])
        BY <1>2
      <4>2. Branching(ms, Len(nodes) + 3, kids)
        BY <2>1, <3>1, <3>2, <4>1 DEF Branching
      <4>3. NodeOK(ms, Len(nodes) + 3) /\ Kids(ms, Len(nodes) + 3) = Elements(kids)
        BY <4>2, NewBranch, Zenon
      <4>4. QED
        BY <4>3 DEF Elements
<1>6. /\ NodeOK(ms, Len(nodes) + 1) /\ Kids(ms, Len(nodes) + 1) = {}
      /\ NodeOK(ms, Len(nodes) + 2) /\ Kids(ms, Len(nodes) + 2) = {}
  <2>1. IsNode(ms[Len(nodes) + 1]) /\ IsNode(ms[Len(nodes) + 2])
    BY <1>1, NodesMade
  <2>2. QED
    <3>1. /\ ms[Len(nodes) + 1].kids = << >> /\ ms[Len(nodes) + 1].type \in LeafTypes \cup {"BLOCK", "NEW_TYPE"}
          /\ ms[Len(nodes) + 2].kids = << >> /\ ms[Len(nodes) + 2].type \in LeafTypes \cup {"BLOCK", "NEW_TYPE"}
      <4>1. Block.kids = << >> /\ Block.type = "BLOCK"
        BY DEF Block, Node
      <4>2. Block.type \in LeafTypes \cup {"BLOCK", "NEW_TYPE"}
        BY <4>1
      <4>3. QED
        BY <1>1, <4>1, <4>2, Zenon
    <3>2. QED
      BY <2>1, <3>1, NewNode, Zenon
<1>7. \A i \in 1 .. Len(new) : i = 1 \/ i = 2 \/ i = 3
  OBVIOUS
<1>8. \A i \in 1 .. Len(new) : NodeOK(ms, Len(nodes) + i) /\ ms[Len(nodes) + i].type # "NEW_VAR"
  BY <1>2, <1>3, <1>5, <1>6, <1>7
<1>9. \A i \in 1 .. Len(new) : \A m \in Kids(ms, Len(nodes) + i) : m > top.mark[2]
  BY <1>4, <1>5, <1>6, <1>7, SMTT(30)
<1>10. Grows(top, nodes, ms)
  BY <1>8, <1>9, PushGrows
<1>11. QED
  BY <1>1, <1>2, <1>10

(* A question mark: the first branch is an expression.                     *)
LEMMA CondThenTree ==
  ASSUME Parse, Tree, ArenaOK(nodes), CondThen
  PROVE  Tree' /\ ArenaOK(nodes')
<1>1. PICK top : top = Top
  OBVIOUS
<1>2. At("conditional", "cond") /\ ret = "true"
  BY DEF CondThen
<1>3. /\ stack # << >> /\ top.fn = "conditional" /\ top.at = "cond" /\ top \in Frames /\ FrameOK(top)
      /\ Len(nodes) \in Nat /\ IsSeq(nodes) /\ cur \in Nat
  BY <1>1, <1>2, AtPlace
<1>4. InExpr(top)
  BY <1>3 DEF InExpr, ExprFns
<1>5. /\ top.mark[2] \in Nat /\ top.mark[2] >= 2 /\ top.mark[2] <= Len(nodes)
      /\ top.expr \in Nat /\ top.expr <= top.mark[2]
      /\ top.made[1] \in top.mark[2] + 1 .. Len(nodes) /\ Filled(nodes, top)
  <2>1. Len(top.made) = 1
    BY <1>3 DEF FrameOK, Sized
  <2>2. QED
    BY <1>1, <1>2, <1>3, <1>4, <2>1, ExprMade
<1>6. PICK cond : cond = top.made[1]
  OBVIOUS
<1>7. PICK then : then = Len(nodes) + 1
  OBVIOUS
<1>8. PICK else : else = Len(nodes) + 2
  OBVIOUS
<1>9. PICK if : if = Len(nodes) + 3
  OBVIOUS
<1>10. /\ then \in Nat /\ else \in Nat /\ if \in Nat /\ cond \in Nat
       /\ Fresh = then /\ Fresh + 1 = else /\ Fresh + 2 = if
  BY <1>3, <1>5, <1>6, <1>7, <1>8, <1>9 DEF Fresh
<1>11. PICK kids : kids = <<cond, then, else>>
  OBVIOUS
<1>12. IsSeq(kids) /\ Len(kids) = 3 /\ kids[1] = cond /\ kids[2] = then /\ kids[3] = else
  BY <1>11, SeqThree
<1>13. PICK node : node = Node("IF", kids)
  OBVIOUS
<1>14. Push(<<Block, Block, node>>) /\ cur' = cur + 1
  BY <1>1, <1>6, <1>10, <1>11, <1>13 DEF CondThen, Consume
<1>15. PICK new : new = <<Block, Block, node>>
  OBVIOUS
<1>16. IsSeq(new) /\ Len(new) = 3 /\ new[1] = Block /\ new[2] = Block /\ new[3] = node
  BY <1>15, SeqThree
<1>17. Extends(nodes', nodes, new)
  BY <1>3, <1>14, <1>15, <1>16, Pushed
<1>18. ValueIn(nodes, cond, Len(Ops))
  BY <1>3, <1>5, <1>6 DEF Filled
<1>19. /\ Grows(top, nodes, nodes') /\ Len(nodes') = if
       /\ nodes'[if].type = "IF" /\ nodes'[if].kids = kids
  <2>1. \A k \in 1 .. Len(kids) : k = 1 \/ k = 2 \/ k = 3
    BY <1>12
  <2>2. \A k \in 1 .. Len(kids) :
           /\ kids[k] \in top.mark[2] + 1 .. Len(nodes) + 2 /\ kids[1] <= kids[k]
           /\ kids[k] <= Len(nodes) => nodes[kids[k]].type = "BLOCK"
    <3>1. nodes[cond].type = "BLOCK"
      BY <1>18 DEF ValueIn, Single
    <3>2. /\ cond \in top.mark[2] + 1 .. Len(nodes) + 2 /\ then \in top.mark[2] + 1 .. Len(nodes) + 2
          /\ else \in top.mark[2] + 1 .. Len(nodes) + 2 /\ cond <= cond /\ cond <= then /\ cond <= else
          /\ ~(then <= Len(nodes)) /\ ~(else <= Len(nodes))
      BY <1>3, <1>5, <1>6, <1>7, <1>8
    <3>3. QED
      BY <1>12, <2>1, <3>1, <3>2
  <2>3. kids[1] <= Len(nodes) + 1
    BY <1>3, <1>5, <1>6, <1>12
  <2>4. new[3] = Node("IF", kids)
    BY <1>13, <1>16
  <2>5. QED
    <3>1. Branched(top, new, "IF", kids, nodes')
      BY <1>5, <1>12, <1>16, <1>17, <2>2, <2>3, <2>4 DEF Branched
    <3>2. Grows(top, nodes, nodes') /\ Len(nodes') = Len(nodes) + 3
      BY <3>1, BranchPushed, Zenon
    <3>3. nodes'[if] = Node("IF", kids)
      BY <1>3, <1>9, <1>16, <1>17, <2>4 DEF Extends
    <3>4. nodes'[if].type = "IF" /\ nodes'[if].kids = kids
      BY <3>3 DEF Node
    <3>5. QED
      BY <1>9, <3>2, <3>4
<1>20. PICK made : made = <<if, else, then, cond>>
  OBVIOUS
<1>21. /\ made \in Seq(Nat) /\ Len(made) = 4 /\ DOMAIN made = 1 .. 4
       /\ made[1] = if /\ made[2] = else /\ made[3] = then /\ made[4] = cond
  BY <1>10, <1>20, SeqFour
<1>22. PICK me : me = [top EXCEPT !.at = "then", !.made = made]
  OBVIOUS
<1>23. Moves(me, top, "then", made)
  <2>1. "then" \in Places
    BY DEF Places
  <2>2. QED
    BY <1>3, <1>21, <1>22, <2>1, FrameMoved, Zenon
<1>24. PICK c : c = [Expression(then, FALSE) EXCEPT !.mark = <<cur', Len(nodes')>>]
  OBVIOUS
<1>25. "expression" \in ExprFns /\ Begins(c, "expression", then, <<cur', Len(nodes')>>)
  <2>1. cur' \in Nat /\ Len(nodes') \in Nat /\ FALSE \in BOOLEAN /\ "expression" \in Fns /\ 0 \in Int
    BY <1>3, <1>10, <1>14, <1>19 DEF Fns
  <2>2. c = [Frame("expression", then, FALSE, 0) EXCEPT !.mark = <<cur', Len(nodes')>>]
    BY <1>24 DEF Expression
  <2>3. Begins(c, "expression", then, <<cur', Len(nodes')>>)
    BY <1>10, <2>1, <2>2, FrameCalled, Zenon
  <2>4. QED
    BY <2>3 DEF ExprFns
<1>26. stack' = Front(stack) \o <<me, c>> /\ ret' = NoRet
  BY <1>1, <1>6, <1>10, <1>20, <1>22, <1>24 DEF CondThen, Call
<1>27. /\ me.fn = "conditional" /\ me.at = "then" /\ me.made = made /\ c.expr = then /\ c.fn = "expression"
  BY <1>3, <1>23, <1>25 DEF Moves, Begins
<1>28. Asks(me, c)
  BY <1>21, <1>27 DEF Asks
<1>29. Parts(nodes', me)
  <2>1. ValueIn(nodes', cond, Len(Ops))
    <3>1. cond \in 1 .. Len(nodes)
      BY <1>3, <1>5, <1>6
    <3>2. Agrees(nodes, nodes', 1 .. Len(nodes))
      BY <1>19, GrowsArena
    <3>3. QED
      BY <1>18, <3>1, <3>2, AgreeSays
  <2>2. QED
    BY <1>12, <1>19, <1>21, <1>27, <2>1 DEF Parts
<1>30. ~Removable(me)
  BY <1>27 DEF Removable, Failing, Passing
<1>31. \A d \in DOMAIN made : made[d] \in 1 .. Len(nodes')
  <2>1. \A d \in 1 .. 4 : d = 1 \/ d = 2 \/ d = 3 \/ d = 4
    OBVIOUS
  <2>2. if \in 1 .. if /\ else \in 1 .. if /\ then \in 1 .. if /\ cond \in 1 .. if
    BY <1>3, <1>5, <1>6, <1>7, <1>8, <1>9
  <2>3. QED
    BY <1>19, <1>21, <2>1, <2>2
<1>32. top.expr <= then /\ then <= Len(nodes')
  BY <1>3, <1>5, <1>7, <1>9, <1>19
<1>33. QED
  BY <1>1, <1>3, <1>4, <1>10, <1>19, <1>23, <1>25, <1>26, <1>27, <1>28, <1>29, <1>30, <1>31, <1>32, ExprTree

(* A rule hands on, and pushes nothing.                                    *)
LEMMA HandedTree ==
  ASSUME Parse, Tree, ArenaOK(nodes), stack # << >>, NEW top, top = Top, InExpr(top),
         nodes' = nodes, cur' \in Nat, NEW at, at # "specs", NEW me, Moves(me, top, at, top.made),
         NEW fn \in ExprFns, fn # "binop", NEW expr \in Nat, NEW lock \in BOOLEAN,
         NEW c, c = [Frame(fn, expr, lock, 0) EXCEPT !.mark = <<cur', Len(nodes')>>],
         stack' = Front(stack) \o <<me, c>>, ret' = NoRet,
         top.expr <= expr, expr <= Len(nodes),
         Begins(c, fn, expr, <<cur', Len(nodes')>>) => Asks(me, c),
         Removable(me) => DOMAIN top.made = {},
         Parts(nodes, me)
  PROVE  Tree' /\ ArenaOK(nodes')
<1>1. /\ Len(nodes) \in Nat /\ DOMAIN top.made = 1 .. Len(top.made)
      /\ \A d \in 1 .. Len(top.made) : top.made[d] \in top.mark[2] + 1 .. Len(nodes)
      /\ top.mark[2] \in Nat
  BY ExprMade
<1>2. Begins(c, fn, expr, <<cur', Len(nodes')>>)
  <2>1. fn \in Fns /\ 0 \in Int /\ Len(nodes') \in Nat
    BY <1>1 DEF ExprFns, Fns
  <2>2. QED
    BY <2>1, FrameCalled, Zenon
<1>3. Asks(me, c) /\ c.fn # "binop"
  BY <1>2 DEF Begins
<1>4. Grows(top, nodes, nodes')
  BY GrowsSame
<1>5. \A d \in DOMAIN top.made : top.made[d] \in 1 .. Len(nodes')
  <2>1. DOMAIN top.made = 1 .. Len(top.made) /\ Len(nodes) \in Nat /\ top.mark[2] \in Nat
    BY <1>1
  <2>2. nodes' = nodes
    OBVIOUS
  <2>3. ASSUME NEW d \in DOMAIN top.made PROVE top.made[d] \in 1 .. Len(nodes')
    <3>1. PICK x : x = top.made[d]
      OBVIOUS
    <3>2. x \in top.mark[2] + 1 .. Len(nodes)
      BY <1>1, <2>1, <3>1
    <3>3. x \in 1 .. Len(nodes)
      BY <2>1, <3>2
    <3>4. QED
      BY <2>2, <3>1, <3>3
  <2>4. QED
    BY <2>3
<1>6. Removable(me) => Private(nodes', MadeBy(me))
  BY DEF Moves, MadeBy, Private
<1>7. expr <= Len(nodes') /\ Parts(nodes', me)
  OBVIOUS
<1>8. QED
  BY <1>2, <1>3, <1>4, <1>5, <1>6, <1>7, ExprTree

(* A colon: the second branch is a conditional.                            *)
LEMMA CondElseTree ==
  ASSUME Parse, Tree, ArenaOK(nodes), CondElse
  PROVE  Tree' /\ ArenaOK(nodes')
<1>1. PICK top : top = Top
  OBVIOUS
<1>2. At("conditional", "then") /\ ret = "true" /\ nodes' = nodes /\ cur' = cur + 1
  BY DEF CondElse, Consume
<1>3. /\ stack # << >> /\ top.fn = "conditional" /\ top.at = "then" /\ top \in Frames /\ FrameOK(top)
      /\ Len(nodes) \in Nat /\ cur \in Nat
  BY <1>1, <1>2, AtPlace
<1>4. InExpr(top)
  BY <1>3 DEF InExpr, ExprFns
<1>5. /\ top.mark[2] \in Nat /\ top.expr \in Nat /\ top.expr <= top.mark[2]
      /\ top.made[2] \in top.mark[2] + 1 .. Len(nodes) /\ Filled(nodes, top) /\ OfTree(nodes, top)
  <2>1. Len(top.made) = 4
    BY <1>3 DEF FrameOK, Sized
  <2>2. QED
    BY <1>1, <1>2, <1>3, <1>4, <2>1, ExprMade
<1>6. PICK else \in Nat : else = top.made[2]
  BY <1>5
<1>7. PICK me : me = [top EXCEPT !.at = "else"]
  OBVIOUS
<1>8. Moves(me, top, "else", top.made)
  <2>1. "else" \in Places
    BY DEF Places
  <2>2. QED
    BY <1>3, <1>7, <2>1, FrameMoved, Zenon
<1>9. PICK c : c = [Frame("conditional", else, FALSE, 0) EXCEPT !.mark = <<cur', Len(nodes')>>]
  OBVIOUS
<1>10. stack' = Front(stack) \o <<me, c>> /\ ret' = NoRet
  BY <1>1, <1>6, <1>7, <1>9 DEF CondElse, Call, Conditional
<1>11. me.fn = "conditional" /\ me.at = "else" /\ me.made = top.made
  BY <1>3, <1>8 DEF Moves
<1>12. Begins(c, "conditional", else, <<cur', Len(nodes')>>) => Asks(me, c)
  BY <1>6, <1>11 DEF Begins, Asks
<1>13. ~Removable(me)
  BY <1>11 DEF Removable, Failing, Passing
<1>14. Parts(nodes, me)
  BY <1>3, <1>5, <1>11 DEF Parts, OfTree, OfExpr, Filled
<1>15. top.expr <= else /\ else <= Len(nodes) /\ cur' \in Nat /\ FALSE \in BOOLEAN /\ "conditional" \in ExprFns
  BY <1>2, <1>3, <1>5, <1>6 DEF ExprFns
<1>16. QED
  BY <1>1, <1>2, <1>3, <1>4, <1>8, <1>9, <1>10, <1>12, <1>13, <1>14, <1>15, HandedTree

(* An assignment begins as a conditional.                                  *)
LEMMA AssignEnterTree ==
  ASSUME Parse, Tree, ArenaOK(nodes), AssignEnter
  PROVE  Tree' /\ ArenaOK(nodes')
<1>1. PICK top : top = Top
  OBVIOUS
<1>2. At("assignment", "enter") /\ nodes' = nodes /\ cur' = cur
  BY DEF AssignEnter, Stay
<1>3. /\ stack # << >> /\ top.fn = "assignment" /\ top.at = "enter" /\ top \in Frames /\ FrameOK(top)
      /\ Len(nodes) \in Nat /\ cur \in Nat
  BY <1>1, <1>2, AtPlace
<1>4. InExpr(top) /\ DOMAIN top.made = {}
  BY <1>3 DEF InExpr, ExprFns, FrameOK, Entered
<1>5. top.mark[2] \in Nat /\ top.expr \in Nat /\ top.expr <= top.mark[2] /\ top.mark[2] <= Len(nodes)
  BY <1>1, <1>3, <1>4, ExprMade
<1>6. PICK expr \in Nat : expr = top.expr
  BY <1>5
<1>7. PICK me : me = [top EXCEPT !.at = "cond"]
  OBVIOUS
<1>8. Moves(me, top, "cond", top.made)
  <2>1. "cond" \in Places
    BY DEF Places
  <2>2. QED
    BY <1>3, <1>7, <2>1, FrameMoved, Zenon
<1>9. PICK c : c = [Frame("conditional", expr, FALSE, 0) EXCEPT !.mark = <<cur', Len(nodes')>>]
  OBVIOUS
<1>10. stack' = Front(stack) \o <<me, c>> /\ ret' = NoRet
  BY <1>1, <1>6, <1>7, <1>9 DEF AssignEnter, Call, Conditional
<1>11. me.fn = "assignment" /\ me.at = "cond" /\ me.expr = expr
  BY <1>3, <1>6, <1>8 DEF Moves
<1>12. Begins(c, "conditional", expr, <<cur', Len(nodes')>>) => Asks(me, c)
  BY <1>11 DEF Begins, Asks
<1>13. Parts(nodes, me)
  BY <1>11 DEF Parts
<1>14. top.expr <= expr /\ expr <= Len(nodes) /\ cur' \in Nat /\ FALSE \in BOOLEAN /\ "conditional" \in ExprFns
  BY <1>2, <1>3, <1>5, <1>6 DEF ExprFns
<1>15. QED
  BY <1>1, <1>2, <1>3, <1>4, <1>8, <1>9, <1>10, <1>12, <1>13, <1>14, HandedTree

(* An expression begins as an assignment.                                  *)
LEMMA ExprEnterTree ==
  ASSUME Parse, Tree, ArenaOK(nodes), ExprEnter
  PROVE  Tree' /\ ArenaOK(nodes')
<1>1. PICK top : top = Top
  OBVIOUS
<1>2. At("expression", "enter") /\ nodes' = nodes /\ cur' = cur
  BY DEF ExprEnter, Stay
<1>3. /\ stack # << >> /\ top.fn = "expression" /\ top.at = "enter" /\ top \in Frames /\ FrameOK(top)
      /\ Len(nodes) \in Nat /\ cur \in Nat
  BY <1>1, <1>2, AtPlace
<1>4. InExpr(top) /\ DOMAIN top.made = {}
  BY <1>3 DEF InExpr, ExprFns, FrameOK, Entered
<1>5. top.mark[2] \in Nat /\ top.expr \in Nat /\ top.expr <= top.mark[2] /\ top.mark[2] <= Len(nodes)
  BY <1>1, <1>3, <1>4, ExprMade
<1>6. PICK expr \in Nat : expr = top.expr
  BY <1>5
<1>7. PICK me : me = [top EXCEPT !.at = "first"]
  OBVIOUS
<1>8. Moves(me, top, "first", top.made)
  <2>1. "first" \in Places
    BY DEF Places
  <2>2. QED
    BY <1>3, <1>7, <2>1, FrameMoved, Zenon
<1>9. PICK c : c = [Frame("assignment", expr, FALSE, 0) EXCEPT !.mark = <<cur', Len(nodes')>>]
  OBVIOUS
<1>10. stack' = Front(stack) \o <<me, c>> /\ ret' = NoRet
  BY <1>1, <1>6, <1>7, <1>9 DEF ExprEnter, Call
<1>11. me.fn = "expression" /\ me.at = "first" /\ me.expr = expr
  BY <1>3, <1>6, <1>8 DEF Moves
<1>12. Begins(c, "assignment", expr, <<cur', Len(nodes')>>) => Asks(me, c)
  BY <1>11 DEF Begins, Asks
<1>13. Parts(nodes, me)
  BY <1>11 DEF Parts
<1>14. top.expr <= expr /\ expr <= Len(nodes) /\ cur' \in Nat /\ FALSE \in BOOLEAN /\ "assignment" \in ExprFns
  BY <1>2, <1>3, <1>5, <1>6 DEF ExprFns
<1>15. QED
  BY <1>1, <1>2, <1>3, <1>4, <1>8, <1>9, <1>10, <1>12, <1>13, <1>14, HandedTree

(* No expression: the rule tries itself in its place.                      *)
LEMMA ExprRetryTree ==
  ASSUME Parse, Tree, ArenaOK(nodes), ExprRetry
  PROVE  Tree' /\ ArenaOK(nodes')
<1>1. PICK top : top = Top
  OBVIOUS
<1>2. At("expression", "first") /\ nodes' = nodes /\ cur' = cur
  BY DEF ExprRetry, Stay
<1>3. /\ stack # << >> /\ top.fn = "expression" /\ top.at = "first" /\ top \in Frames /\ FrameOK(top)
      /\ Len(nodes) \in Nat /\ cur \in Nat
  BY <1>1, <1>2, AtPlace
<1>4. InExpr(top) /\ DOMAIN top.made = {}
  BY <1>3 DEF InExpr, ExprFns, FrameOK, Sized, Passing
<1>5. top.mark[2] \in Nat /\ top.expr \in Nat /\ top.expr <= top.mark[2] /\ top.mark[2] <= Len(nodes)
  BY <1>1, <1>3, <1>4, ExprMade
<1>6. PICK expr \in Nat : expr = top.expr
  BY <1>5
<1>7. PICK me : me = [top EXCEPT !.at = "retry"]
  OBVIOUS
<1>8. Moves(me, top, "retry", top.made)
  <2>1. "retry" \in Places
    BY DEF Places
  <2>2. QED
    BY <1>3, <1>7, <2>1, FrameMoved, Zenon
<1>9. PICK c : c = [Frame("expression", expr, TRUE, 0) EXCEPT !.mark = <<cur', Len(nodes')>>]
  OBVIOUS
<1>10. stack' = Front(stack) \o <<me, c>> /\ ret' = NoRet
  BY <1>1, <1>6, <1>7, <1>9 DEF ExprRetry, Call, Expression
<1>11. me.fn = "expression" /\ me.at = "retry"
  BY <1>3, <1>8 DEF Moves
<1>12. Asks(me, c)
  BY <1>11 DEF Asks
<1>13. Parts(nodes, me)
  BY <1>11 DEF Parts
<1>14. top.expr <= expr /\ expr <= Len(nodes) /\ cur' \in Nat /\ TRUE \in BOOLEAN /\ "expression" \in ExprFns
  BY <1>2, <1>3, <1>5, <1>6 DEF ExprFns
<1>15. QED
  BY <1>1, <1>2, <1>3, <1>4, <1>8, <1>9, <1>10, <1>12, <1>13, <1>14, HandedTree

(* No conditional: an assignment is tried, whose left side is unary.       *)
LEMMA AssignTryTree ==
  ASSUME Parse, Tree, ArenaOK(nodes), AssignTry
  PROVE  Tree' /\ ArenaOK(nodes')
<1>1. PICK top : top = Top
  OBVIOUS
<1>2. At("assignment", "cond") /\ cur' = cur
  BY DEF AssignTry, Stay
<1>3. /\ stack # << >> /\ top.fn = "assignment" /\ top.at = "cond" /\ top \in Frames
      /\ Len(nodes) \in Nat /\ IsSeq(nodes) /\ cur \in Nat
  BY <1>1, <1>2, AtPlace
<1>4. InExpr(top)
  BY <1>3 DEF InExpr, ExprFns
<1>5. /\ top.mark[2] \in Nat /\ top.mark[2] >= 2 /\ top.mark[2] <= Len(nodes)
      /\ top.expr \in Nat /\ top.expr <= top.mark[2]
  BY <1>1, <1>3, <1>4, ExprMade
<1>6. PICK lhs : lhs = Len(nodes) + 1
  OBVIOUS
<1>7. PICK rhs : rhs = Len(nodes) + 2
  OBVIOUS
<1>8. PICK assign : assign = Len(nodes) + 3
  OBVIOUS
<1>9. /\ lhs \in Nat /\ rhs \in Nat /\ assign \in Nat
      /\ Fresh = lhs /\ Fresh + 1 = rhs /\ Fresh + 2 = assign
  BY <1>3, <1>6, <1>7, <1>8 DEF Fresh
<1>10. PICK kids : kids = <<lhs, lhs>>
  OBVIOUS
<1>11. IsSeq(kids) /\ Len(kids) = 2 /\ kids[1] = lhs /\ kids[2] = lhs
  BY <1>10, SeqTwo
<1>12. PICK node : node = Node("ASSIGN", kids)
  OBVIOUS
<1>13. Push(<<Block, Block, node>>)
  BY <1>9, <1>10, <1>12 DEF AssignTry
<1>14. PICK new : new = <<Block, Block, node>>
  OBVIOUS
<1>15. IsSeq(new) /\ Len(new) = 3 /\ new[1] = Block /\ new[2] = Block /\ new[3] = node
  BY <1>14, SeqThree
<1>16. Extends(nodes', nodes, new)
  BY <1>3, <1>13, <1>14, <1>15, Pushed
<1>17. Grows(top, nodes, nodes') /\ Len(nodes') = assign
  <2>1. \A k \in 1 .. Len(kids) : k = 1 \/ k = 2
    BY <1>11
  <2>2. \A k \in 1 .. Len(kids) :
           /\ kids[k] \in top.mark[2] + 1 .. Len(nodes) + 2 /\ kids[1] <= kids[k]
           /\ kids[k] <= Len(nodes) => nodes[kids[k]].type = "BLOCK"
    <3>1. lhs \in top.mark[2] + 1 .. Len(nodes) + 2 /\ lhs <= lhs /\ ~(lhs <= Len(nodes))
      BY <1>3, <1>5, <1>6
    <3>2. QED
      BY <1>11, <2>1, <3>1
  <2>3. kids[1] <= Len(nodes) + 1
    BY <1>3, <1>6, <1>11
  <2>4. new[3] = Node("ASSIGN", kids)
    BY <1>12, <1>15
  <2>5. QED
    <3>1. Branched(top, new, "ASSIGN", kids, nodes')
      BY <1>5, <1>11, <1>15, <1>16, <2>2, <2>3, <2>4 DEF Branched
    <3>2. Grows(top, nodes, nodes') /\ Len(nodes') = Len(nodes) + 3
      BY <3>1, BranchPushed, Zenon
    <3>3. QED
      BY <1>8, <3>2
<1>18. PICK made : made = <<assign, rhs, lhs>>
  OBVIOUS
<1>19. made \in Seq(Nat) /\ Len(made) = 3 /\ DOMAIN made = 1 .. 3 /\ made[1] = assign /\ made[2] = rhs /\ made[3] = lhs
  BY <1>9, <1>18, SeqThree
<1>20. PICK me : me = [top EXCEPT !.at = "unary", !.made = made]
  OBVIOUS
<1>21. Moves(me, top, "unary", made)
  <2>1. "unary" \in Places
    BY DEF Places
  <2>2. QED
    BY <1>3, <1>19, <1>20, <2>1, FrameMoved, Zenon
<1>22. PICK c : c = [Unary(lhs) EXCEPT !.mark = <<cur', Len(nodes')>>]
  OBVIOUS
<1>23. "unary" \in ExprFns /\ Begins(c, "unary", lhs, <<cur', Len(nodes')>>)
  <2>1. cur' \in Nat /\ Len(nodes') \in Nat /\ FALSE \in BOOLEAN /\ "unary" \in Fns /\ 0 \in Int
    BY <1>2, <1>3, <1>9, <1>17 DEF Fns
  <2>2. c = [Frame("unary", lhs, FALSE, 0) EXCEPT !.mark = <<cur', Len(nodes')>>]
    BY <1>22 DEF Unary
  <2>3. Begins(c, "unary", lhs, <<cur', Len(nodes')>>)
    BY <1>9, <2>1, <2>2, FrameCalled, Zenon
  <2>4. QED
    BY <2>3 DEF ExprFns
<1>24. stack' = Front(stack) \o <<me, c>> /\ ret' = NoRet
  BY <1>1, <1>9, <1>18, <1>20, <1>22 DEF AssignTry, Call
<1>25. me.fn = "assignment" /\ me.at = "unary" /\ me.made = made /\ c.fn = "unary"
  BY <1>3, <1>21, <1>23 DEF Moves, Begins
<1>26. Asks(me, c) /\ Parts(nodes', me)
  BY <1>25 DEF Asks, Parts
<1>27. \A d \in 1 .. 3 : d = 1 \/ d = 2 \/ d = 3
  OBVIOUS
<1>28. Private(nodes', MadeBy(me))
  <2>1. MadeBy(me) = {lhs, rhs, assign}
    BY <1>19, <1>25, <1>27 DEF MadeBy
  <2>2. \A m \in {lhs, rhs, assign} : m \in Nat /\ m > Len(nodes)
    BY <1>3, <1>6, <1>7, <1>8
  <2>3. \A n \in Len(nodes) + 1 .. Len(nodes') : n = lhs \/ n = rhs \/ n = assign
    BY <1>3, <1>6, <1>7, <1>8, <1>17
  <2>4. QED
    BY <1>17, <2>1, <2>2, <2>3, NewPrivate
<1>29. \A d \in DOMAIN made : made[d] \in 1 .. Len(nodes')
  <2>1. lhs \in 1 .. assign /\ rhs \in 1 .. assign /\ assign \in 1 .. assign
    BY <1>3, <1>6, <1>7, <1>8
  <2>2. QED
    BY <1>17, <1>19, <1>27, <2>1
<1>30. top.expr <= lhs /\ lhs <= Len(nodes')
  BY <1>3, <1>5, <1>6, <1>8, <1>17
<1>31. c.fn # "binop"
  BY <1>25
<1>32. QED
  BY <1>1, <1>3, <1>4, <1>9, <1>17, <1>21, <1>23, <1>24, <1>26, <1>28, <1>29, <1>30, <1>31, ExprTree

(* An operand is a name or a number.                                       *)
LEMMA OperandTree ==
  ASSUME Parse, Tree, ArenaOK(nodes), Operand
  PROVE  Tree' /\ ArenaOK(nodes')
<1>1. PICK top : top = Top
  OBVIOUS
<1>2. At("unary", "enter")
  BY DEF Operand
<1>3. /\ stack # << >> /\ top.fn = "unary" /\ top.at = "enter" /\ IsSeq(nodes) /\ Len(nodes) \in Nat
  BY <1>1, <1>2, AtPlace
<1>4. InExpr(top) /\ ~Passing(top) /\ top.fn # "external"
  BY <1>3 DEF InExpr, ExprFns, Passing
<1>5. nodes[top.expr] = Block /\ top.mark[2] \in Nat /\ top.mark[2] <= Len(nodes)
  BY <1>1, <1>3, <1>4, TopBlank
<1>6. CASE Tok \in {"IDENT", "LITERAL"}
  <2>1. Opened(Top.expr) = nodes /\ PlaceIn(Top.expr) = top.expr
    BY <1>1, <1>5 DEF Opened, PlaceIn
  <2>2. PICK node : node = [Node(Tok, << >>) EXCEPT !.name = cur + 1]
    OBVIOUS
  <2>3. node.type = Tok /\ node.kids = << >> /\ IsNode(node)
    BY <2>2 DEF Node, IsNode
  <2>4. PICK new : new = <<node>>
    OBVIOUS
  <2>5. IsSeq(new) /\ Len(new) = 1 /\ new[1] = node
    BY <2>4, SeqOne
  <2>6. PICK grown : grown = Append(nodes, node)
    OBVIOUS
  <2>7. nodes' = WithChild(grown, top.expr, Len(nodes) + 1) /\ Return("true")
    BY <1>6, <2>1, <2>2, <2>6 DEF Operand
  <2>8. Extends(grown, nodes, new)
    <3>1. /\ IsSeq(grown) /\ Len(grown) = Len(nodes) + 1 /\ grown[Len(nodes) + 1] = node
          /\ \A i \in 1 .. Len(nodes) : grown[i] = nodes[i]
      BY <1>3, <2>6, SeqAppend
    <3>2. QED
      BY <1>3, <2>5, <3>1 DEF Extends
  <2>9. PICK leaf : leaf = Len(nodes) + 1
    OBVIOUS
  <2>10. Len(grown) = leaf /\ leaf \in 1 .. Len(grown) /\ leaf > top.mark[2] /\ grown[leaf] = node
    BY <1>3, <1>5, <2>5, <2>8, <2>9 DEF Extends
  <2>11. NodeOK(grown, leaf) /\ Kids(grown, leaf) = {} /\ grown[leaf].type \in LeafTypes
    <3>1. grown[leaf].type \in LeafTypes
      BY <1>6, <2>3, <2>10 DEF LeafTypes
    <3>2. QED
      BY <2>3, <2>10, <3>1, NewNode
  <2>12. Grows(top, nodes, grown)
    <3>1. grown[leaf].type # "NEW_VAR"
      BY <2>11 DEF LeafTypes
    <3>2. \A i \in 1 .. Len(new) : Len(nodes) + i = leaf
      BY <2>5, <2>9
    <3>3. QED
      BY <2>8, <2>11, <3>1, <3>2, PushGrows
  <2>13. Done(grown, leaf) /\ Oldest(grown, leaf) = leaf
    BY <2>11, NoBranches DEF Done, Oldest, LeafTypes
  <2>14. 0 \in Int /\ 0 <= Len(Ops)
    BY Kinds
  <2>15. grown[leaf].type \in LeafTypes \cup OpsTo(0)
    BY <2>11
  <2>16. nodes' = WithChild(grown, top.expr, leaf)
    BY <2>7, <2>9
  <2>17. top.fn # "binop" /\ top.fn \in {"unary", "binop"}
    BY <1>3
  <2>18. QED
    BY <1>1, <1>3, <1>4, <2>7, <2>10, <2>12, <2>13, <2>14, <2>15, <2>16, <2>17, ExprGiven
<1>7. CASE Tok \notin {"IDENT", "LITERAL"}
  <2>1. nodes' = nodes /\ Return("false")
    BY <1>7 DEF Operand
  <2>2. QED
    BY <1>1, <1>3, <1>4, <2>1, PlainTree
<1>8. QED
  BY <1>6, <1>7

(* No operator: the operand is all.                                        *)
LEMMA BinopPlainTree ==
  ASSUME Parse, Tree, ArenaOK(nodes), BinopPlain
  PROVE  Tree' /\ ArenaOK(nodes')
<1>1. PICK top : top = Top
  OBVIOUS
<1>2. /\ At("binop", "lhs") /\ ret = "true" /\ Return("true")
      /\ nodes' = WithCoalesced(nodes, top.expr, top.made[1])
  BY <1>1 DEF BinopPlain, HasLhs
<1>3. /\ stack # << >> /\ top.fn = "binop" /\ top.at = "lhs" /\ IsSeq(nodes) /\ top \in Frames
      /\ FrameOK(top) /\ Len(nodes) \in Nat
  BY <1>1, <1>2, AtPlace
<1>4. InExpr(top) /\ ~Passing(top)
  BY <1>3 DEF InExpr, ExprFns, Passing
<1>5. /\ top.mark[2] \in Nat /\ top.expr \in Nat /\ top.expr <= top.mark[2] /\ top.level \in 1 .. Len(Ops)
      /\ top.made[1] \in top.mark[2] + 1 .. Len(nodes) /\ Filled(nodes, top)
  <2>1. Len(top.made) = 1
    BY <1>3 DEF FrameOK, Sized
  <2>2. QED
    BY <1>1, <1>2, <1>3, <1>4, <2>1, ExprMade
<1>6. PICK lhs : lhs = top.made[1]
  OBVIOUS
<1>7. ValueIn(nodes, lhs, top.level - 1) /\ lhs \in 1 .. Len(nodes) /\ NodeOK(nodes, lhs)
  <2>1. ValueIn(nodes, lhs, top.level - 1)
    BY <1>3, <1>5, <1>6 DEF Filled
  <2>2. lhs \in 1 .. Len(nodes)
    BY <1>3, <1>5, <1>6
  <2>3. QED
    BY <2>1, <2>2 DEF ArenaOK
<1>8. PICK c : c = nodes[lhs].kids[1]
  OBVIOUS
<1>9. Single(nodes, lhs) /\ c \in Kids(nodes, lhs) /\ c \in 1 .. Len(nodes)
  <2>1. Single(nodes, lhs)
    BY <1>7 DEF ValueIn
  <2>2. QED
    BY <1>7, <1>8, <2>1, KidOf, KidsOf DEF NodeOK
<1>10. Oldest(nodes, c) > lhs /\ Done(nodes, c)
  BY <1>7, <1>9 DEF NodeOK, ListOK, Single
<1>11. /\ Oldest(nodes, c) \in Nat /\ Oldest(nodes, c) > top.expr /\ c > top.mark[2] /\ c \in Nat
  <2>1. NodeOK(nodes, c) /\ c \in Nat
    BY <1>9 DEF ArenaOK
  <2>2. Oldest(nodes, c) <= c /\ Oldest(nodes, c) \in Nat
    BY <2>1, OldestLess
  <2>3. QED
    BY <1>5, <1>6, <1>10, <2>1, <2>2
<1>12. PICK b : b = top.expr
  OBVIOUS
<1>13. Grows(top, nodes, nodes)
  BY GrowsSame
<1>14. Empty(nodes, b)
  BY <1>1, <1>2, <1>3, <1>4, <1>12, <1>13, TopEmpty
<1>15. PICK ms : ms = nodes'
  OBVIOUS
<1>16. /\ SameBut(ms, nodes, b) /\ ms[b] = nodes[lhs]
  <2>1. SameBut(ms, nodes, b)
    BY <1>2, <1>3, <1>6, <1>12, <1>15, CoalescedGiven
  <2>2. nodes[b].kids = << >>
    BY <1>14 DEF Empty, Block, Node
  <2>3. ms = [nodes EXCEPT ![b] = nodes[lhs]]
    BY <1>2, <1>6, <1>12, <1>15, <2>2 DEF WithCoalesced
  <2>4. b \in DOMAIN nodes
    BY <1>3, <1>14, SeqDomain DEF Empty
  <2>5. QED
    BY <2>1, <2>3, <2>4
<1>17. IsNode(ms[b]) /\ ms[b].type = "BLOCK" /\ IsSeq(ms[b].kids) /\ Len(ms[b].kids) = 1 /\ ms[b].kids[1] = c
  BY <1>7, <1>8, <1>9, <1>16 DEF Single, NodeOK, Formed
<1>18. top.level \in Int /\ top.level <= Len(Ops) /\ nodes[c].type \in LeafTypes \cup OpsTo(top.level)
  <2>1. Len(Ops) \in Nat
    BY Kinds
  <2>2. nodes[c].type \in LeafTypes \cup OpsTo(top.level - 1)
    BY <1>7, <1>8 DEF ValueIn
  <2>3. 1 .. top.level - 1 \subseteq 1 .. top.level
    BY <1>5
  <2>4. OpsTo(top.level - 1) \subseteq OpsTo(top.level)
    BY <2>3 DEF OpsTo
  <2>5. QED
    BY <1>5, <2>1, <2>2, <2>4
<1>19. /\ Fill(nodes, ms, b) /\ ArenaOK(ms) /\ Kids(ms, b) = {c} /\ ValueIn(ms, b, top.level)
  BY <1>9, <1>10, <1>11, <1>12, <1>14, <1>16, <1>17, <1>18, FilledOne
<1>20. Fills(ms, top)
  BY <1>3, <1>12, <1>19 DEF Fills
<1>21. QED
  BY <1>1, <1>2, <1>3, <1>4, <1>11, <1>12, <1>13, <1>15, <1>19, <1>20, ExprTrue

(* Both operands are there: the operator goes into the block.              *)
LEMMA BinopDoneTree ==
  ASSUME Parse, Tree, ArenaOK(nodes), BinopDone
  PROVE  Tree' /\ ArenaOK(nodes')
<1>1. PICK top : top = Top
  OBVIOUS
<1>2. /\ At("binop", "rhs") /\ ret = "true" /\ Return("true")
      /\ nodes' = WithChild(nodes, top.expr, top.made[1])
  BY <1>1 DEF BinopDone
<1>3. /\ stack # << >> /\ top.fn = "binop" /\ top.at = "rhs" /\ top \in Frames
      /\ FrameOK(top) /\ Len(nodes) \in Nat
  BY <1>1, <1>2, AtPlace
<1>4. InExpr(top) /\ ~Passing(top)
  BY <1>3 DEF InExpr, ExprFns, Passing
<1>5. /\ top.mark[2] \in Nat /\ top.level \in 1 .. Len(Ops) /\ Filled(nodes, top) /\ OfTree(nodes, top)
      /\ top.made[1] \in top.mark[2] + 1 .. Len(nodes) /\ top.made[3] \in top.mark[2] + 1 .. Len(nodes)
  <2>1. Len(top.made) = 3
    BY <1>3 DEF FrameOK, Sized
  <2>2. QED
    BY <1>1, <1>2, <1>3, <1>4, <2>1, ExprMade
<1>6. PICK op : op = top.made[1]
  OBVIOUS
<1>7. /\ nodes[op].type = Ops[top.level] /\ Len(nodes[op].kids) = 2
      /\ nodes[op].kids[1] = top.made[3] /\ nodes[op].kids[2] = top.made[2]
      /\ ValueIn(nodes, top.made[3], top.level - 1)
  BY <1>3, <1>5, <1>6 DEF OfTree, OfExpr, Parts
<1>8. ValueIn(nodes, top.made[2], top.level - 1)
  BY <1>3, <1>5 DEF Filled
<1>9. Done(nodes, op)
  BY <1>5, <1>7, <1>8 DEF Done, OpDone
<1>10. Ops[top.level] \in OpsTo(top.level) /\ Ops[top.level] \in Branches /\ top.level \in Int /\ top.level <= Len(Ops)
  <2>1. Ops[top.level] \in OpsTo(Len(Ops)) /\ Len(Ops) \in Nat
    BY <1>5, Kinds
  <2>2. top.level \in 1 .. top.level
    BY <1>5
  <2>3. QED
    BY <1>5, <2>1, <2>2 DEF Branches, OpsTo
<1>11. Oldest(nodes, op) > top.mark[2] /\ op \in 1 .. Len(nodes)
  BY <1>3, <1>5, <1>6, <1>7, <1>10, SMTT(30) DEF Oldest
<1>12. Grows(top, nodes, nodes)
  BY GrowsSame
<1>13. nodes' = WithChild(nodes, top.expr, op) /\ nodes[op].type \in LeafTypes \cup OpsTo(top.level)
  BY <1>2, <1>6, <1>7, <1>10
<1>14. top.fn # "unary" /\ top.fn \in {"unary", "binop"}
  BY <1>3
<1>15. QED
  BY <1>1, <1>2, <1>3, <1>4, <1>9, <1>10, <1>11, <1>12, <1>13, <1>14, ExprGiven

(* No question mark: the condition is all.                                 *)
LEMMA CondPlainTree ==
  ASSUME Parse, Tree, ArenaOK(nodes), CondPlain
  PROVE  Tree' /\ ArenaOK(nodes')
<1>1. PICK top : top = Top
  OBVIOUS
<1>2. /\ At("conditional", "cond") /\ ret = "true" /\ Return("true")
      /\ nodes' = WithChild(nodes, top.expr, top.made[1])
  BY <1>1 DEF CondPlain
<1>3. /\ stack # << >> /\ top.fn = "conditional" /\ top.at = "cond" /\ top \in Frames
      /\ FrameOK(top) /\ Len(nodes) \in Nat
  BY <1>1, <1>2, AtPlace
<1>4. InExpr(top) /\ ~Passing(top)
  BY <1>3 DEF InExpr, ExprFns, Passing
<1>5. /\ top.mark[2] \in Nat /\ Filled(nodes, top) /\ top.made[1] \in top.mark[2] + 1 .. Len(nodes)
  <2>1. Len(top.made) = 1
    BY <1>3 DEF FrameOK, Sized
  <2>2. QED
    BY <1>1, <1>2, <1>3, <1>4, <2>1, ExprMade
<1>6. PICK cond : cond = top.made[1]
  OBVIOUS
<1>7. ValueIn(nodes, cond, Len(Ops))
  BY <1>3, <1>5, <1>6 DEF Filled
<1>8. Done(nodes, cond)
  BY <1>7 DEF Done
<1>9. Oldest(nodes, cond) > top.mark[2] /\ cond \in 1 .. Len(nodes)
  <2>1. nodes[cond].type \notin Branches
    BY <1>7, NoBranches DEF ValueIn, Single
  <2>2. QED
    BY <1>3, <1>5, <1>6, <2>1 DEF Oldest
<1>10. Grows(top, nodes, nodes) /\ 0 \in Int /\ 0 <= Len(Ops)
  BY GrowsSame, Kinds
<1>11. nodes' = WithChild(nodes, top.expr, cond) /\ top.fn \notin {"unary", "binop"}
  BY <1>2, <1>3, <1>6
<1>12. QED
  BY <1>1, <1>2, <1>3, <1>4, <1>7, <1>8, <1>9, <1>10, <1>11, ExprGiven

(* All three are there: the conditional goes into the block.               *)
LEMMA CondDoneTree ==
  ASSUME Parse, Tree, ArenaOK(nodes), CondDone
  PROVE  Tree' /\ ArenaOK(nodes')
<1>1. PICK top : top = Top
  OBVIOUS
<1>2. /\ At("conditional", "else") /\ ret = "true" /\ Return("true")
      /\ nodes' = WithChild(nodes, top.expr, top.made[1])
  BY <1>1 DEF CondDone
<1>3. /\ stack # << >> /\ top.fn = "conditional" /\ top.at = "else" /\ top \in Frames
      /\ FrameOK(top) /\ Len(nodes) \in Nat
  BY <1>1, <1>2, AtPlace
<1>4. InExpr(top) /\ ~Passing(top)
  BY <1>3 DEF InExpr, ExprFns, Passing
<1>5. /\ top.mark[2] \in Nat /\ Filled(nodes, top) /\ OfTree(nodes, top)
      /\ top.made[1] \in top.mark[2] + 1 .. Len(nodes) /\ top.made[4] \in top.mark[2] + 1 .. Len(nodes)
  <2>1. Len(top.made) = 4
    BY <1>3 DEF FrameOK, Sized
  <2>2. QED
    BY <1>1, <1>2, <1>3, <1>4, <2>1, ExprMade
<1>6. PICK if : if = top.made[1]
  OBVIOUS
<1>7. /\ nodes[if].type = "IF" /\ Len(nodes[if].kids) = 3
      /\ nodes[if].kids[1] = top.made[4] /\ nodes[if].kids[2] = top.made[3] /\ nodes[if].kids[3] = top.made[2]
      /\ ValueIn(nodes, top.made[4], Len(Ops)) /\ ExprIn(nodes, top.made[3])
  BY <1>3, <1>5, <1>6 DEF OfTree, OfExpr, Parts
<1>8. ExprIn(nodes, top.made[2])
  BY <1>3, <1>5 DEF Filled
<1>9. Done(nodes, if)
  BY <1>7, <1>8 DEF Done, IfDone
<1>10. Oldest(nodes, if) > top.mark[2] /\ if \in 1 .. Len(nodes)
  <2>1. nodes[if].type \in Branches
    BY <1>7 DEF Branches
  <2>2. QED
    BY <1>3, <1>5, <1>6, <1>7, <2>1, SMTT(30) DEF Oldest
<1>11. Grows(top, nodes, nodes) /\ 0 \in Int /\ 0 <= Len(Ops)
  BY GrowsSame, Kinds
<1>12. nodes' = WithChild(nodes, top.expr, if) /\ top.fn \notin {"unary", "binop"}
  BY <1>2, <1>3, <1>6
<1>13. QED
  BY <1>1, <1>2, <1>3, <1>4, <1>7, <1>9, <1>10, <1>11, <1>12, ExprGiven

(* An assignment that is a conditional says so.                            *)
LEMMA AssignPlainTree ==
  ASSUME Parse, Tree, ArenaOK(nodes), AssignPlain
  PROVE  Tree' /\ ArenaOK(nodes')
<1>1. PICK top : top = Top
  OBVIOUS
<1>2. At("assignment", "cond") /\ ret = "true" /\ Return("true") /\ nodes' = nodes
  BY DEF AssignPlain
<1>3. stack # << >> /\ top.fn = "assignment" /\ top.at = "cond"
  BY <1>1, <1>2, AtPlace
<1>4. Filled(nodes, top)
  BY <1>1, <1>2, <1>3, TopTree
<1>5. Fills(nodes, top) /\ top.fn # "external"
  BY <1>3, <1>4 DEF Filled, Fills
<1>6. QED
  BY <1>1, <1>2, <1>3, <1>5, PlainTree

(* An expression says what the last of its rules did.                      *)
LEMMA ExprEndTree ==
  ASSUME Parse, Tree, ArenaOK(nodes), ExprEnd
  PROVE  Tree' /\ ArenaOK(nodes')
<1>1. PICK top : top = Top
  OBVIOUS
<1>2. PICK place \in {"first", "retry"} : At("expression", place)
  BY DEF ExprEnd
<1>3. stack # << >> /\ top.fn = "expression" /\ top.at = place
  BY <1>1, <1>2, AtPlace
<1>4. ~(place = "retry" /\ ret = "true")
  <2>1. Failing(top) /\ (place = "retry" => Tried(top))
    BY <1>2, <1>3 DEF Failing, Passing, Tried
  <2>2. QED
    BY <1>1, <1>3, <2>1, TopTold
<1>5. Return(ret) /\ nodes' = nodes
  BY <1>1, <1>3, <1>4 DEF ExprEnd
<1>6. ASSUME ret = "true" PROVE Fills(nodes, top)
  <2>1. Filled(nodes, top)
    BY <1>1, <1>3, <1>6, TopTree
  <2>2. place = "first"
    BY <1>2, <1>4, <1>6
  <2>3. QED
    BY <1>3, <2>1, <2>2 DEF Filled, Fills
<1>7. top.fn # "external"
  BY <1>3
<1>8. QED
  BY <1>1, <1>3, <1>5, <1>6, <1>7, PlainTree

(* What is popped again was private: the arena is as it was before.        *)
LEMMA CutArena ==
  ASSUME ArenaOK(nodes), NEW n \in Nat, n >= 2, n <= Len(nodes), nodes' = SubSeq(nodes, 1, n),
         NEW S, Private(nodes, S), \A m \in n + 1 .. Len(nodes) : m \in S, \A m \in S : m > n
  PROVE  ArenaOK(nodes') /\ Agrees(nodes, nodes', 1 .. n) /\ Len(nodes') = n
<1>1. IsSeq(nodes) /\ Len(nodes) \in Nat
  BY SeqDomain DEF ArenaOK
<1>2. IsSeq(nodes') /\ Len(nodes') = n /\ \A i \in 1 .. n : nodes'[i] = nodes[i]
  BY <1>1, SeqPrefix
<1>3. PICK D : D = 1 .. n
  OBVIOUS
<1>4. ASSUME NEW i \in D
      PROVE  SameNode(nodes, nodes', i) /\ NodeOK(nodes, i) /\ Formed(nodes, i) /\ Kids(nodes, i) \subseteq D
  <2>1. i \in 1 .. Len(nodes) /\ i \notin S /\ nodes'[i] = nodes[i]
    BY <1>1, <1>2, <1>3, <1>4
  <2>2. NodeOK(nodes, i) /\ Formed(nodes, i)
    BY <2>1 DEF ArenaOK, NodeOK
  <2>3. ASSUME NEW m \in Kids(nodes, i) PROVE m \in D
    <3>1. m \in 1 .. Len(nodes)
      BY <2>2 DEF Formed
    <3>2. m \notin S
      BY <2>1 DEF Private
    <3>3. QED
      BY <1>1, <1>3, <3>1, <3>2
  <2>4. QED
    BY <2>1, <2>2, <2>3 DEF SameNode
<1>5. Agrees(nodes, nodes', D)
  BY <1>4 DEF Agrees
<1>6. \A i \in D : NodeOK(nodes', i)
  BY <1>2, <1>3, <1>4, <1>5, AgreeNode
<1>7. nodes'[NIL].type = "INVALID" /\ nodes'[UnitBlock].type = "BLOCK"
  <2>1. NIL \in 1 .. n /\ UnitBlock \in 1 .. n
    BY DEF NIL, UnitBlock
  <2>2. QED
    BY <1>2, <2>1 DEF ArenaOK
<1>8. QED
  BY <1>2, <1>3, <1>5, <1>6, <1>7 DEF ArenaOK

(* A rule that fails pops what it made: the tree is as before its call.    *)
LEMMA UndoTree ==
  ASSUME Parse, Tree, ArenaOK(nodes), stack # << >>, NEW top, top = Top, Failing(top),
         ret = "false", Undo(top.made)
  PROVE  Tree' /\ ArenaOK(nodes')
<1>1. InExpr(top) /\ Len(nodes) = top.mark[2] + Len(top.made) /\ InOrder(top)
  BY TopTold
<1>2. /\ top.mark[2] \in Nat /\ top.mark[2] >= 2 /\ Len(top.made) \in Nat /\ Len(nodes) \in Nat
      /\ DOMAIN top.made = 1 .. Len(top.made) /\ top.mark[2] <= Len(nodes)
      /\ OfTree(nodes, top) /\ top.fn # "external"
  BY <1>1, ExprMade
<1>3. PopsInOrder(top.made)
  BY <1>1, <1>2 DEF PopsInOrder, InOrder
<1>4. Len(nodes) - Len(top.made) = top.mark[2]
  BY <1>1, <1>2
<1>5. nodes' = SubSeq(nodes, 1, top.mark[2]) /\ Return("false")
  BY <1>3, <1>4 DEF Undo
<1>6. Private(nodes, MadeBy(top))
  BY <1>2 DEF OfTree, OfAll, Removable
<1>7. \A m \in MadeBy(top) : m > top.mark[2]
  <2>1. \A d \in DOMAIN top.made : top.made[d] = top.mark[2] + Len(top.made) + 1 - d
    BY <1>1 DEF InOrder
  <2>2. \A d \in DOMAIN top.made : top.made[d] > top.mark[2]
    BY <1>2, <2>1
  <2>3. QED
    BY <2>2 DEF MadeBy
<1>8. ASSUME NEW m \in top.mark[2] + 1 .. Len(nodes) PROVE m \in MadeBy(top)
  <2>1. PICK d \in Int : d = top.mark[2] + Len(top.made) + 1 - m
    BY <1>2
  <2>2. d \in DOMAIN top.made /\ m = top.mark[2] + Len(top.made) + 1 - d
    BY <1>1, <1>2, <2>1, SMTT(30)
  <2>3. top.made[d] = m
    BY <1>1, <2>2 DEF InOrder
  <2>4. QED
    BY <2>2, <2>3 DEF MadeBy
<1>9. ArenaOK(nodes') /\ Agrees(nodes, nodes', 1 .. top.mark[2]) /\ Len(nodes') = top.mark[2]
  BY <1>2, <1>5, <1>6, <1>7, <1>8, CutArena
<1>10. ASSUME NEW k \in 1 .. Depth - 1, NEW f, f = stack[k]
       PROVE  OfTree(nodes', f)
  <2>1. Waits(nodes, f, top)
    BY <1>10, WaitsFor
  <2>2. PICK D : D = 1 .. top.mark[2]
    OBVIOUS
  <2>3. D \subseteq 1 .. Len(nodes) /\ D \subseteq 1 .. Len(nodes') /\ top.mark[2] <= Len(nodes') /\ Len(nodes') \in Nat
    BY <1>2, <1>9, <2>2
  <2>4. \A n \in 1 .. Len(nodes') : n \in D
    BY <1>9, <2>2
  <2>5. QED
    BY <1>9, <2>1, <2>2, <2>3, <2>4, WaitsAgree
<1>11. QED
  <2>1. \A k \in 1 .. Depth - 1 : \A f \in {stack[k]} : OfTree(nodes', f)
    BY <1>10
  <2>2. PICK v : v = "false"
    OBVIOUS
  <2>3. Return(v) /\ (v = "true" => Fills(nodes', top))
    BY <1>5, <2>2
  <2>4. Tree'
    BY <1>2, <2>1, <2>3, TreeReturned
  <2>5. QED
    BY <1>9, <2>4

(* What a step keeps of the tree.                                          *)
TreeKept == (status' = "parsing" => Tree') /\ ArenaOK(nodes')

(* A step that ends the parse.                                             *)
LEMMA GiveTree ==
  ASSUME ArenaOK(nodes), NEW outcome, outcome # "parsing", Give(outcome)
  PROVE  TreeKept
  BY DEF Give, TreeKept

(* A rule of operators.                                                    *)
LEMMA BinopTree ==
  ASSUME Parse, Tree, ArenaOK(nodes), Binop
  PROVE  TreeKept
<1>1. CASE BinopFail
  <2>1. PICK top : top = Top
    OBVIOUS
  <2>2. PICK place \in {"lhs", "retry"} : At("binop", place)
    BY <1>1 DEF BinopFail
  <2>3. stack # << >> /\ top.fn = "binop" /\ top.at = place
    BY <2>1, <2>2, AtPlace
  <2>4. Failing(top) /\ (top.at = "retry" => Tried(top))
    BY <2>3 DEF Failing, Tried
  <2>5. ret = "false"
    <3>1. ret \in {"true", "false"} /\ (Tried(top) => ret = "false")
      BY <2>1, <2>3, <2>4, TopTold
    <3>2. ~(ret = "true" /\ (top.at = "retry" => Tok = Operator))
      BY <1>1, <2>1 DEF BinopFail, HasLhs
    <3>3. QED
      BY <2>3, <2>4, <3>1, <3>2
  <2>6. Undo(top.made)
    BY <1>1, <2>1 DEF BinopFail
  <2>7. QED
    BY <2>1, <2>3, <2>4, <2>5, <2>6, UndoTree DEF TreeKept
<1>2. CASE BinopAbort
  BY <1>2, GiveTree DEF BinopAbort, Abort
<1>3. QED
  BY <1>1, <1>2, BinopEnterTree, BinopOperatorTree, BinopPlainTree, BinopRetryTree, BinopDoneTree DEF Binop, TreeKept

(* A conditional.                                                          *)
LEMMA ConditionTree ==
  ASSUME Parse, Tree, ArenaOK(nodes), Condition
  PROVE  TreeKept
<1>1. CASE CondFail
  <2>1. PICK top : top = Top
    OBVIOUS
  <2>2. At("conditional", "cond") /\ ret = "false" /\ Undo(top.made)
    BY <1>1, <2>1 DEF CondFail
  <2>3. stack # << >> /\ top.fn = "conditional" /\ top.at = "cond"
    BY <2>1, <2>2, AtPlace
  <2>4. Failing(top)
    BY <2>3 DEF Failing
  <2>5. QED
    BY <2>1, <2>2, <2>3, <2>4, UndoTree DEF TreeKept
<1>2. CASE CondAbort
  BY <1>2, GiveTree DEF CondAbort, Abort
<1>3. QED
  BY <1>1, <1>2, CondEnterTree, CondPlainTree, CondThenTree, CondElseTree, CondDoneTree DEF Condition, TreeKept

(* An assignment.                                                          *)
LEMMA AssignmentTree ==
  ASSUME Parse, Tree, ArenaOK(nodes), Assignment
  PROVE  TreeKept
<1>1. CASE AssignFail
  <2>1. PICK top : top = Top
    OBVIOUS
  <2>2. At("assignment", "unary")
    BY <1>1 DEF AssignFail
  <2>3. stack # << >> /\ top.fn = "assignment" /\ top.at = "unary"
    BY <2>1, <2>2, AtPlace
  <2>4. Failing(top) /\ Tried(top)
    BY <2>3 DEF Failing, Tried
  <2>5. ret = "false"
    BY <2>1, <2>3, <2>4, TopTold
  <2>6. Undo(top.made)
    BY <1>1, <2>1, <2>5 DEF AssignFail
  <2>7. QED
    BY <2>1, <2>3, <2>4, <2>5, <2>6, UndoTree DEF TreeKept
<1>2. QED
  BY <1>1, AssignEnterTree, AssignPlainTree, AssignTryTree DEF Assignment, TreeKept

(* An expression.                                                          *)
LEMMA ExpressionTree ==
  ASSUME Parse, Tree, ArenaOK(nodes), Expr
  PROVE  TreeKept
  BY ExprEnterTree, ExprRetryTree, ExprEndTree DEF Expr, TreeKept

-----------------------------------------------------------------------------
(* Statements                                                              *)

(* An activation that begins, and pushes nothing yet.                      *)
LEMMA CalleeTree ==
  ASSUME NEW ns, Len(ns) \in Nat, Len(ns) >= 2, NEW c \in Frames, NEW a,
         NEW fn, NEW expr, Begins(c, fn, expr, <<a, Len(ns)>>), expr <= Len(ns), fn # "external",
         InExpr(c) => NoVarFrom(ns, expr),
         fn = "binop" => c.level \in 1 .. Len(Ops),
         fn = "compound" => ns[expr] = Block,
         fn \in {"parameter", "declarator"} => expr >= 1 /\ ns[expr].type = "NEW_VAR",
         fn = "declarator" => Kids(ns, ns[expr].kids[1]) = {}
  PROVE  OfTree(ns, c)
<1>1. c.fn = fn /\ c.at = "enter" /\ c.expr = expr /\ c.made = << >> /\ c.mark[2] = Len(ns)
  BY DEF Begins
<1>2. DOMAIN c.made = {}
  <2>1. DOMAIN c.made = 1 .. Len(c.made)
    BY FrameFields
  <2>2. Len(c.made) = 0
    BY <1>1, EmptySeq
  <2>3. QED
    BY <2>1, <2>2
<1>3. OfAll(ns, c)
  BY <1>1, <1>2 DEF OfAll, Removable, Failing, Passing
<1>4. OfExpr(ns, c)
  BY <1>1 DEF OfExpr, Parts
<1>5. OfStmt(ns, c)
  BY <1>1 DEF OfStmt
<1>6. OfDecl(ns, c)
  BY <1>1 DEF OfDecl
<1>7. QED
  BY <1>3, <1>4, <1>5, <1>6 DEF OfTree

(* A call that pushes nothing.                                             *)
LEMMA SameCalled ==
  ASSUME Parse, Tree, ArenaOK(nodes), stack # << >>, NEW top, top = Top, nodes' = nodes,
         NEW at, NEW made, NEW me, Moves(me, top, at, made),
         NEW fn, NEW expr, NEW a, NEW c, Begins(c, fn, expr, <<a, Len(nodes')>>),
         stack' = Front(stack) \o <<me, c>>, ret' = NoRet,
         Goes(me, c), Asks(me, c), OfTree(nodes, me), OfTree(nodes, c)
  PROVE  Tree' /\ ArenaOK(nodes')
<1>1. Grows(top, nodes, nodes')
  BY GrowsSame
<1>2. /\ me \in Frames /\ c \in Frames /\ c.mark[2] = Len(nodes')
      /\ HandsOn(top, me, c)
  BY DEF Moves, Begins, HandsOn
<1>3. QED
  BY <1>1, <1>2, TreeCalled

(* An activation goes on, and the arena grows.                             *)
LEMMA GrowsOn ==
  ASSUME Parse, Tree, ArenaOK(nodes), stack # << >>, NEW top, top = Top, Grows(top, nodes, nodes'),
         NEW at, NEW made, NEW me, Moves(me, top, at, made), Continue(me), OfTree(nodes', me)
  PROVE  Tree' /\ ArenaOK(nodes')
<1>1. ArenaOK(nodes') /\ \A k \in 1 .. Depth - 1 : \A f \in {stack[k]} : Waits(nodes', f, top)
  BY GrowsKeeps
<1>2. \A k \in 1 .. Depth - 1 : \A f \in {stack[k]} : OfTree(nodes', f)
  BY <1>1 DEF Waits
<1>3. /\ me \in Frames /\ me.fn = top.fn /\ me.expr = top.expr /\ me.mark = top.mark /\ me.level = top.level
  BY DEF Moves
<1>4. QED
  BY <1>1, <1>2, <1>3, TreeContinued

(* The innermost activation, if it is of a statement or of a part of a     *)
(* declaration.                                                            *)
LEMMA OtherTop ==
  ASSUME Parse, Tree, stack # << >>, NEW top, top = Top, top.fn \in StmtFns \cup DeclFns
  PROVE  /\ top \in Frames /\ top.fn # "external" /\ ~InExpr(top) /\ OfTree(nodes, top)
         /\ top.mark[2] \in Nat /\ top.mark[2] >= 2 /\ top.mark[2] <= Len(nodes) /\ Len(nodes) \in Nat
         /\ top.expr \in Nat /\ top.expr <= top.mark[2]
         /\ DOMAIN top.made = 1 .. Len(top.made) /\ Len(top.made) \in Nat /\ top.made \in Seq(Nat)
         /\ \A d \in 1 .. Len(top.made) : top.made[d] \in 1 .. Len(nodes)
<1>1. top.fn # "external" /\ ~InExpr(top)
  BY DEF StmtFns, DeclFns, InExpr, ExprFns
<1>2. top \in Frames
  BY OfTop
<1>3. top.made \in Seq(Nat)
  BY <1>2, FrameFields
<1>4. /\ OfTree(nodes, top) /\ top.mark[2] \in Nat /\ top.expr \in Nat /\ top.mark[2] <= Len(nodes)
      /\ Len(nodes) \in Nat /\ DOMAIN top.made = 1 .. Len(top.made) /\ Len(top.made) \in Nat
  BY TopTree
<1>5. QED
  BY <1>1, <1>2, <1>3, <1>4 DEF OfTree, OfAll

(* The declaration that all of it is for: a statement is in its body.      *)
LEMMA OfExternal ==
  ASSUME Parse, Tree, ArenaOK(nodes), stack # << >>, NEW top, top = Top, top.fn # "external"
  PROVE  \E ext : /\ ext = stack[1] /\ 1 \in 1 .. Depth - 1 /\ Waits(nodes, ext, top) /\ Removable(ext)
                  /\ ext.made[1] \in 1 .. Len(nodes) /\ ext.made[2] \in 1 .. Len(nodes)
                  /\ ext.made[3] \in 1 .. Len(nodes)
                  /\ MadeBy(ext) = {ext.made[1], ext.made[2], ext.made[3]}
                  /\ nodes[ext.made[1]].type = "NEW_VAR" /\ nodes[ext.made[2]].type = "BLOCK"
                  /\ nodes[ext.made[3]].type = "NEW_TYPE"
                  /\ top.fn \in StmtFns => top.expr = ext.made[2]
<1>1. top = stack[Depth] /\ Depth \in Nat /\ Depth >= 1
  BY OfTop
<1>2. PICK ext : ext = stack[1]
  OBVIOUS
<1>3. ext.fn = "external" /\ 1 \in 1 .. Depth - 1
  <2>1. stack[1].fn = "external"
    BY DEF Tree
  <2>2. Depth # 1
    BY <1>1, <2>1
  <2>3. QED
    BY <1>1, <1>2, <2>1, <2>2
<1>4. Waits(nodes, ext, top)
  BY <1>2, <1>3, WaitsFor
<1>5. ext.at # "enter"
  BY <1>4 DEF Waits, Alone
<1>6. /\ {ext.made[1], ext.made[2], ext.made[3]} \subseteq 1 .. top.mark[2]
      /\ Len(ext.made) = 3 /\ DOMAIN ext.made = 1 .. Len(ext.made)
      /\ ext.made[3] > 2 /\ ext.made[3] < ext.made[2] /\ ext.made[2] < ext.made[1]
      /\ nodes[ext.made[1]].type = "NEW_VAR"
      /\ nodes[ext.made[1]].kids[1] = ext.made[3] /\ nodes[ext.made[1]].kids[2] = ext.made[2]
      /\ top.mark[2] <= Len(nodes) /\ top.mark[2] \in Nat /\ Len(nodes) \in Nat
  <2>1. {ext.made[1], ext.made[2], ext.made[3]} \subseteq 1 .. top.mark[2]
    BY <1>3, <1>4, <1>5, WaitsMade
  <2>2. OfDecl(nodes, ext) /\ DOMAIN ext.made = 1 .. Len(ext.made)
        /\ top.mark[2] <= Len(nodes) /\ top.mark[2] \in Nat /\ Len(nodes) \in Nat
    BY <1>4 DEF Waits, OfTree
  <2>3. Len(ext.made) = 3
        /\ ext.made[3] > 2 /\ ext.made[3] < ext.made[2] /\ ext.made[2] < ext.made[1]
        /\ nodes[ext.made[1]].type = "NEW_VAR"
        /\ nodes[ext.made[1]].kids[1] = ext.made[3] /\ nodes[ext.made[1]].kids[2] = ext.made[2]
    BY <1>3, <1>5, <2>2 DEF OfDecl, UnitBlock
  <2>4. QED
    BY <2>1, <2>2, <2>3
<1>7. /\ ext.made[1] \in 1 .. Len(nodes) /\ ext.made[2] \in 1 .. Len(nodes)
      /\ ext.made[3] \in 1 .. Len(nodes)
  BY <1>6
<1>8. MadeBy(ext) = {ext.made[1], ext.made[2], ext.made[3]}
  <2>1. \A d \in 1 .. 3 : d = 1 \/ d = 2 \/ d = 3
    OBVIOUS
  <2>2. QED
    BY <1>6, <2>1 DEF MadeBy
<1>9. nodes[ext.made[2]].type = "BLOCK" /\ nodes[ext.made[3]].type = "NEW_TYPE"
  <2>1. NodeOK(nodes, ext.made[1]) /\ nodes[ext.made[1]].type \in Branches
    BY <1>6, <1>7 DEF ArenaOK, Branches
  <2>2. ext.made[2] # NIL
    BY <1>6 DEF NIL
  <2>3. QED
    BY <1>6, <2>1, <2>2 DEF NodeOK, BranchOK, Returns
<1>10. top.fn \in StmtFns => top.expr = ext.made[2]
  BY <1>3, <1>4 DEF Waits, Inside
<1>11. Removable(ext)
  BY <1>3, <1>5 DEF Removable
<1>12. QED
  BY <1>2, <1>3, <1>4, <1>6, <1>7, <1>8, <1>9, <1>10, <1>11

(* A return statement begins.                                              *)
LEMMA JumpEnterTree ==
  ASSUME Parse, Tree, ArenaOK(nodes), JumpEnter
  PROVE  Tree' /\ ArenaOK(nodes')
<1>1. PICK top : top = Top
  OBVIOUS
<1>2. At("jump", "enter")
  BY DEF JumpEnter
<1>3. /\ stack # << >> /\ top.fn = "jump" /\ top.at = "enter" /\ IsSeq(nodes) /\ Len(nodes) \in Nat
      /\ top \in Frames
  BY <1>1, <1>2, AtPlace
<1>4. top.fn \in StmtFns \cup DeclFns
  BY <1>3 DEF StmtFns
<1>5. /\ top.fn # "external" /\ ~InExpr(top) /\ OfTree(nodes, top)
      /\ top.mark[2] \in Nat /\ top.mark[2] >= 2 /\ top.mark[2] <= Len(nodes)
      /\ top.expr \in Nat /\ top.expr <= top.mark[2]
  BY <1>1, <1>3, <1>4, OtherTop
<1>6. CASE Tok = "return"
  <2>1. PICK value : value = Len(nodes) + 1
    OBVIOUS
  <2>2. PICK return : return = Len(nodes) + 2
    OBVIOUS
  <2>3. value \in Nat /\ return \in Nat /\ Fresh = value /\ Fresh + 1 = return
    BY <1>3, <2>1, <2>2 DEF Fresh
  <2>4. PICK kids : kids = <<value>>
    OBVIOUS
  <2>5. IsSeq(kids) /\ Len(kids) = 1 /\ kids[1] = value
    BY <2>4, SeqOne
  <2>6. PICK node : node = Node("RETURN", kids)
    OBVIOUS
  <2>7. node.type = "RETURN" /\ node.kids = kids /\ IsNode(node)
    BY <2>6, NodesMade DEF Node
  <2>8. PICK new : new = <<Block, node>>
    OBVIOUS
  <2>9. IsSeq(new) /\ Len(new) = 2 /\ new[1] = Block /\ new[2] = node
    BY <2>8, SeqTwo
  <2>10. PICK made : made = <<return, value>>
    OBVIOUS
  <2>11. made \in Seq(Nat) /\ Len(made) = 2 /\ made[1] = return /\ made[2] = value /\ DOMAIN made = 1 .. 2
    BY <2>3, <2>10, SeqTwo
  <2>12. PICK me : me = [top EXCEPT !.at = "value", !.made = made]
    OBVIOUS
  <2>13. Push(new) /\ Continue(me)
    BY <1>1, <1>6, <2>3, <2>4, <2>6, <2>8, <2>10, <2>12 DEF JumpEnter
  <2>14. Moves(me, top, "value", made)
    <3>1. "value" \in Places
      BY DEF Places
    <3>2. QED
      BY <1>3, <2>11, <2>12, <3>1, FrameMoved, Zenon
  <2>15. Extends(nodes', nodes, new)
    BY <1>3, <2>9, <2>13, Pushed
  <2>16. /\ Len(nodes') = return /\ nodes'[value] = Block /\ nodes'[return] = node
         /\ \A n \in 1 .. Len(nodes) : nodes'[n] = nodes[n]
    BY <1>3, <2>1, <2>2, <2>9, <2>15 DEF Extends
  <2>17. nodes'[value].type = "BLOCK"
    BY <2>16 DEF Block, Node
  <2>18. NodeOK(nodes', return) /\ Kids(nodes', return) = {value}
    <3>1. \A k \in 1 .. Len(kids) : k = 1
      BY <2>5
    <3>2. value \in (1 .. Len(nodes')) \ {UnitBlock} /\ value < return /\ value <= value /\ return \in 1 .. Len(nodes')
      BY <1>3, <1>5, <2>1, <2>2, <2>16 DEF UnitBlock
    <3>3. NodeOK(nodes', return) /\ Kids(nodes', return) = {kids[k] : k \in 1 .. Len(kids)}
      <4>0. IsNode(nodes'[return])
        BY <2>7, <2>16
      <4>1. nodes'[return].type \in Branches \ {"NEW_VAR"} /\ nodes'[return].kids = kids
        BY <2>7, <2>16 DEF Branches
      <4>2. Len(kids) >= 1 /\ kids[1] < return
        BY <2>5, <3>2
      <4>3. \A k \in 1 .. Len(kids) :
              kids[k] \in (1 .. Len(nodes')) \ {UnitBlock} /\ nodes'[kids[k]].type = "BLOCK" /\ kids[1] <= kids[k]
        BY <2>5, <2>17, <3>1, <3>2
      <4>4. QED
        <5>1. Branching(nodes', return, kids)
          BY <2>5, <3>2, <4>0, <4>1, <4>2, <4>3 DEF Branching
        <5>2. NodeOK(nodes', return) /\ Kids(nodes', return) = Elements(kids)
          BY <5>1, NewBranch, Zenon
        <5>3. QED
          BY <5>2 DEF Elements
    <3>4. QED
      BY <2>5, <3>1, <3>3
  <2>19. NodeOK(nodes', value) /\ Kids(nodes', value) = {}
    <3>1. IsNode(nodes'[value])
      BY <2>16, NodesMade
    <3>2. QED
      BY <2>16, <3>1, NewNode DEF Block, Node
  <2>20. Grows(top, nodes, nodes')
    <3>1. nodes'[return].type # "NEW_VAR" /\ nodes'[value].type # "NEW_VAR" /\ value > top.mark[2]
      BY <1>3, <1>5, <2>1, <2>7, <2>16, <2>17
    <3>2. \A i \in 1 .. Len(new) : Len(nodes) + i = value \/ Len(nodes) + i = return
      BY <1>3, <2>1, <2>2, <2>9
    <3>3. \A i \in 1 .. Len(new) :
            /\ NodeOK(nodes', Len(nodes) + i)
            /\ nodes'[Len(nodes) + i].type = "NEW_VAR" => top.fn \in DeclFns \cup {"external"}
            /\ \A m \in Kids(nodes', Len(nodes) + i) : m = NIL \/ m > top.mark[2]
      BY <2>18, <2>19, <3>1, <3>2
    <3>4. QED
      BY <2>15, <3>3, PushGrows, Zenon
  <2>21. NoVarFrom(nodes', value)
    <3>1. \A n \in 1 .. Len(nodes') : n < value \/ n = value \/ n = return
      BY <1>3, <2>1, <2>2, <2>16
    <3>2. nodes'[return].type # "NEW_VAR" /\ nodes'[value].type # "NEW_VAR"
      BY <2>7, <2>16, <2>17
    <3>3. QED
      BY <3>1, <3>2 DEF NoVarFrom
  <2>22. OfTree(nodes', me)
    <3>1. /\ me.fn = "jump" /\ me.at = "value" /\ me.made = made /\ me.mark = top.mark /\ me.expr = top.expr
      BY <1>3, <2>14 DEF Moves
    <3>2. value > top.mark[2] /\ return > top.mark[2] /\ top.mark[2] <= Len(nodes')
          /\ value \in 1 .. Len(nodes') /\ return \in 1 .. Len(nodes')
      BY <1>3, <1>5, <2>1, <2>2, <2>16
    <3>3. \A d \in 1 .. 2 : d = 1 \/ d = 2
      OBVIOUS
    <3>4. OfAll(nodes', me)
      BY <1>5, <2>11, <3>1, <3>2, <3>3 DEF OfAll, Removable, Failing, Passing
    <3>5. OfExpr(nodes', me) /\ OfDecl(nodes', me)
      BY <3>1 DEF OfExpr, Parts, OfDecl, InExpr, ExprFns
    <3>6. ExprBlock(nodes', value)
      BY <2>16 DEF ExprBlock
    <3>7. OfStmt(nodes', me)
      BY <2>5, <2>7, <2>11, <2>16, <2>21, <3>1, <3>2, <3>6 DEF OfStmt
    <3>8. QED
      BY <3>4, <3>5, <3>7 DEF OfTree
  <2>23. QED
    BY <1>1, <1>3, <2>13, <2>14, <2>20, <2>22, GrowsOn
<1>7. CASE Tok # "return"
  <2>1. nodes' = nodes /\ Return("false")
    BY <1>7 DEF JumpEnter
  <2>2. QED
    BY <1>1, <1>3, <1>5, <2>1, PlainTree
<1>8. QED
  BY <1>6, <1>7

(* The value of a return statement is an expression.                       *)
LEMMA JumpValueTree ==
  ASSUME Parse, Tree, ArenaOK(nodes), JumpValue
  PROVE  Tree' /\ ArenaOK(nodes')
<1>1. PICK top : top = Top
  OBVIOUS
<1>2. At("jump", "value") /\ nodes' = nodes /\ cur' = cur
  BY DEF JumpValue, Stay
<1>3. /\ stack # << >> /\ top.fn = "jump" /\ top.at = "value" /\ top \in Frames
      /\ Len(nodes) \in Nat /\ cur \in Nat
  BY <1>1, <1>2, AtPlace
<1>4. top.fn \in StmtFns \cup DeclFns
  BY <1>3 DEF StmtFns
<1>5. /\ top.fn # "external" /\ OfTree(nodes, top)
      /\ top.mark[2] \in Nat /\ top.mark[2] >= 2 /\ top.mark[2] <= Len(nodes)
      /\ DOMAIN top.made = 1 .. Len(top.made)
      /\ \A d \in 1 .. Len(top.made) : top.made[d] \in 1 .. Len(nodes)
  BY <1>1, <1>3, <1>4, OtherTop
<1>6. Len(top.made) = 2 /\ NoVarFrom(nodes, top.made[2])
  BY <1>3, <1>5 DEF OfTree, OfStmt
<1>7. PICK value \in 1 .. Len(nodes) : value = top.made[2]
  BY <1>5, <1>6
<1>8. PICK me : me = [top EXCEPT !.at = "semi"]
  OBVIOUS
<1>9. Moves(me, top, "semi", top.made)
  <2>1. "semi" \in Places
    BY DEF Places
  <2>2. QED
    BY <1>3, <1>8, <2>1, FrameMoved, Zenon
<1>10. PICK c : c = [Expression(value, FALSE) EXCEPT !.mark = <<cur', Len(nodes')>>]
  OBVIOUS
<1>11. Begins(c, "expression", value, <<cur', Len(nodes')>>)
  <2>1. /\ cur' \in Nat /\ Len(nodes') \in Nat /\ FALSE \in BOOLEAN /\ "expression" \in Fns /\ 0 \in Int
        /\ value \in Nat
    BY <1>2, <1>3, <1>7 DEF Fns
  <2>2. c = [Frame("expression", value, FALSE, 0) EXCEPT !.mark = <<cur', Len(nodes')>>]
    BY <1>10 DEF Expression
  <2>3. QED
    BY <2>1, <2>2, FrameCalled, Zenon
<1>12. stack' = Front(stack) \o <<me, c>> /\ ret' = NoRet
  BY <1>1, <1>7, <1>8, <1>10 DEF JumpValue, Call
<1>13. /\ me.fn = "jump" /\ me.at = "semi" /\ me.made = top.made /\ me.mark = top.mark /\ me.expr = top.expr
       /\ c.fn = "expression" /\ c \in Frames /\ InExpr(c)
  BY <1>3, <1>9, <1>11 DEF Moves, Begins, InExpr, ExprFns
<1>14. Goes(me, c) /\ Asks(me, c)
  BY <1>13 DEF Goes, Asks, DeclFns, InExpr, ExprFns
<1>15. OfTree(nodes, me)
  <2>1. OfAll(nodes, me)
    BY <1>5, <1>13 DEF OfTree, OfAll, Removable, Failing, Passing
  <2>2. OfExpr(nodes, me) /\ OfDecl(nodes, me)
    BY <1>13 DEF OfExpr, Parts, OfDecl, InExpr, ExprFns
  <2>3. OfStmt(nodes, me)
    BY <1>3, <1>5, <1>13 DEF OfTree, OfStmt
  <2>4. QED
    BY <2>1, <2>2, <2>3 DEF OfTree
<1>16. OfTree(nodes, c)
  <2>1. Len(nodes) >= 2 /\ value <= Len(nodes) /\ Begins(c, "expression", value, <<cur', Len(nodes)>>)
    BY <1>2, <1>3, <1>5, <1>7, <1>11
  <2>2. NoVarFrom(nodes, value)
    BY <1>6, <1>7
  <2>3. QED
    BY <1>3, <1>13, <2>1, <2>2, CalleeTree
<1>17. QED
  BY <1>1, <1>2, <1>3, <1>9, <1>11, <1>12, <1>14, <1>15, <1>16, SameCalled

(* ms is ns, and the b-th node has c for one more child.                   *)
ChildMade(ms, ns, b, c) ==
  SameBut(ms, ns, b) /\ IsNode(ms[b]) /\ ms[b].type = ns[b].type /\ ms[b].kids = Append(ns[b].kids, c)

(* A node that is given a child keeps the rest of it.                      *)
LEMMA ChildSays ==
  ASSUME NEW ns, IsSeq(ns), NEW b \in 1 .. Len(ns), IsNode(ns[b]), NEW c, NEW ms, ms = WithChild(ns, b, c)
  PROVE  ChildMade(ms, ns, b, c)
<1>1. SameBut(ms, ns, b)
  BY ChildGiven
<1>2. b \in DOMAIN ns
  BY SeqDomain
<1>3. ms[b] = [ns[b] EXCEPT !.kids = Append(@, c)]
  BY <1>2 DEF WithChild
<1>4. PICK type, kids, name, func : ns[b] = [type |-> type, kids |-> kids, name |-> name, func |-> func]
  BY Zenon DEF IsNode
<1>5. PICK more : more = Append(kids, c)
  OBVIOUS
<1>6. PICK old : old = ns[b]
  OBVIOUS
<1>7. old = [type |-> type, kids |-> kids, name |-> name, func |-> func]
  BY <1>4, <1>6, Zenon
<1>8. old.kids = kids /\ old.type = type
  BY <1>7
<1>9. Append(old.kids, c) = more
  BY <1>5, <1>8, Zenon
<1>10. ms[b] = [old EXCEPT !.kids = more]
  BY <1>3, <1>6, <1>9, Zenon
<1>11. ms[b] = [type |-> type, kids |-> more, name |-> name, func |-> func]
  BY <1>7, <1>10
<1>12. IsNode(ms[b]) /\ ms[b].type = type /\ ms[b].kids = more
  BY <1>11 DEF IsNode
<1>13. QED
  BY <1>1, <1>5, <1>6, <1>8, <1>9, <1>12, Zenon DEF ChildMade

(* The statement goes into the body of the function.                       *)
LEMMA JumpDoneTree ==
  ASSUME Parse, Tree, ArenaOK(nodes), JumpDone
  PROVE  Tree' /\ ArenaOK(nodes')
<1>1. PICK top : top = Top
  OBVIOUS
<1>2. PICK place \in {"value", "semi"} : At("jump", place)
  BY DEF JumpDone
<1>3. /\ stack # << >> /\ top.fn = "jump" /\ top.at = place /\ top \in Frames
      /\ Len(nodes) \in Nat /\ IsSeq(nodes)
  BY <1>1, <1>2, AtPlace
<1>4. top.fn \in StmtFns \cup DeclFns /\ top.fn \in StmtFns
  BY <1>3 DEF StmtFns
<1>5. /\ top.fn # "external" /\ OfTree(nodes, top)
      /\ top.mark[2] \in Nat /\ top.mark[2] >= 2 /\ top.mark[2] <= Len(nodes)
      /\ top.expr \in Nat /\ top.expr <= top.mark[2]
      /\ \A d \in 1 .. Len(top.made) : top.made[d] \in 1 .. Len(nodes)
  BY <1>1, <1>3, <1>4, OtherTop
<1>6. PICK m : m = top.made[1]
  OBVIOUS
<1>7. PICK value : value = top.made[2]
  OBVIOUS
<1>8. /\ Len(top.made) = 2 /\ m > top.mark[2] /\ value > top.mark[2]
      /\ nodes[m].type = "RETURN" /\ Len(nodes[m].kids) = 1
      /\ nodes[m].kids[1] = value /\ ExprBlock(nodes, value)
  BY <1>3, <1>5, <1>6, <1>7 DEF OfTree, OfStmt
<1>9. m \in 1 .. Len(nodes) /\ value \in 1 .. Len(nodes)
  BY <1>5, <1>6, <1>7, <1>8
<1>10. PICK b : b = top.expr
  OBVIOUS
<1>11. PICK ext : /\ ext = stack[1] /\ 1 \in 1 .. Depth - 1 /\ Waits(nodes, ext, top) /\ Removable(ext)
                  /\ ext.made[2] \in 1 .. Len(nodes)
                  /\ MadeBy(ext) = {ext.made[1], ext.made[2], ext.made[3]}
                  /\ nodes[ext.made[1]].type = "NEW_VAR" /\ nodes[ext.made[2]].type = "BLOCK"
                  /\ nodes[ext.made[3]].type = "NEW_TYPE" /\ top.expr = ext.made[2]
  BY <1>1, <1>3, <1>4, <1>5, OfExternal
<1>12. b \in 1 .. Len(nodes) /\ nodes[b].type = "BLOCK" /\ b <= top.mark[2] /\ b = ext.made[2]
  BY <1>5, <1>10, <1>11
<1>13. Private(nodes, MadeBy(ext))
  BY <1>11 DEF Waits, OfTree, OfAll
<1>14. ASSUME NEW n \in 1 .. Len(nodes), nodes[n].type # "NEW_VAR" PROVE b \notin Kids(nodes, n)
  <2>1. CASE n \notin MadeBy(ext)
    <3>1. b \in MadeBy(ext)
      BY <1>11, <1>12
    <3>2. QED
      BY <1>13, <2>1, <3>1 DEF Private
  <2>2. CASE n = b
    <3>1. NodeOK(nodes, b)
      BY <1>12 DEF ArenaOK
    <3>2. \A k \in Kids(nodes, b) : Oldest(nodes, k) > b
      BY <1>12, <3>1 DEF NodeOK, ListOK
    <3>3. Oldest(nodes, b) = b
      BY <1>12, NoBranches DEF Oldest
    <3>4. ~(b > b)
      BY <1>12
    <3>5. QED
      BY <2>2, <3>2, <3>3, <3>4
  <2>3. CASE n = ext.made[3]
    <3>1. NodeOK(nodes, n) /\ nodes[n].type = "NEW_TYPE"
      BY <1>11, <2>3 DEF ArenaOK
    <3>2. \A k \in Kids(nodes, n) : nodes[k].type = "NEW_VAR"
      BY <3>1 DEF NodeOK, ListOK
    <3>3. QED
      BY <1>12, <3>2
  <2>4. QED
    BY <1>11, <1>12, <1>14, <2>1, <2>2, <2>3
<1>15. Done(nodes, m)
  BY <1>8 DEF Done, ReturnDone
<1>16. Oldest(nodes, m) > b
  <2>1. nodes[m].type \in Branches
    BY <1>8 DEF Branches
  <2>2. Oldest(nodes, m) = value
    BY <1>8, <2>1 DEF Oldest
  <2>3. QED
    BY <1>5, <1>8, <1>9, <1>12, <2>2
<1>17. PICK ms : ms = nodes'
  OBVIOUS
<1>18. SameBut(ms, nodes, b) /\ IsNode(ms[b]) /\ ms[b].type = nodes[b].type /\ ms[b].kids = Append(nodes[b].kids, m)
  <2>1. ms = WithChild(nodes, b, m)
    BY <1>1, <1>6, <1>10, <1>17 DEF JumpDone
  <2>2. IsNode(nodes[b])
    BY <1>12 DEF ArenaOK, NodeOK, Formed
  <2>3. IsSeq(nodes) /\ b \in 1 .. Len(nodes)
    BY <1>3, <1>12
  <2>4. ChildMade(ms, nodes, b, m)
    BY <2>1, <2>2, <2>3, ChildSays
  <2>5. QED
    BY <2>4 DEF ChildMade
<1>19. Given(nodes, ms, b, m)
  <2>1. m # UnitBlock /\ m \in 1 .. Len(nodes)
    BY <1>5, <1>8, <1>9 DEF UnitBlock
  <2>2. QED
    BY <1>8, <1>12, <1>14, <1>15, <1>16, <1>18, <2>1 DEF Given
<1>20. ArenaOK(ms)
  BY <1>19, GivenArena
<1>21. ASSUME NEW k \in 1 .. Depth - 1, NEW f, f = stack[k]
       PROVE  OfTree(ms, f)
  <2>1. Waits(nodes, f, top)
    BY <1>1, <1>3, <1>21, WaitsFor
  <2>2. m > top.mark[2] /\ m \in Nat /\ top.fn = "jump"
    BY <1>3, <1>8, <1>9
  <2>3. QED
    BY <1>19, <2>1, <2>2, WaitsGiven
<1>22. Tree'
  <2>1. \A k \in 1 .. Depth - 1 : \A f \in {stack[k]} : OfTree(nodes', f)
    BY <1>17, <1>21
  <2>2. PICK v : v = "true"
    OBVIOUS
  <2>3. Return(v) /\ Fills(nodes', top)
    BY <1>3, <2>2 DEF JumpDone, Fills
  <2>4. QED
    BY <1>1, <1>3, <1>5, <2>1, <2>3, TreeReturned
<1>23. QED
  BY <1>17, <1>20, <1>22

(* A body has one more statement.                                          *)
LEMMA JumpCalledTree ==
  ASSUME Parse, Tree, ArenaOK(nodes), stack # << >>, NEW top, top = Top, top.fn = "compound",
         nodes' = nodes, cur' = cur, NEW at \in {"first", "more"}, NEW made, Len(made) = 1,
         NEW inner \in 1 .. Len(nodes), made[1] = inner, top.expr = inner,
         NEW me, Moves(me, top, at, made),
         NEW c, c = [Frame("jump", inner, FALSE, 0) EXCEPT !.mark = <<cur', Len(nodes')>>],
         stack' = Front(stack) \o <<me, c>>, ret' = NoRet
  PROVE  Tree' /\ ArenaOK(nodes')
<1>1. top.fn \in StmtFns \cup DeclFns
  BY DEF StmtFns
<1>2. /\ OfTree(nodes, top) /\ Len(nodes) \in Nat
      /\ top.mark[2] \in Nat /\ top.mark[2] >= 2 /\ top.mark[2] <= Len(nodes)
      /\ top.expr \in Nat /\ top.expr <= top.mark[2]
  BY <1>1, OtherTop
<1>3. Begins(c, "jump", inner, <<cur', Len(nodes')>>)
  <2>1. /\ cur' \in Nat /\ Len(nodes') \in Nat /\ FALSE \in BOOLEAN /\ "jump" \in Fns /\ 0 \in Int
        /\ inner \in Nat
    BY <1>2 DEF Fns, Parse, Types
  <2>2. QED
    BY <2>1, FrameCalled, Zenon
<1>4. /\ me.fn = "compound" /\ me.at \in {"first", "more"} /\ me.made = made /\ me.mark = top.mark
      /\ me.expr = inner /\ me \in Frames
      /\ c.fn = "jump" /\ c.expr = inner /\ c \in Frames /\ ~InExpr(c)
  BY <1>3 DEF Moves, Begins, InExpr, ExprFns
<1>5. Goes(me, c) /\ Asks(me, c)
  BY <1>4 DEF Goes, Asks, DeclFns, InExpr, ExprFns
<1>6. OfTree(nodes, me)
  <2>1. \A d \in DOMAIN me.made : me.made[d] \in 1 .. Len(nodes)
    <3>1. DOMAIN me.made = 1 .. Len(me.made)
      BY <1>4, FrameFields
    <3>2. QED
      BY <1>4, <3>1
  <2>2. OfAll(nodes, me)
    BY <1>2, <1>4, <2>1 DEF OfAll, Removable, Failing, Passing
  <2>3. OfExpr(nodes, me) /\ OfDecl(nodes, me)
    BY <1>4 DEF OfExpr, Parts, OfDecl, InExpr, ExprFns
  <2>4. OfStmt(nodes, me)
    BY <1>4 DEF OfStmt
  <2>5. QED
    BY <2>2, <2>3, <2>4 DEF OfTree
<1>7. OfTree(nodes, c)
  <2>1. Len(nodes) >= 2 /\ inner <= Len(nodes) /\ Begins(c, "jump", inner, <<cur', Len(nodes)>>)
    BY <1>2, <1>3
  <2>2. QED
    BY <1>2, <1>4, <2>1, CalleeTree
<1>8. QED
  BY <1>3, <1>5, <1>6, <1>7, SameCalled

(* A body begins with a brace.                                             *)
LEMMA CompoundEnterTree ==
  ASSUME Parse, Tree, ArenaOK(nodes), CompoundEnter
  PROVE  Tree' /\ ArenaOK(nodes')
<1>1. PICK top : top = Top
  OBVIOUS
<1>2. At("compound", "enter") /\ nodes' = nodes
  BY DEF CompoundEnter
<1>3. stack # << >> /\ top.fn = "compound" /\ top.at = "enter" /\ top \in Frames
  BY <1>1, <1>2, AtPlace
<1>4. top.fn \in StmtFns \cup DeclFns
  BY <1>3 DEF StmtFns
<1>5. top.fn # "external" /\ OfTree(nodes, top)
  BY <1>1, <1>3, <1>4, OtherTop
<1>6. CASE Tok = "{"
  <2>1. PICK me : me = [top EXCEPT !.at = "open"]
    OBVIOUS
  <2>2. Continue(me)
    BY <1>1, <1>6, <2>1 DEF CompoundEnter
  <2>3. Moves(me, top, "open", top.made)
    <3>1. "open" \in Places
      BY DEF Places
    <3>2. QED
      BY <1>3, <2>1, <3>1, FrameMoved, Zenon
  <2>4. OfTree(nodes', me)
    <3>1. /\ me.fn = "compound" /\ me.at = "open" /\ me.made = top.made /\ me.mark = top.mark
          /\ me.expr = top.expr
      BY <1>3, <2>3 DEF Moves
    <3>2. OfAll(nodes, me)
      BY <1>5, <3>1 DEF OfTree, OfAll, Removable, Failing, Passing
    <3>3. OfExpr(nodes, me) /\ OfDecl(nodes, me)
      BY <3>1 DEF OfExpr, Parts, OfDecl, InExpr, ExprFns
    <3>4. OfStmt(nodes, me)
      BY <1>3, <1>5, <3>1 DEF OfTree, OfStmt
    <3>5. QED
      BY <1>2, <3>2, <3>3, <3>4 DEF OfTree
  <2>5. Grows(top, nodes, nodes')
    BY <1>2, GrowsSame
  <2>6. QED
    BY <1>1, <1>3, <2>2, <2>3, <2>4, <2>5, GrowsOn
<1>7. CASE Tok # "{"
  <2>1. Return("false")
    BY <1>7 DEF CompoundEnter
  <2>2. QED
    BY <1>1, <1>2, <1>3, <1>5, <2>1, PlainTree
<1>8. QED
  BY <1>6, <1>7

(* Its first statement goes into the block that it was given.              *)
LEMMA CompoundListTree ==
  ASSUME Parse, Tree, ArenaOK(nodes), CompoundList
  PROVE  Tree' /\ ArenaOK(nodes')
<1>1. PICK top : top = Top
  OBVIOUS
<1>2. At("compound", "open") /\ cur' = cur
  BY DEF CompoundList, Stay
<1>3. stack # << >> /\ top.fn = "compound" /\ top.at = "open" /\ top \in Frames
  BY <1>1, <1>2, AtPlace
<1>4. top.fn \in StmtFns \cup DeclFns /\ top.fn \in StmtFns
  BY <1>3 DEF StmtFns
<1>5. top.fn # "external" /\ OfTree(nodes, top)
  BY <1>1, <1>3, <1>4, OtherTop
<1>6. PICK inner \in 1 .. Len(nodes) : inner = top.expr
  BY <1>1, <1>3, <1>4, <1>5, OfExternal
<1>7. nodes[inner] = Block
  BY <1>3, <1>5, <1>6 DEF OfTree, OfStmt
<1>8. Opened(inner) = nodes /\ PlaceIn(inner) = inner
  BY <1>7 DEF Opened, PlaceIn
<1>9. inner \in Nat
  <2>1. Len(nodes) \in Nat
    BY <1>1, <1>3, <1>4, OtherTop
  <2>2. QED
    BY <2>1
<1>10. PICK made : made = <<inner>>
  OBVIOUS
<1>11. made \in Seq(Nat) /\ Len(made) = 1 /\ made[1] = inner
  BY <1>9, <1>10, SeqOne
<1>12. PICK me : me = [top EXCEPT !.at = "first", !.made = made]
  OBVIOUS
<1>13. Moves(me, top, "first", made)
  <2>1. "first" \in Places
    BY DEF Places
  <2>2. QED
    BY <1>3, <1>11, <1>12, <2>1, FrameMoved, Zenon
<1>14. PICK c : c = [Frame("jump", inner, FALSE, 0) EXCEPT !.mark = <<cur', Len(nodes')>>]
  OBVIOUS
<1>15. nodes' = nodes /\ stack' = Front(stack) \o <<me, c>> /\ ret' = NoRet
  <2>1. Top.expr = inner
    BY <1>1, <1>6
  <2>2. QED
    BY <1>1, <1>8, <1>10, <1>12, <1>14, <2>1 DEF CompoundList, Call
<1>16. QED
  BY <1>1, <1>2, <1>3, <1>6, <1>11, <1>13, <1>14, <1>15, JumpCalledTree

(* So do those that follow.                                                *)
LEMMA CompoundMoreTree ==
  ASSUME Parse, Tree, ArenaOK(nodes), CompoundMore
  PROVE  Tree' /\ ArenaOK(nodes')
<1>1. PICK top : top = Top
  OBVIOUS
<1>2. PICK place \in {"first", "more"} : At("compound", place)
  BY DEF CompoundMore
<1>3. stack # << >> /\ top.fn = "compound" /\ top.at = place /\ top \in Frames
  BY <1>1, <1>2, AtPlace
<1>4. top.fn \in StmtFns \cup DeclFns /\ top.fn \in StmtFns
  BY <1>3 DEF StmtFns
<1>5. top.fn # "external" /\ OfTree(nodes, top)
  BY <1>1, <1>3, <1>4, OtherTop
<1>6. PICK inner \in 1 .. Len(nodes) : inner = top.expr
  BY <1>1, <1>3, <1>4, <1>5, OfExternal
<1>7. Len(top.made) = 1 /\ top.made[1] = inner
  BY <1>3, <1>5, <1>6 DEF OfTree, OfStmt
<1>8. PICK me : me = [top EXCEPT !.at = "more"]
  OBVIOUS
<1>9. Moves(me, top, "more", top.made)
  <2>1. "more" \in Places
    BY DEF Places
  <2>2. QED
    BY <1>3, <1>8, <2>1, FrameMoved, Zenon
<1>10. PICK c : c = [Frame("jump", inner, FALSE, 0) EXCEPT !.mark = <<cur', Len(nodes')>>]
  OBVIOUS
<1>11. nodes' = nodes /\ cur' = cur /\ stack' = Front(stack) \o <<me, c>> /\ ret' = NoRet
  BY <1>1, <1>7, <1>8, <1>10 DEF CompoundMore, Call, Stay
<1>12. QED
  BY <1>1, <1>3, <1>6, <1>7, <1>9, <1>10, <1>11, JumpCalledTree, ZenonT(40)

(* A statement.                                                            *)
LEMMA StatementTree ==
  ASSUME Parse, Tree, ArenaOK(nodes), Statement
  PROVE  TreeKept
<1>1. ASSUME JumpAbort \/ CompoundAbort
      PROVE  TreeKept
  BY <1>1, GiveTree DEF JumpAbort, CompoundAbort, Abort
<1>2. ASSUME CompoundEmpty \/ CompoundClose
      PROVE  Tree' /\ ArenaOK(nodes')
  <2>1. PICK top : top = Top
    OBVIOUS
  <2>2. PICK place \in {"open", "more"} : At("compound", place)
    BY <1>2 DEF CompoundEmpty, CompoundClose
  <2>3. stack # << >> /\ top.fn = "compound"
    BY <2>1, <2>2, AtPlace
  <2>4. PICK v : v = "true"
    OBVIOUS
  <2>5. nodes' = nodes /\ Return(v) /\ top.fn # "external" /\ Fills(nodes, top)
    BY <1>2, <2>3, <2>4 DEF CompoundEmpty, CompoundClose, Fills
  <2>6. QED
    BY <2>1, <2>3, <2>5, PlainTree
<1>3. QED
  BY <1>1, <1>2, JumpEnterTree, JumpValueTree, JumpDoneTree, CompoundEnterTree, CompoundListTree,
     CompoundMoreTree DEF Statement, TreeKept

===============================================================================
