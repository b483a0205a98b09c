---------------------------- MODULE CcSourceProofs ----------------------------
(***************************************************************************)
(* Proofs about declarations and the whole front end, for every source:    *)
(* the arena is well formed until its blocks are coalesced, references     *)
(* stay in it, and what the emitter is given has the shapes that it is     *)
(* modelled for.                                                           *)
(***************************************************************************)
EXTENDS CcTreeProofs

-----------------------------------------------------------------------------
(* Declarations                                                            *)

(* The type that a variable has.                                           *)
LEMMA TypeOfVar ==
  ASSUME NEW ns, ArenaOK(ns), NEW e, e >= 1, e \in Nat, e <= Len(ns), ns[e].type = "NEW_VAR"
  PROVE  /\ e \in 1 .. Len(ns) /\ IsNode(ns[e]) /\ ns[e].kids[1] \in 1 .. Len(ns) /\ ns[e].kids[1] # UnitBlock
         /\ ns[e].kids[1] < e /\ ns[e].kids[1] \in Nat /\ ns[ns[e].kids[1]].type = "NEW_TYPE"
<1>1. Len(ns) \in Nat
  BY SeqDomain DEF ArenaOK
<1>2. e \in 1 .. Len(ns)
  BY <1>1
<1>3. NodeOK(ns, e) /\ ns[e].type \in Branches
  BY <1>2 DEF ArenaOK, Branches
<1>4. /\ Len(ns[e].kids) >= 1 /\ ns[e].kids[1] < e /\ ns[ns[e].kids[1]].type = "NEW_TYPE"
      /\ Formed(ns, e)
  BY <1>3 DEF NodeOK, BranchOK
<1>5. ns[e].kids[1] \in Kids(ns, e)
  BY <1>4, KidsOf
<1>6. QED
  BY <1>1, <1>2, <1>4, <1>5 DEF Formed

(* A declarator goes on.                                                   *)
LEMMA DeclaratorOn ==
  ASSUME NEW ns, NEW ms, NEW top, OfTree(ns, top), top.fn = "declarator",
         Len(ns) \in Nat, Len(ms) \in Nat, Len(ns) <= Len(ms), top.mark[2] \in Nat,
         DOMAIN top.made = 1 .. Len(top.made),
         NEW at, NEW me, Moves(me, top, at, top.made), ms[top.expr].type = "NEW_VAR",
         at \in {"enter", "name"} => Kids(ms, ms[top.expr].kids[1]) = {}
  PROVE  OfTree(ms, me)
<1>1. /\ me.fn = "declarator" /\ me.at = at /\ me.made = top.made /\ me.mark = top.mark
      /\ me.expr = top.expr
  BY DEF Moves
<1>2. OfAll(ms, me)
  BY <1>1 DEF OfTree, OfAll, Removable, Failing, Passing
<1>3. OfExpr(ms, me) /\ OfStmt(ms, me)
  BY <1>1 DEF OfExpr, Parts, OfStmt, InExpr, ExprFns
<1>4. OfDecl(ms, me)
  BY <1>1 DEF OfTree, OfDecl
<1>5. QED
  BY <1>2, <1>3, <1>4 DEF OfTree

(* The innermost activation, if it is a declarator.                        *)
LEMMA DeclaratorTop ==
  ASSUME Parse, Tree, ArenaOK(nodes), NEW place, At("declarator", place), NEW top, top = Top
  PROVE  /\ stack # << >> /\ top.fn = "declarator" /\ top.at = place /\ top \in Frames
         /\ top.fn # "external" /\ ~InExpr(top) /\ OfTree(nodes, top) /\ IsSeq(nodes)
         /\ top.mark[2] \in Nat /\ top.mark[2] <= Len(nodes) /\ Len(nodes) \in Nat /\ Len(nodes) >= 2
         /\ top.expr \in Nat /\ top.expr >= 1 /\ top.expr <= Len(nodes) /\ cur \in Nat
         /\ DOMAIN top.made = 1 .. Len(top.made)
         /\ top.expr \in 1 .. Len(nodes) /\ nodes[top.expr].type = "NEW_VAR"
         /\ place \in {"enter", "name"} => Kids(nodes, nodes[top.expr].kids[1]) = {}
<1>1. /\ stack # << >> /\ top.fn = "declarator" /\ top.at = place /\ top \in Frames /\ IsSeq(nodes)
      /\ cur \in Nat
  BY AtPlace
<1>2. top.fn \in StmtFns \cup DeclFns
  BY <1>1 DEF DeclFns
<1>3. /\ top.fn # "external" /\ ~InExpr(top) /\ OfTree(nodes, top)
      /\ top.mark[2] \in Nat /\ top.mark[2] <= Len(nodes) /\ Len(nodes) \in Nat /\ top.mark[2] >= 2
      /\ top.expr \in Nat /\ top.expr <= top.mark[2] /\ DOMAIN top.made = 1 .. Len(top.made)
  BY <1>1, <1>2, OtherTop
<1>4. /\ top.expr >= 1 /\ nodes[top.expr].type = "NEW_VAR"
      /\ place \in {"enter", "name"} => Kids(nodes, nodes[top.expr].kids[1]) = {}
  BY <1>1, <1>3 DEF OfTree, OfDecl
<1>5. top.expr <= Len(nodes) /\ Len(nodes) >= 2
  BY <1>3
<1>6. QED
  BY <1>1, <1>3, <1>4, <1>5

(* A declarator takes the name of its variable.                            *)
LEMMA DeclaratorNameTree ==
  ASSUME Parse, Tree, ArenaOK(nodes), DeclaratorName
  PROVE  Tree' /\ ArenaOK(nodes')
<1>1. PICK top : top = Top
  OBVIOUS
<1>2. At("declarator", "enter") /\ cur' = cur + 1
  BY DEF DeclaratorName, Consume
<1>3. /\ stack # << >> /\ top.fn = "declarator" /\ top \in Frames /\ top.fn # "external" /\ IsSeq(nodes)
      /\ OfTree(nodes, top) /\ top.mark[2] \in Nat /\ Len(nodes) \in Nat /\ Len(nodes) >= 2
      /\ DOMAIN top.made = 1 .. Len(top.made)
      /\ top.expr \in 1 .. Len(nodes) /\ nodes[top.expr].type = "NEW_VAR"
      /\ Kids(nodes, nodes[top.expr].kids[1]) = {}
  BY <1>1, <1>2, DeclaratorTop
<1>4. PICK e : e = top.expr
  OBVIOUS
<1>5. PICK told : told = cur'
  OBVIOUS
<1>6. PICK ms : ms = nodes'
  OBVIOUS
<1>7. PICK new : new = [nodes[e] EXCEPT !.name = told]
  OBVIOUS
<1>8. ms = [nodes EXCEPT ![e] = new]
  BY <1>1, <1>2, <1>4, <1>5, <1>6, <1>7 DEF DeclaratorName
<1>9. SameBut(ms, nodes, e)
  BY <1>3, <1>8, SeqExcept, Zenon
<1>10. e \in DOMAIN nodes /\ e \in 1 .. Len(nodes)
  BY <1>3, <1>4, SeqDomain
<1>11. ms[e] = new
  BY <1>8, <1>10
<1>12. new.type = nodes[e].type /\ new.kids = nodes[e].kids /\ IsNode(new)
  <2>1. IsNode(nodes[e])
    BY <1>10 DEF ArenaOK, NodeOK, Formed
  <2>2. PICK type, kids, name, func : nodes[e] = [type |-> type, kids |-> kids, name |-> name, func |-> func]
    BY <2>1, Zenon DEF IsNode
  <2>3. PICK old : old = nodes[e]
    OBVIOUS
  <2>4. old = [type |-> type, kids |-> kids, name |-> name, func |-> func]
    BY <2>2, <2>3, Zenon
  <2>5. new = [old EXCEPT !.name = told]
    BY <1>7, <2>3, Zenon
  <2>6. new = [type |-> type, kids |-> kids, name |-> told, func |-> func]
    BY <2>4, <2>5
  <2>7. IsNode(new) /\ new.type = type /\ new.kids = kids
    BY <2>6 DEF IsNode
  <2>8. old.type = type /\ old.kids = kids
    BY <2>4
  <2>9. QED
    BY <2>3, <2>7, <2>8, Zenon
<1>13. SameNode(nodes, ms, e)
  <2>1. nodes[e].type # "BLOCK"
    BY <1>3, <1>4
  <2>2. nodes[e] # Block /\ ms[e] # Block
    BY <1>11, <1>12, <2>1 DEF Block, Node
  <2>3. QED
    BY <1>11, <1>12, <2>2 DEF SameNode
<1>14. \A n \in 1 .. Len(nodes) : SameNode(nodes, ms, n)
  BY <1>9, <1>13 DEF SameNode, SameBut
<1>15. IsSeq(ms) /\ Len(ms) = Len(nodes) /\ Len(nodes) + 1 .. Len(ms) = {}
  BY <1>3, <1>9 DEF SameBut
<1>16. Grows(top, nodes, ms)
  BY <1>3, <1>14, <1>15 DEF Grows
<1>17. PICK me : me = [top EXCEPT !.at = "name"]
  OBVIOUS
<1>18. Continue(me)
  BY <1>1, <1>17 DEF DeclaratorName
<1>19. Moves(me, top, "name", top.made)
  <2>1. "name" \in Places
    BY DEF Places
  <2>2. QED
    BY <1>3, <1>17, <2>1, FrameMoved, Zenon
<1>20. OfTree(ms, me)
  <2>1. ms[e].type = "NEW_VAR" /\ ms[e].kids = nodes[e].kids
    BY <1>3, <1>4, <1>11, <1>12
  <2>2. nodes[e].kids[1] \in 1 .. Len(nodes)
    <3>1. e >= 1 /\ e \in Nat /\ e <= Len(nodes) /\ nodes[e].type = "NEW_VAR"
      BY <1>3, <1>4
    <3>2. QED
      BY <3>1, TypeOfVar
  <2>3. Kids(ms, ms[e].kids[1]) = {}
    <3>1. PICK t \in 1 .. Len(nodes) : t = nodes[e].kids[1]
      BY <2>2
    <3>2. ms[e].kids[1] = t
      BY <2>1, <3>1
    <3>3. Kids(nodes, t) = {}
      BY <1>3, <1>4, <3>1, Zenon
    <3>4. Kids(ms, t) = Kids(nodes, t)
      <4>1. SameNode(nodes, ms, t)
        BY <1>14, <3>1
      <4>2. ms[t].kids = nodes[t].kids
        BY <4>1 DEF SameNode
      <4>3. QED
        BY <4>2, Zenon DEF Kids
    <3>5. QED
      BY <3>2, <3>3, <3>4
  <2>4. Len(ms) \in Nat /\ Len(nodes) <= Len(ms)
    BY <1>3, <1>15
  <2>5. ms[top.expr].type = "NEW_VAR" /\ Kids(ms, ms[top.expr].kids[1]) = {}
    BY <1>4, <2>1, <2>3
  <2>6. QED
    BY <1>3, <1>19, <2>4, <2>5, DeclaratorOn
<1>21. Grows(top, nodes, nodes') /\ OfTree(nodes', me)
  BY <1>6, <1>16, <1>20
<1>22. QED
  BY <1>1, <1>3, <1>18, <1>19, <1>21, GrowsOn

(* A call of a declarator that leaves the arena as it is.                  *)
LEMMA DeclaratorCalls ==
  ASSUME Parse, Tree, ArenaOK(nodes), NEW place, At("declarator", place), NEW top, top = Top,
         nodes' = nodes, cur' = cur + 1, NEW at \in {"params", "paren"}, NEW me, Moves(me, top, at, top.made),
         NEW fn \in {"parameter", "declarator"}, NEW c, Begins(c, fn, top.expr, <<cur', Len(nodes')>>),
         fn = "declarator" => place = "enter",
         stack' = Front(stack) \o <<me, c>>, ret' = NoRet
  PROVE  Tree' /\ ArenaOK(nodes')
<1>1. /\ stack # << >> /\ top.fn = "declarator" /\ top \in Frames /\ top.fn # "external"
      /\ OfTree(nodes, top) /\ top.mark[2] \in Nat /\ Len(nodes) \in Nat /\ Len(nodes) >= 2
      /\ top.expr \in Nat /\ top.expr >= 1 /\ top.expr <= Len(nodes)
      /\ DOMAIN top.made = 1 .. Len(top.made) /\ nodes[top.expr].type = "NEW_VAR"
      /\ place = "enter" => Kids(nodes, nodes[top.expr].kids[1]) = {}
  BY DeclaratorTop
<1>2. /\ me.fn = "declarator" /\ me.at = at /\ c.fn = fn /\ c \in Frames
  BY <1>1 DEF Moves, Begins
<1>3. Goes(me, c) /\ Asks(me, c)
  BY <1>2 DEF Goes, Asks, DeclFns, InExpr, ExprFns
<1>4. OfTree(nodes, me)
  <2>1. Len(nodes) <= Len(nodes) /\ at \notin {"enter", "name"}
    BY <1>1
  <2>2. QED
    BY <1>1, <2>1, DeclaratorOn
<1>5. OfTree(nodes, c)
  <2>1. Begins(c, fn, top.expr, <<cur', Len(nodes)>>) /\ ~InExpr(c)
    BY <1>2 DEF InExpr, ExprFns
  <2>2. fn # "external" /\ fn # "binop" /\ fn # "compound"
    OBVIOUS
  <2>3. fn = "declarator" => Kids(nodes, nodes[top.expr].kids[1]) = {}
    BY <1>1
  <2>4. QED
    BY <1>1, <1>2, <2>1, <2>2, <2>3, CalleeTree
<1>6. QED
  BY <1>1, <1>3, <1>4, <1>5, SameCalled

(* One more parameter.                                                     *)
LEMMA DeclaratorNextTree ==
  ASSUME Parse, Tree, ArenaOK(nodes), DeclaratorNext
  PROVE  Tree' /\ ArenaOK(nodes')
<1>1. PICK top : top = Top
  OBVIOUS
<1>2. At("declarator", "params") /\ nodes' = nodes /\ cur' = cur + 1
  BY DEF DeclaratorNext, Consume
<1>3. top.at = "params" /\ top \in Frames /\ top.expr \in Nat /\ cur \in Nat /\ Len(nodes) \in Nat
  BY <1>1, <1>2, DeclaratorTop
<1>4. PICK expr \in Nat : expr = top.expr
  BY <1>3
<1>5. PICK c : c = [Frame("parameter", expr, FALSE, 0) EXCEPT !.mark = <<cur', Len(nodes')>>]
  OBVIOUS
<1>6. Begins(c, "parameter", top.expr, <<cur', Len(nodes')>>)
  <2>1. FALSE \in BOOLEAN /\ 0 \in Int /\ "parameter" \in Fns /\ cur' \in Nat /\ Len(nodes') \in Nat
    BY <1>2, <1>3 DEF Fns
  <2>2. Begins(c, "parameter", expr, <<cur', Len(nodes')>>)
    BY <1>4, <1>5, <2>1, FrameCalled, Zenon
  <2>3. QED
    BY <1>4, <2>2
<1>7. stack' = Front(stack) \o <<top, c>> /\ ret' = NoRet
  BY <1>1, <1>4, <1>5 DEF DeclaratorNext, Call
<1>8. Moves(top, top, "params", top.made)
  BY <1>3 DEF Moves
<1>9. QED
  BY <1>1, <1>2, <1>6, <1>7, <1>8, DeclaratorCalls

(* A declarator in parentheses.                                            *)
LEMMA DeclaratorParenTree ==
  ASSUME Parse, Tree, ArenaOK(nodes), DeclaratorParen
  PROVE  Tree' /\ ArenaOK(nodes')
<1>1. PICK top : top = Top
  OBVIOUS
<1>2. At("declarator", "enter") /\ nodes' = nodes /\ cur' = cur + 1
  BY DEF DeclaratorParen, Consume
<1>3. top \in Frames /\ top.expr \in Nat /\ cur \in Nat /\ Len(nodes) \in Nat
  BY <1>1, <1>2, DeclaratorTop
<1>4. PICK expr \in Nat : expr = top.expr
  BY <1>3
<1>5. PICK c : c = [Frame("declarator", expr, FALSE, 0) EXCEPT !.mark = <<cur', Len(nodes')>>]
  OBVIOUS
<1>6. Begins(c, "declarator", top.expr, <<cur', Len(nodes')>>)
  <2>1. FALSE \in BOOLEAN /\ 0 \in Int /\ "declarator" \in Fns /\ cur' \in Nat /\ Len(nodes') \in Nat
    BY <1>2, <1>3 DEF Fns
  <2>2. Begins(c, "declarator", expr, <<cur', Len(nodes')>>)
    BY <1>4, <1>5, <2>1, FrameCalled, Zenon
  <2>3. QED
    BY <1>4, <2>2
<1>7. PICK me : me = [top EXCEPT !.at = "paren"]
  OBVIOUS
<1>8. stack' = Front(stack) \o <<me, c>> /\ ret' = NoRet
  BY <1>1, <1>4, <1>5, <1>7 DEF DeclaratorParen, Call
<1>9. Moves(me, top, "paren", top.made)
  <2>1. "paren" \in Places
    BY DEF Places
  <2>2. QED
    BY <1>3, <1>7, <2>1, FrameMoved, Zenon
<1>10. QED
  BY <1>1, <1>2, <1>6, <1>8, <1>9, DeclaratorCalls

(* A function's type is reset, and what it was is copied.                  *)
LEMMA TypeReset ==
  ASSUME ArenaOK(nodes), Len(nodes) \in Nat, NEW top, top.fn = "declarator",
         NEW type \in 1 .. Len(nodes), nodes[type].type = "NEW_TYPE", Kids(nodes, type) = {},
         NEW ms, ms = Append([nodes EXCEPT ![type] = [Node("NEW_TYPE", << >>) EXCEPT !.func = TRUE]], nodes[type])
  PROVE  Grows(top, nodes, ms)
<1>1. IsSeq(nodes) /\ NodeOK(nodes, type) /\ DOMAIN nodes = 1 .. Len(nodes)
  BY SeqDomain DEF ArenaOK
<1>2. PICK new : new = [Node("NEW_TYPE", << >>) EXCEPT !.func = TRUE]
  OBVIOUS
<1>3. new.type = "NEW_TYPE" /\ new.kids = << >> /\ IsNode(new)
  BY <1>2 DEF Node, IsNode
<1>4. PICK old : old = nodes[type]
  OBVIOUS
<1>5. PICK reset : reset = [nodes EXCEPT ![type] = new]
  OBVIOUS
<1>6. ms = Append(reset, old)
  BY <1>2, <1>4, <1>5, Zenon
<1>7. SameBut(reset, nodes, type)
  BY <1>1, <1>5, SeqExcept, Zenon
<1>8. reset[type] = new
  BY <1>1, <1>5
<1>9. IsSeq(reset) /\ Len(reset) = Len(nodes)
  BY <1>7 DEF SameBut
<1>10. /\ IsSeq(ms) /\ Len(ms) = Len(nodes) + 1
       /\ \A i \in 1 .. Len(nodes) : ms[i] = reset[i]
       /\ ms[Len(nodes) + 1] = old
  <2>1. IsSeq(reset)
    BY <1>9
  <2>2. OneMore(ms, reset, old)
    BY <1>6, <2>1, Appended, Zenon
  <2>3. QED
    BY <1>9, <2>2 DEF OneMore
<1>11. old.type = "NEW_TYPE" /\ old.kids = << >> /\ IsNode(old)
  <2>1. IsSeq(old.kids) /\ IsNode(old) /\ Len(old.kids) = 0
    BY <1>1, <1>4, KidsOf DEF NodeOK, Formed
  <2>2. old.kids = << >>
    BY <2>1, EmptySeq DEF IsSeq
  <2>3. QED
    BY <1>4, <2>1, <2>2
<1>12. SameNode(nodes, ms, type)
  <2>1. ms[type] = new
    BY <1>8, <1>10
  <2>2. new # Block /\ old # Block
    BY <1>3, <1>11 DEF Block, Node
  <2>3. QED
    BY <1>3, <1>4, <1>11, <2>1, <2>2 DEF SameNode
<1>13. \A n \in 1 .. Len(nodes) : SameNode(nodes, ms, n)
  <2>1. \A n \in 1 .. Len(nodes) : n # type => ms[n] = nodes[n]
    BY <1>7, <1>10 DEF SameBut
  <2>2. QED
    BY <1>12, <2>1 DEF SameNode
<1>14. ASSUME NEW n \in Len(nodes) + 1 .. Len(ms)
       PROVE  NodeOK(ms, n) /\ Kids(ms, n) = {} /\ ms[n].type # "NEW_VAR"
  <2>1. n = Len(nodes) + 1
    BY <1>10, <1>14
  <2>2. ms[n] = old
    BY <1>10, <2>1
  <2>3. QED
    BY <1>11, <2>2, NewNode
<1>15. Len(nodes) <= Len(ms)
  BY <1>10
<1>16. QED
  BY <1>10, <1>13, <1>14, <1>15 DEF Grows

(* A name with parameters.                                                 *)
LEMMA DeclaratorParamsTree ==
  ASSUME Parse, Tree, ArenaOK(nodes), DeclaratorParams
  PROVE  Tree' /\ ArenaOK(nodes')
<1>1. PICK top : top = Top
  OBVIOUS
<1>2. At("declarator", "name") /\ cur' = cur + 1
  BY DEF DeclaratorParams, Consume
<1>3. /\ stack # << >> /\ top.fn = "declarator" /\ top \in Frames /\ top.fn # "external"
      /\ OfTree(nodes, top) /\ top.mark[2] \in Nat /\ Len(nodes) \in Nat /\ Len(nodes) >= 2
      /\ top.expr \in Nat /\ top.expr >= 1 /\ top.expr <= Len(nodes) /\ cur \in Nat
      /\ DOMAIN top.made = 1 .. Len(top.made) /\ nodes[top.expr].type = "NEW_VAR"
      /\ Kids(nodes, nodes[top.expr].kids[1]) = {}
      /\ top.expr \in 1 .. Len(nodes)
  BY <1>1, <1>2, DeclaratorTop
<1>4. PICK type : type = TypeOf(top.expr)
  OBVIOUS
<1>5. type \in 1 .. Len(nodes) /\ nodes[type].type = "NEW_TYPE" /\ Kids(nodes, type) = {}
  BY <1>3, <1>4, TypeOfVar DEF TypeOf
<1>6. PICK ms : ms = nodes'
  OBVIOUS
<1>7. ms = Append([nodes EXCEPT ![type] = [Node("NEW_TYPE", << >>) EXCEPT !.func = TRUE]], nodes[type])
  BY <1>1, <1>4, <1>6 DEF DeclaratorParams
<1>8. Grows(top, nodes, ms)
  BY <1>3, <1>5, <1>7, TypeReset
<1>9. ArenaOK(ms) /\ Len(ms) \in Nat /\ Len(nodes) <= Len(ms)
  BY <1>8, GrowsArena DEF Grows
<1>10. ms[top.expr].type = "NEW_VAR"
  BY <1>3, <1>8 DEF Grows, SameNode
<1>11. PICK me : me = [top EXCEPT !.at = "params"]
  OBVIOUS
<1>12. Moves(me, top, "params", top.made)
  <2>1. "params" \in Places
    BY DEF Places
  <2>2. QED
    BY <1>3, <1>11, <2>1, FrameMoved, Zenon
<1>13. PICK expr \in Nat : expr = top.expr
  BY <1>3
<1>14. PICK c : c = [Frame("parameter", expr, FALSE, 0) EXCEPT !.mark = <<cur', Len(nodes')>>]
  OBVIOUS
<1>15. Begins(c, "parameter", expr, <<cur', Len(nodes')>>)
  <2>1. FALSE \in BOOLEAN /\ 0 \in Int /\ "parameter" \in Fns /\ cur' \in Nat /\ Len(nodes') \in Nat
    BY <1>2, <1>3, <1>6, <1>9 DEF Fns
  <2>2. QED
    BY <1>14, <2>1, FrameCalled, Zenon
<1>16. stack' = Front(stack) \o <<me, c>> /\ ret' = NoRet
  BY <1>1, <1>11, <1>13, <1>14 DEF DeclaratorParams, Call
<1>17. /\ me.fn = "declarator" /\ me.at = "params" /\ me \in Frames
       /\ c.fn = "parameter" /\ c \in Frames /\ c.mark[2] = Len(nodes') /\ ~InExpr(c)
  BY <1>3, <1>12, <1>15 DEF Moves, Begins, InExpr, ExprFns
<1>18. Goes(me, c) /\ Asks(me, c)
  BY <1>17 DEF Goes, Asks, DeclFns, InExpr, ExprFns
<1>19. HandsOn(top, me, c)
  BY <1>12, <1>18 DEF HandsOn, Moves
<1>20. OfTree(ms, me)
  <2>1. "params" \notin {"enter", "name"}
    OBVIOUS
  <2>2. QED
    BY <1>3, <1>9, <1>10, <1>12, <2>1, DeclaratorOn
<1>21. OfTree(ms, c)
  <2>1. Begins(c, "parameter", expr, <<cur', Len(ms)>>) /\ expr <= Len(ms) /\ expr >= 1 /\ Len(ms) >= 2
    BY <1>3, <1>6, <1>9, <1>13, <1>15
  <2>2. ms[expr].type = "NEW_VAR"
    BY <1>10, <1>13
  <2>3. QED
    BY <1>9, <1>17, <2>1, <2>2, CalleeTree
<1>22. Grows(top, nodes, nodes') /\ OfTree(nodes', me) /\ OfTree(nodes', c)
  BY <1>6, <1>8, <1>20, <1>21
<1>23. QED
  BY <1>1, <1>3, <1>16, <1>17, <1>19, <1>22, TreeCalled

(* The specifiers.                                                         *)
LEMMA SpecifiersTurnTree ==
  ASSUME Parse, Tree, ArenaOK(nodes), SpecifiersTurn
  PROVE  Tree' /\ ArenaOK(nodes')
<1>1. PICK top : top = Top
  OBVIOUS
<1>2. PICK place \in {"enter", "more"} : At("specifiers", place)
  BY DEF SpecifiersTurn
<1>3. nodes' = nodes
  BY DEF SpecifiersTurn
<1>4. stack # << >> /\ top.fn = "specifiers" /\ top.at = place /\ top \in Frames
  BY <1>1, <1>2, AtPlace
<1>5. top.fn \in StmtFns \cup DeclFns
  BY <1>4 DEF DeclFns
<1>6. top.fn # "external" /\ OfTree(nodes, top)
  BY <1>1, <1>4, <1>5, OtherTop
<1>7. CASE Tok \in Specifiers
  <2>1. PICK me : me = [top EXCEPT !.at = "more"]
    OBVIOUS
  <2>2. Continue(me)
    BY <1>1, <1>7, <2>1 DEF SpecifiersTurn
  <2>3. Moves(me, top, "more", top.made)
    <3>1. "more" \in Places
      BY DEF Places
    <3>2. QED
      BY <1>4, <2>1, <3>1, FrameMoved, Zenon
  <2>4. OfTree(nodes', me)
    <3>1. /\ me.fn = "specifiers" /\ me.at = "more" /\ me.made = top.made /\ me.mark = top.mark
          /\ me.expr = top.expr
      BY <1>4, <2>3 DEF Moves
    <3>2. OfAll(nodes, me)
      BY <1>6, <3>1 DEF OfTree, OfAll, Removable, Failing, Passing
    <3>3. OfExpr(nodes, me) /\ OfStmt(nodes, me)
      BY <3>1 DEF OfExpr, Parts, OfStmt, InExpr, ExprFns
    <3>4. OfDecl(nodes, me)
      BY <3>1 DEF OfDecl
    <3>5. QED
      BY <1>3, <3>2, <3>3, <3>4 DEF OfTree
  <2>5. Grows(top, nodes, nodes')
    BY <1>3, GrowsSame
  <2>6. QED
    BY <1>1, <1>4, <2>2, <2>3, <2>4, <2>5, GrowsOn
<1>8. CASE Tok \notin Specifiers
  <2>1. PICK v : v = IF top.at = "more" THEN "true" ELSE "false"
    OBVIOUS
  <2>2. Return(v)
    BY <1>1, <1>8, <2>1 DEF SpecifiersTurn
  <2>3. Fills(nodes, top)
    BY <1>4 DEF Fills
  <2>4. QED
    BY <1>1, <1>3, <1>4, <1>6, <2>2, <2>3, PlainTree
<1>9. QED
  BY <1>7, <1>8

(* A declarator that leaves the arena as it is, and says what it is.       *)
LEMMA DeclaratorSaysTree ==
  ASSUME Parse, Tree, ArenaOK(nodes), DeclaratorPlain \/ DeclaratorClose \/ DeclaratorNone
  PROVE  Tree' /\ ArenaOK(nodes')
<1>1. PICK top : top = Top
  OBVIOUS
<1>2. PICK place : At("declarator", place)
  BY DEF DeclaratorPlain, DeclaratorClose, DeclaratorNone
<1>3. stack # << >> /\ top.fn = "declarator" /\ top.fn # "external"
  BY <1>1, <1>2, DeclaratorTop
<1>4. PICK v \in {"true", "false"} : Return(v)
  BY DEF DeclaratorPlain, DeclaratorClose, DeclaratorNone
<1>5. nodes' = nodes /\ Fills(nodes, top)
  BY <1>3 DEF DeclaratorPlain, DeclaratorClose, DeclaratorNone, Fills
<1>6. QED
  BY <1>1, <1>3, <1>4, <1>5, PlainTree

(* A variable that is pushed: of a type, and without a body or with an     *)
(* empty one.                                                              *)
Declaring(ns, n, kids) ==
  /\ n \in 1 .. Len(ns) /\ Len(ns) \in Nat /\ IsNode(ns[n]) /\ ns[n].type = "NEW_VAR"
  /\ IsSeq(kids) /\ Len(kids) = 2 /\ ns[n].kids = kids
  /\ kids[1] \in (1 .. Len(ns)) \ {UnitBlock} /\ kids[1] < n /\ ns[kids[1]].type = "NEW_TYPE"
  /\ \/ kids[2] = NIL
     \/ kids[2] \in (1 .. Len(ns)) \ {UnitBlock} /\ kids[1] <= kids[2] /\ kids[2] < n /\ ns[kids[2]] = Block

(* It is as it should be.                                                  *)
LEMMA NewVar ==
  ASSUME NEW ns, NEW n, NEW kids, Declaring(ns, n, kids)
  PROVE  NodeOK(ns, n) /\ \A m \in Kids(ns, n) : m = kids[1] \/ m = kids[2]
<1>1. /\ n \in 1 .. Len(ns) /\ Len(ns) \in Nat /\ IsNode(ns[n]) /\ ns[n].type = "NEW_VAR"
      /\ IsSeq(kids) /\ Len(kids) = 2 /\ ns[n].kids = kids
      /\ kids[1] \in (1 .. Len(ns)) \ {UnitBlock} /\ kids[1] < n /\ ns[kids[1]].type = "NEW_TYPE"
  BY DEF Declaring
<1>2. \/ kids[2] = NIL
      \/ kids[2] \in (1 .. Len(ns)) \ {UnitBlock} /\ kids[1] <= kids[2] /\ kids[2] < n /\ ns[kids[2]] = Block
  BY DEF Declaring
<1>3. NIL \in (1 .. Len(ns)) \ {UnitBlock}
  BY <1>1 DEF NIL, UnitBlock
<1>4. DOMAIN ns[n].kids = {1, 2} /\ ns[n].type \in Branches /\ IsSeq(ns[n].kids)
  <2>1. DOMAIN kids = 1 .. 2
    BY <1>1, SeqDomain
  <2>2. 1 .. 2 = {1, 2}
    OBVIOUS
  <2>3. QED
    BY <1>1, <2>1, <2>2 DEF Branches
<1>5. \A m \in Kids(ns, n) : m = kids[1] \/ m = kids[2]
  BY <1>1, <1>4 DEF Kids
<1>6. Kids(ns, n) \subseteq (1 .. Len(ns)) \ {UnitBlock}
  BY <1>1, <1>2, <1>3, <1>5
<1>7. Formed(ns, n)
  BY <1>1, <1>4, <1>6 DEF Formed
<1>8. ASSUME ns[kids[2]] = Block PROVE Returns(ns, kids[2])
  <2>1. ns[kids[2]].kids = << >> /\ ns[kids[2]].type = "BLOCK" /\ IsNode(ns[kids[2]])
    BY <1>8, NodesMade DEF Block, Node
  <2>2. Kids(ns, kids[2]) = {}
    BY <2>1, NewNode
  <2>3. QED
    BY <2>1, <2>2 DEF Returns
<1>9. BranchOK(ns, n)
  <2>1. Len(ns[n].kids) >= 1 /\ ns[n].kids[1] < n /\ ns[n].type = "NEW_VAR" /\ Len(ns[n].kids) = 2
        /\ ns[ns[n].kids[1]].type = "NEW_TYPE"
    <3>1. ns[n].kids = kids
      BY <1>1
    <3>2. Len(kids) = 2 /\ Len(kids) >= 1 /\ kids[1] < n /\ ns[kids[1]].type = "NEW_TYPE" /\ ns[n].type = "NEW_VAR"
      BY <1>1
    <3>3. QED
      BY <3>1, <3>2, Zenon
  <2>2. \/ ns[n].kids[2] = NIL
        \/ /\ ns[n].kids[1] <= ns[n].kids[2] /\ ns[n].kids[2] < n
           /\ Returns(ns, ns[n].kids[2])
    BY <1>1, <1>2, <1>8
  <2>3. QED
    BY <2>1, <2>2 DEF BranchOK
<1>10. ListOK(ns, n)
  BY <1>1 DEF ListOK, LeafTypes
<1>11. QED
  BY <1>5, <1>7, <1>9, <1>10 DEF NodeOK

(* A parameter has a type and a variable.                                  *)
LEMMA ParameterPushed ==
  ASSUME ArenaOK(nodes), Len(nodes) \in Nat, NEW top, top.fn = "parameter", top.mark[2] = Len(nodes),
         NEW kids, kids = <<Len(nodes) + 1, NIL>>,
         NEW new, new = <<Node("NEW_TYPE", << >>), Node("NEW_VAR", kids)>>, NEW ms, Extends(ms, nodes, new)
  PROVE  /\ Grows(top, nodes, ms) /\ Len(ms) = Len(nodes) + 2 /\ Kids(ms, Len(nodes) + 1) = {}
         /\ ms[Len(nodes) + 2].type = "NEW_VAR" /\ ms[Len(nodes) + 2].kids[1] = Len(nodes) + 1
<1>1. PICK type : type = Len(nodes) + 1
  OBVIOUS
<1>2. PICK var : var = Len(nodes) + 2
  OBVIOUS
<1>3. Len(nodes) >= 2
  BY DEF ArenaOK
<1>4. IsSeq(kids) /\ Len(kids) = 2 /\ kids[1] = type /\ kids[2] = NIL
  BY <1>1, SeqTwo
<1>5. PICK t : t = Node("NEW_TYPE", << >>)
  OBVIOUS
<1>6. PICK v : v = Node("NEW_VAR", kids)
  OBVIOUS
<1>7. t.type = "NEW_TYPE" /\ t.kids = << >> /\ IsNode(t) /\ v.type = "NEW_VAR" /\ v.kids = kids /\ IsNode(v)
  BY <1>5, <1>6, NodesMade DEF Node
<1>8. IsSeq(new) /\ Len(new) = 2 /\ new[1] = t /\ new[2] = v
  <2>1. new = <<t, v>>
    BY <1>5, <1>6, Zenon
  <2>2. QED
    BY <2>1, SeqTwo
<1>9. Len(ms) = var /\ ms[type] = t /\ ms[var] = v
  BY <1>1, <1>2, <1>8 DEF Extends
<1>10. NodeOK(ms, type) /\ Kids(ms, type) = {}
  BY <1>7, <1>9, NewNode
<1>11. NodeOK(ms, var) /\ \A m \in Kids(ms, var) : m = type \/ m = NIL
  <2>1. /\ var \in 1 .. Len(ms) /\ Len(ms) \in Nat
        /\ type \in (1 .. Len(ms)) \ {UnitBlock} /\ type < var
    BY <1>1, <1>2, <1>3, <1>9 DEF UnitBlock
  <2>2. Declaring(ms, var, kids)
    BY <1>4, <1>7, <1>9, <2>1 DEF Declaring
  <2>3. QED
    BY <1>4, <2>2, NewVar
<1>12. \A i \in 1 .. Len(new) :
         /\ NodeOK(ms, Len(nodes) + i)
         /\ ms[Len(nodes) + i].type = "NEW_VAR" => top.fn \in DeclFns \cup {"external"}
         /\ \A m \in Kids(ms, Len(nodes) + i) : m = NIL \/ m > top.mark[2]
  <2>1. \A i \in 1 .. Len(new) : Len(nodes) + i = type \/ Len(nodes) + i = var
    BY <1>1, <1>2, <1>8, SMTT(30)
  <2>2. type > top.mark[2] /\ top.fn \in DeclFns
    BY <1>1 DEF DeclFns
  <2>3. QED
    BY <1>10, <1>11, <2>1, <2>2
<1>13. Grows(top, nodes, ms)
  BY <1>12, PushGrows, Zenon
<1>14. QED
  BY <1>1, <1>2, <1>4, <1>7, <1>9, <1>10, <1>13

(* A parameter begins.                                                     *)
LEMMA ParameterEnterTree ==
  ASSUME Parse, Tree, ArenaOK(nodes), ParameterEnter
  PROVE  Tree' /\ ArenaOK(nodes')
<1>1. PICK top : top = Top
  OBVIOUS
<1>2. At("parameter", "enter") /\ cur' = cur
  BY DEF ParameterEnter, Stay
<1>3. /\ stack # << >> /\ top.fn = "parameter" /\ top.at = "enter" /\ top \in Frames /\ FrameOK(top)
      /\ Len(nodes) \in Nat /\ IsSeq(nodes) /\ cur \in Nat
  BY <1>1, <1>2, AtPlace
<1>4. top.mark[2] = Len(nodes)
  BY <1>3 DEF FrameOK, Entered
<1>5. top.fn \in StmtFns \cup DeclFns
  BY <1>3 DEF DeclFns
<1>6. /\ OfTree(nodes, top) /\ top.mark[2] >= 2 /\ top.expr \in Nat /\ top.expr <= top.mark[2]
  BY <1>1, <1>3, <1>5, OtherTop
<1>7. top.expr >= 1 /\ nodes[top.expr].type = "NEW_VAR"
  BY <1>3, <1>6 DEF OfTree, OfDecl
<1>8. PICK type \in Nat : type = Len(nodes) + 1
  BY <1>3
<1>9. PICK var \in Nat : var = Len(nodes) + 2
  BY <1>3
<1>10. Fresh = type /\ Fresh + 1 = var
  BY <1>3, <1>8, <1>9 DEF Fresh
<1>11. PICK kids : kids = <<type, NIL>>
  OBVIOUS
<1>12. PICK new : new = <<Node("NEW_TYPE", << >>), Node("NEW_VAR", kids)>>
  OBVIOUS
<1>13. PICK made : made = <<type, var>>
  OBVIOUS
<1>14. made \in Seq(Nat) /\ Len(made) = 2 /\ made[1] = type /\ made[2] = var
  BY <1>13, SeqTwo
<1>15. PICK me : me = [top EXCEPT !.at = "specs", !.made = made]
  OBVIOUS
<1>16. PICK c : c = [Frame("specifiers", var, FALSE, 0) EXCEPT !.mark = <<cur', Len(nodes')>>]
  OBVIOUS
<1>17. Push(new) /\ stack' = Front(stack) \o <<me, c>> /\ ret' = NoRet
  BY <1>1, <1>10, <1>11, <1>12, <1>13, <1>15, <1>16 DEF ParameterEnter, Call
<1>18. Extends(nodes', nodes, new)
  <2>1. IsSeq(new)
    BY <1>12, SeqTwo
  <2>2. QED
    BY <1>3, <1>17, <2>1, Pushed
<1>19. PICK ms : ms = nodes'
  OBVIOUS
<1>20. /\ Grows(top, nodes, ms) /\ Len(ms) = var /\ Kids(ms, type) = {}
       /\ ms[var].type = "NEW_VAR" /\ ms[var].kids[1] = type
  <2>1. kids = <<Len(nodes) + 1, NIL>> /\ Extends(ms, nodes, new)
    BY <1>8, <1>11, <1>18, <1>19
  <2>2. QED
    BY <1>3, <1>4, <1>8, <1>9, <1>12, <2>1, ParameterPushed
<1>21. Moves(me, top, "specs", made)
  <2>1. "specs" \in Places
    BY DEF Places
  <2>2. QED
    BY <1>3, <1>14, <1>15, <2>1, FrameMoved, Zenon
<1>22. Begins(c, "specifiers", var, <<cur', Len(nodes')>>)
  <2>1. FALSE \in BOOLEAN /\ 0 \in Int /\ "specifiers" \in Fns /\ cur' \in Nat /\ Len(nodes') \in Nat
    BY <1>2, <1>3, <1>19, <1>20 DEF Fns
  <2>2. QED
    BY <1>16, <2>1, FrameCalled, Zenon
<1>23. /\ me.fn = "parameter" /\ me.at = "specs" /\ me.made = made /\ me.mark = top.mark /\ me.expr = top.expr
       /\ me \in Frames
       /\ c.fn = "specifiers" /\ c \in Frames /\ c.mark[2] = Len(nodes') /\ ~InExpr(c)
  BY <1>3, <1>21, <1>22 DEF Moves, Begins, InExpr, ExprFns
<1>24. HandsOn(top, me, c)
  <2>1. Goes(me, c) /\ Asks(me, c)
    BY <1>23 DEF Goes, Asks, DeclFns, InExpr, ExprFns
  <2>2. QED
    BY <1>21, <2>1 DEF HandsOn, Moves
<1>25. OfTree(ms, me)
  <2>1. DOMAIN me.made = 1 .. 2
    BY <1>14, <1>23, FrameFields
  <2>2. \A d \in 1 .. 2 : d = 1 \/ d = 2
    OBVIOUS
  <2>3. type \in 1 .. Len(ms) /\ var \in 1 .. Len(ms) /\ top.mark[2] <= Len(ms)
    BY <1>3, <1>4, <1>8, <1>9, <1>20
  <2>4. OfAll(ms, me)
    BY <1>6, <1>14, <1>23, <2>1, <2>2, <2>3 DEF OfAll, Removable, Failing, Passing
  <2>5. OfExpr(ms, me) /\ OfStmt(ms, me)
    BY <1>23 DEF OfExpr, Parts, OfStmt, InExpr, ExprFns
  <2>6. ms[top.expr].type = "NEW_VAR"
    <3>1. top.expr \in 1 .. Len(nodes)
      BY <1>3, <1>4, <1>6, <1>7
    <3>2. QED
      BY <1>7, <1>20, <3>1 DEF Grows, SameNode
  <2>7. type = top.mark[2] + 1 /\ var = top.mark[2] + 2
    BY <1>4, <1>8, <1>9
  <2>8. OfDecl(ms, me)
    BY <1>7, <1>14, <1>20, <1>23, <2>6, <2>7 DEF OfDecl
  <2>9. QED
    BY <2>4, <2>5, <2>8 DEF OfTree
<1>26. OfTree(ms, c)
  <2>1. Begins(c, "specifiers", var, <<cur', Len(ms)>>) /\ var <= Len(ms) /\ Len(ms) >= 2 /\ Len(ms) \in Nat
    BY <1>3, <1>9, <1>19, <1>20, <1>22
  <2>2. QED
    BY <1>23, <2>1, CalleeTree
<1>27. Grows(top, nodes, nodes') /\ OfTree(nodes', me) /\ OfTree(nodes', c)
  BY <1>19, <1>20, <1>25, <1>26
<1>28. QED
  BY <1>1, <1>3, <1>17, <1>23, <1>24, <1>27, TreeCalled

(* Only variables have types.                                              *)
LEMMA NoTypeIn ==
  ASSUME NEW ns, NEW n, NodeOK(ns, n), ns[n].type # "NEW_VAR", NEW m \in Kids(ns, n)
  PROVE  ns[m].type # "NEW_TYPE"
<1>1. ns[n].type \in Branches \cup LeafTypes \cup {"INVALID", "BLOCK", "NEW_TYPE"} /\ BranchOK(ns, n) /\ ListOK(ns, n)
  BY DEF NodeOK, Formed
<1>2. CASE ns[n].type \in Branches
  BY <1>1, <1>2 DEF BranchOK
<1>3. CASE ns[n].type \in LeafTypes \cup {"INVALID"}
  BY <1>1, <1>3 DEF ListOK
<1>4. CASE ns[n].type = "NEW_TYPE"
  BY <1>1, <1>4, SMTT(30) DEF ListOK
<1>5. CASE ns[n].type = "BLOCK"
  <2>1. Done(ns, m)
    BY <1>1, <1>5 DEF ListOK
  <2>2. "NEW_TYPE" \notin LeafTypes \cup {"NEW_VAR"}
    BY DEF LeafTypes
  <2>3. \A l \in 1 .. Len(Ops) : Ops[l] # "NEW_TYPE"
    BY Kinds
  <2>4. QED
    BY <2>1, <2>2, <2>3 DEF Done, OpDone, IfDone, ReturnDone, ValueIn, Single
<1>6. QED
  BY <1>1, <1>2, <1>3, <1>4, <1>5

(* The innermost activation, if it is a parameter's.                       *)
LEMMA ParameterTop ==
  ASSUME Parse, Tree, ArenaOK(nodes), NEW place, At("parameter", place), NEW top, top = Top, place # "enter"
  PROVE  /\ stack # << >> /\ top.fn = "parameter" /\ top.at = place /\ top \in Frames
         /\ top.fn # "external" /\ OfTree(nodes, top) /\ IsSeq(nodes) /\ cur \in Nat
         /\ top.mark[2] \in Nat /\ top.mark[2] >= 2 /\ top.mark[2] <= Len(nodes) /\ Len(nodes) \in Nat
         /\ top.expr \in Nat /\ top.expr >= 1 /\ top.expr <= top.mark[2] /\ nodes[top.expr].type = "NEW_VAR"
         /\ top.made \in Seq(Nat) /\ Len(top.made) = 2
         /\ top.made[1] = top.mark[2] + 1 /\ top.made[2] = top.mark[2] + 2
         /\ top.made[1] \in 1 .. Len(nodes) /\ top.made[2] \in 1 .. Len(nodes)
         /\ nodes[top.made[2]].type = "NEW_VAR" /\ nodes[top.made[2]].kids[1] = top.made[1]
         /\ place = "specs" => Kids(nodes, top.made[1]) = {}
<1>1. stack # << >> /\ top.fn = "parameter" /\ top.at = place /\ top \in Frames /\ IsSeq(nodes) /\ cur \in Nat
  BY AtPlace
<1>2. top.fn \in StmtFns \cup DeclFns
  BY <1>1 DEF DeclFns
<1>3. /\ top.fn # "external" /\ OfTree(nodes, top)
      /\ top.mark[2] \in Nat /\ top.mark[2] >= 2 /\ top.mark[2] <= Len(nodes) /\ Len(nodes) \in Nat
      /\ top.expr \in Nat /\ top.expr <= top.mark[2] /\ top.made \in Seq(Nat)
      /\ \A d \in 1 .. Len(top.made) : top.made[d] \in 1 .. Len(nodes)
  BY <1>1, <1>2, OtherTop
<1>4. /\ Len(top.made) = 2 /\ top.made[1] = top.mark[2] + 1 /\ top.made[2] = top.mark[2] + 2
      /\ nodes[top.made[2]].type = "NEW_VAR" /\ nodes[top.made[2]].kids[1] = top.made[1]
      /\ place = "specs" => Kids(nodes, top.made[1]) = {}
      /\ top.expr >= 1 /\ nodes[top.expr].type = "NEW_VAR"
  BY <1>1, <1>3 DEF OfTree, OfDecl
<1>5. top.made[1] \in 1 .. Len(nodes) /\ top.made[2] \in 1 .. Len(nodes)
  BY <1>3, <1>4
<1>6. QED
  BY <1>1, <1>3, <1>4, <1>5

(* Its declarator.                                                         *)
LEMMA ParameterDeclaratorTree ==
  ASSUME Parse, Tree, ArenaOK(nodes), ParameterDeclarator
  PROVE  Tree' /\ ArenaOK(nodes')
<1>1. PICK top : top = Top
  OBVIOUS
<1>2. At("parameter", "specs") /\ nodes' = nodes /\ cur' = cur
  BY DEF ParameterDeclarator, Stay
<1>3. /\ stack # << >> /\ top.fn = "parameter" /\ top.at = "specs" /\ top \in Frames
      /\ top.fn # "external" /\ OfTree(nodes, top) /\ cur \in Nat
      /\ top.mark[2] \in Nat /\ top.mark[2] >= 2 /\ top.mark[2] <= Len(nodes) /\ Len(nodes) \in Nat
      /\ top.expr \in Nat /\ top.expr >= 1 /\ top.expr <= top.mark[2]
      /\ top.made \in Seq(Nat) /\ Len(top.made) = 2
      /\ top.made[1] = top.mark[2] + 1 /\ top.made[2] = top.mark[2] + 2
      /\ top.made[1] \in 1 .. Len(nodes) /\ top.made[2] \in 1 .. Len(nodes)
      /\ nodes[top.made[2]].type = "NEW_VAR" /\ nodes[top.made[2]].kids[1] = top.made[1]
      /\ Kids(nodes, top.made[1]) = {}
  BY <1>1, <1>2, ParameterTop
<1>4. PICK var \in Nat : var = top.made[2]
  BY <1>3
<1>5. PICK me : me = [top EXCEPT !.at = "decl"]
  OBVIOUS
<1>6. PICK c : c = [Frame("declarator", var, FALSE, 0) EXCEPT !.mark = <<cur', Len(nodes')>>]
  OBVIOUS
<1>7. stack' = Front(stack) \o <<me, c>> /\ ret' = NoRet
  BY <1>1, <1>4, <1>5, <1>6 DEF ParameterDeclarator, Call
<1>8. Moves(me, top, "decl", top.made)
  <2>1. "decl" \in Places
    BY DEF Places
  <2>2. QED
    BY <1>3, <1>5, <2>1, FrameMoved, Zenon
<1>9. Begins(c, "declarator", var, <<cur', Len(nodes')>>)
  <2>1. FALSE \in BOOLEAN /\ 0 \in Int /\ "declarator" \in Fns /\ cur' \in Nat /\ Len(nodes') \in Nat
    BY <1>2, <1>3 DEF Fns
  <2>2. QED
    BY <1>6, <2>1, FrameCalled, Zenon
<1>10. /\ me.fn = "parameter" /\ me.at = "decl" /\ me.made = top.made /\ me.mark = top.mark
       /\ me.expr = top.expr
       /\ c.fn = "declarator" /\ c \in Frames /\ ~InExpr(c)
  BY <1>3, <1>8, <1>9 DEF Moves, Begins, InExpr, ExprFns
<1>11. Goes(me, c) /\ Asks(me, c)
  BY <1>10 DEF Goes, Asks, DeclFns, InExpr, ExprFns
<1>12. OfTree(nodes, me)
  <2>1. OfAll(nodes, me)
    BY <1>3, <1>10 DEF OfTree, OfAll, Removable, Failing, Passing
  <2>2. OfExpr(nodes, me) /\ OfStmt(nodes, me)
    BY <1>10 DEF OfExpr, Parts, OfStmt, InExpr, ExprFns
  <2>3. OfDecl(nodes, me)
    BY <1>3, <1>10 DEF OfTree, OfDecl
  <2>4. QED
    BY <2>1, <2>2, <2>3 DEF OfTree
<1>13. OfTree(nodes, c)
  <2>1. /\ Begins(c, "declarator", var, <<cur', Len(nodes)>>) /\ var <= Len(nodes) /\ Len(nodes) >= 2
        /\ var >= 1 /\ nodes[var].type = "NEW_VAR" /\ Kids(nodes, nodes[var].kids[1]) = {}
    BY <1>2, <1>3, <1>4, <1>9
  <2>2. QED
    BY <1>3, <1>10, <2>1, CalleeTree
<1>14. QED
  BY <1>1, <1>2, <1>3, <1>7, <1>8, <1>9, <1>11, <1>12, <1>13, SameCalled

(* The type of the function is given its parameter.                        *)
LEMMA ParameterDoneTree ==
  ASSUME Parse, Tree, ArenaOK(nodes), ParameterDone, ret = "true"
  PROVE  Tree' /\ ArenaOK(nodes')
<1>1. PICK top : top = Top
  OBVIOUS
<1>2. At("parameter", "decl")
  BY DEF ParameterDone
<1>3. /\ stack # << >> /\ top.fn = "parameter" /\ top.fn # "external" /\ IsSeq(nodes)
      /\ top.mark[2] \in Nat /\ top.mark[2] >= 2 /\ top.mark[2] <= Len(nodes) /\ Len(nodes) \in Nat
      /\ top.expr \in Nat /\ top.expr >= 1 /\ top.expr <= top.mark[2] /\ nodes[top.expr].type = "NEW_VAR"
      /\ top.made[1] = top.mark[2] + 1 /\ top.made[2] = top.mark[2] + 2
      /\ top.made[2] \in 1 .. Len(nodes)
      /\ nodes[top.made[2]].type = "NEW_VAR" /\ nodes[top.made[2]].kids[1] = top.made[1]
  BY <1>1, <1>2, ParameterTop
<1>4. PICK e : e = top.expr
  OBVIOUS
<1>5. PICK b : b = nodes[e].kids[1]
  OBVIOUS
<1>6. PICK m : m = top.made[2]
  OBVIOUS
<1>7. b \in 1 .. Len(nodes) /\ nodes[b].type = "NEW_TYPE" /\ b < e /\ b \in Nat
  <2>1. e >= 1 /\ e \in Nat /\ e <= Len(nodes) /\ nodes[e].type = "NEW_VAR"
    BY <1>3, <1>4
  <2>2. QED
    BY <1>5, <2>1, TypeOfVar
<1>8. \A n \in 1 .. Len(nodes) : NodeOK(nodes, n)
  BY DEF ArenaOK
<1>9. ASSUME NEW n \in 1 .. Len(nodes), nodes[n].type # "NEW_VAR" PROVE b \notin Kids(nodes, n)
  BY <1>7, <1>8, <1>9, NoTypeIn
<1>10. Oldest(nodes, m) > b
  <2>1. nodes[m].type \in Branches
    BY <1>3, <1>6 DEF Branches
  <2>2. Oldest(nodes, m) = top.mark[2] + 1
    BY <1>3, <1>6, <2>1 DEF Oldest
  <2>3. QED
    BY <1>3, <1>4, <1>7, <2>2
<1>11. PICK ms : ms = nodes'
  OBVIOUS
<1>12. SameBut(ms, nodes, b) /\ IsNode(ms[b]) /\ ms[b].type = nodes[b].type /\ ms[b].kids = Append(nodes[b].kids, m)
  <2>1. ms = WithChild(nodes, b, m)
    BY <1>1, <1>4, <1>5, <1>6, <1>11 DEF ParameterDone, TypeOf
  <2>2. IsNode(nodes[b])
    BY <1>7, <1>8 DEF NodeOK, Formed
  <2>3. IsSeq(nodes) /\ b \in 1 .. Len(nodes)
    BY <1>3, <1>7
  <2>4. ChildMade(ms, nodes, b, m)
    BY <2>1, <2>2, <2>3, ChildSays
  <2>5. QED
    BY <2>4 DEF ChildMade
<1>13. Given(nodes, ms, b, m)
  <2>1. m # UnitBlock /\ m \in 1 .. Len(nodes) /\ nodes[m].type = "NEW_VAR"
    BY <1>3, <1>6 DEF UnitBlock
  <2>2. QED
    BY <1>7, <1>9, <1>10, <1>12, <2>1 DEF Given
<1>14. ArenaOK(ms)
  BY <1>13, GivenArena
<1>15. ASSUME NEW k \in 1 .. Depth - 1, NEW f, f = stack[k]
       PROVE  OfTree(ms, f)
  <2>1. Waits(nodes, f, top)
    BY <1>1, <1>3, <1>15, WaitsFor
  <2>2. m > top.mark[2] /\ m \in Nat /\ top.fn = "parameter" /\ nodes[b].type = "NEW_TYPE"
    BY <1>3, <1>6, <1>7
  <2>3. QED
    BY <1>13, <2>1, <2>2, WaitsGiven
<1>16. Tree'
  <2>1. \A k \in 1 .. Depth - 1 : \A f \in {stack[k]} : OfTree(nodes', f)
    BY <1>11, <1>15
  <2>2. PICK v : v = "true"
    OBVIOUS
  <2>3. Return(v) /\ Fills(nodes', top)
    BY <1>3, <2>2 DEF ParameterDone, Fills
  <2>4. QED
    BY <1>1, <1>3, <2>1, <2>3, TreeReturned
<1>17. QED
  BY <1>11, <1>14, <1>16

(* A part of a declaration.                                                *)
LEMMA DeclarationTree ==
  ASSUME Parse, Tree, ArenaOK(nodes), Declaration
  PROVE  TreeKept
<1>1. ASSUME DeclaratorAbort PROVE TreeKept
  BY <1>1, GiveTree DEF DeclaratorAbort, Abort
<1>2. ASSUME ParameterDone PROVE TreeKept
  <2>1. CASE ret = "true"
    BY <1>2, <2>1, ParameterDoneTree DEF TreeKept
  <2>2. CASE ret # "true"
    <3>1. Abort
      BY <1>2, <2>2 DEF ParameterDone
    <3>2. QED
      BY <3>1, GiveTree DEF Abort
  <2>3. QED
    BY <2>1, <2>2
<1>3. ASSUME ParameterFail PROVE TreeKept
  <2>1. PICK top : top = Top
    OBVIOUS
  <2>2. At("parameter", "specs") /\ Undo(top.made)
    BY <1>3, <2>1 DEF ParameterFail
  <2>3. /\ top.made \in Seq(Nat) /\ Len(top.made) = 2 /\ Len(nodes) \in Nat /\ top.mark[2] \in Nat
        /\ top.made[1] = top.mark[2] + 1 /\ top.made[2] = top.mark[2] + 2
    BY <2>1, <2>2, ParameterTop
  <2>4. DOMAIN top.made = 1 .. 2
    BY <2>3, LenProperties
  <2>5. ~PopsInOrder(top.made)
    <3>1. SUFFICES ASSUME PopsInOrder(top.made)
                   PROVE  FALSE
      OBVIOUS
    <3>2. top.made[1] = Len(nodes) + 1 - 1 /\ top.made[2] = Len(nodes) + 1 - 2
      BY <2>4, <3>1 DEF PopsInOrder
    <3>3. QED
      BY <2>3, <3>2
  <2>6. Give("asserted")
    BY <2>2, <2>5 DEF Undo
  <2>7. QED
    BY <2>6, GiveTree
<1>4. QED
  BY <1>1, <1>2, <1>3, SpecifiersTurnTree, DeclaratorNameTree, DeclaratorSaysTree, DeclaratorParamsTree,
     DeclaratorNextTree, DeclaratorParenTree, ParameterEnterTree, ParameterDeclaratorTree
     DEF Declaration, TreeKept

-----------------------------------------------------------------------------
(* External declarations                                                   *)

(* A declaration has a type, a body and a variable.                        *)
LEMMA ExternalPushed ==
  ASSUME ArenaOK(nodes), Len(nodes) \in Nat, NEW top, top.fn = "external",
         top.mark[2] \in Nat, top.mark[2] <= Len(nodes),
         NEW kids, kids = <<Len(nodes) + 1, Len(nodes) + 2>>,
         NEW new, new = <<Node("NEW_TYPE", << >>), Block, Node("NEW_VAR", kids)>>,
         NEW ms, Extends(ms, nodes, new)
  PROVE  /\ Grows(top, nodes, ms) /\ Len(ms) = Len(nodes) + 3 /\ Kids(ms, Len(nodes) + 1) = {}
         /\ ms[Len(nodes) + 2] = Block
         /\ ms[Len(nodes) + 3].type = "NEW_VAR" /\ Len(ms[Len(nodes) + 3].kids) = 2
         /\ ms[Len(nodes) + 3].kids[1] = Len(nodes) + 1 /\ ms[Len(nodes) + 3].kids[2] = Len(nodes) + 2
<1>1. PICK type : type = Len(nodes) + 1
  OBVIOUS
<1>2. PICK init : init = Len(nodes) + 2
  OBVIOUS
<1>3. PICK decl : decl = Len(nodes) + 3
  OBVIOUS
<1>4. Len(nodes) >= 2
  BY DEF ArenaOK
<1>5. IsSeq(kids) /\ Len(kids) = 2 /\ kids[1] = type /\ kids[2] = init
  BY <1>1, <1>2, SeqTwo
<1>6. PICK t : t = Node("NEW_TYPE", << >>)
  OBVIOUS
<1>7. PICK v : v = Node("NEW_VAR", kids)
  OBVIOUS
<1>8. t.type = "NEW_TYPE" /\ t.kids = << >> /\ IsNode(t) /\ v.type = "NEW_VAR" /\ v.kids = kids /\ IsNode(v)
  BY <1>6, <1>7, NodesMade DEF Node
<1>9. PICK b : b = Block
  OBVIOUS
<1>10. b.type = "BLOCK" /\ b.kids = << >> /\ IsNode(b)
  BY <1>9, NodesMade DEF Block, Node
<1>11. IsSeq(new) /\ Len(new) = 3 /\ new[1] = t /\ new[2] = b /\ new[3] = v
  <2>1. new = <<t, b, v>>
    BY <1>6, <1>7, <1>9, Zenon
  <2>2. QED
    BY <2>1, SeqThree
<1>12. Len(ms) = decl /\ ms[type] = t /\ ms[init] = b /\ ms[decl] = v
  BY <1>1, <1>2, <1>3, <1>11 DEF Extends
<1>13. NodeOK(ms, type) /\ Kids(ms, type) = {} /\ NodeOK(ms, init) /\ Kids(ms, init) = {}
  BY <1>8, <1>10, <1>12, NewNode
<1>14. NodeOK(ms, decl) /\ \A m \in Kids(ms, decl) : m = type \/ m = init
  <2>1. /\ decl \in 1 .. Len(ms) /\ Len(ms) \in Nat
        /\ type \in (1 .. Len(ms)) \ {UnitBlock} /\ type < decl
        /\ init \in (1 .. Len(ms)) \ {UnitBlock} /\ type <= init /\ init < decl
    BY <1>1, <1>2, <1>3, <1>4, <1>12 DEF UnitBlock
  <2>2. Declaring(ms, decl, kids)
    BY <1>5, <1>8, <1>9, <1>12, <2>1 DEF Declaring
  <2>3. QED
    BY <1>5, <2>2, NewVar
<1>15. \A i \in 1 .. Len(new) :
         /\ NodeOK(ms, Len(nodes) + i)
         /\ ms[Len(nodes) + i].type = "NEW_VAR" => top.fn \in DeclFns \cup {"external"}
         /\ \A m \in Kids(ms, Len(nodes) + i) : m = NIL \/ m > top.mark[2]
  <2>1. \A i \in 1 .. Len(new) : Len(nodes) + i = type \/ Len(nodes) + i = init \/ Len(nodes) + i = decl
    BY <1>1, <1>2, <1>3, <1>11
  <2>2. type > top.mark[2] /\ init > top.mark[2]
    BY <1>1, <1>2
  <2>3. QED
    BY <1>13, <1>14, <2>1, <2>2
<1>16. Grows(top, nodes, ms)
  BY <1>15, PushGrows, Zenon
<1>17. QED
  BY <1>1, <1>2, <1>3, <1>5, <1>8, <1>9, <1>12, <1>13, <1>16

(* A declaration begins.                                                   *)
LEMMA ExternalEnterTree ==
  ASSUME Parse, Tree, ArenaOK(nodes), ExternalEnter
  PROVE  Tree' /\ ArenaOK(nodes')
<1>1. PICK top : top = Top
  OBVIOUS
<1>2. At("external", "enter") /\ cur' = cur
  BY DEF ExternalEnter, Stay
<1>3. /\ stack # << >> /\ top.fn = "external" /\ top.at = "enter" /\ top \in Frames
      /\ Len(nodes) \in Nat /\ IsSeq(nodes) /\ cur \in Nat
  BY <1>1, <1>2, AtPlace
<1>4. OfTree(nodes, top) /\ top.mark[2] \in Nat /\ top.expr \in Nat /\ top.mark[2] <= Len(nodes)
  BY <1>1, <1>3, TopTree
<1>5. top.expr <= top.mark[2] /\ Len(nodes) >= 2
  BY <1>4 DEF OfTree, OfAll, ArenaOK
<1>6. PICK type \in Nat : type = Len(nodes) + 1
  BY <1>3
<1>7. PICK init \in Nat : init = Len(nodes) + 2
  BY <1>3
<1>8. PICK decl \in Nat : decl = Len(nodes) + 3
  BY <1>3
<1>9. Fresh = type /\ Fresh + 1 = init /\ Fresh + 2 = decl
  BY <1>3, <1>6, <1>7, <1>8 DEF Fresh
<1>10. PICK kids : kids = <<type, init>>
  OBVIOUS
<1>11. PICK new : new = <<Node("NEW_TYPE", << >>), Block, Node("NEW_VAR", kids)>>
  OBVIOUS
<1>12. PICK made : made = <<decl, init, type>>
  OBVIOUS
<1>13. made \in Seq(Nat) /\ Len(made) = 3 /\ made[1] = decl /\ made[2] = init /\ made[3] = type
  BY <1>12, SeqThree
<1>14. PICK me : me = [top EXCEPT !.at = "specs", !.made = made]
  OBVIOUS
<1>15. PICK c : c = [Frame("specifiers", decl, FALSE, 0) EXCEPT !.mark = <<cur', Len(nodes')>>]
  OBVIOUS
<1>16. Push(new) /\ stack' = Front(stack) \o <<me, c>> /\ ret' = NoRet
  BY <1>1, <1>9, <1>10, <1>11, <1>12, <1>14, <1>15 DEF ExternalEnter, Call
<1>17. Extends(nodes', nodes, new)
  <2>1. IsSeq(new)
    BY <1>11, SeqThree
  <2>2. QED
    BY <1>3, <1>16, <2>1, Pushed
<1>18. PICK ms : ms = nodes'
  OBVIOUS
<1>19. /\ Grows(top, nodes, ms) /\ Len(ms) = decl /\ Kids(ms, type) = {} /\ ms[init] = Block
       /\ ms[decl].type = "NEW_VAR" /\ Len(ms[decl].kids) = 2
       /\ ms[decl].kids[1] = type /\ ms[decl].kids[2] = init
  <2>1. kids = <<Len(nodes) + 1, Len(nodes) + 2>> /\ Extends(ms, nodes, new)
    BY <1>6, <1>7, <1>10, <1>17, <1>18
  <2>2. QED
    BY <1>3, <1>4, <1>6, <1>7, <1>8, <1>11, <2>1, ExternalPushed
<1>20. Moves(me, top, "specs", made)
  <2>1. "specs" \in Places
    BY DEF Places
  <2>2. QED
    BY <1>3, <1>13, <1>14, <2>1, FrameMoved, Zenon
<1>21. Begins(c, "specifiers", decl, <<cur', Len(nodes')>>)
  <2>1. FALSE \in BOOLEAN /\ 0 \in Int /\ "specifiers" \in Fns /\ cur' \in Nat /\ Len(nodes') \in Nat
    BY <1>2, <1>3, <1>18, <1>19 DEF Fns
  <2>2. QED
    BY <1>15, <2>1, FrameCalled, Zenon
<1>22. /\ me.fn = "external" /\ me.at = "specs" /\ me.made = made /\ me.mark = top.mark /\ me.expr = top.expr
       /\ me \in Frames
       /\ c.fn = "specifiers" /\ c \in Frames /\ c.mark[2] = Len(nodes') /\ ~InExpr(c)
  BY <1>3, <1>20, <1>21 DEF Moves, Begins, InExpr, ExprFns
<1>23. HandsOn(top, me, c)
  <2>1. Goes(me, c) /\ Asks(me, c)
    BY <1>22 DEF Goes, Asks, DeclFns, InExpr, ExprFns
  <2>2. QED
    BY <1>20, <2>1 DEF HandsOn, Moves
<1>24. DOMAIN me.made = 1 .. 3 /\ \A d \in 1 .. 3 : d = 1 \/ d = 2 \/ d = 3
  BY <1>13, <1>22, FrameFields
<1>25. type > Len(nodes) /\ init > Len(nodes) /\ decl > Len(nodes)
       /\ type \in 1 .. Len(ms) /\ init \in 1 .. Len(ms) /\ decl \in 1 .. Len(ms) /\ top.mark[2] <= Len(ms)
  BY <1>3, <1>4, <1>6, <1>7, <1>8, <1>19
<1>26. Private(ms, MadeBy(me))
  <2>1. \A m \in MadeBy(me) : m \in Nat /\ m > Len(nodes)
    BY <1>13, <1>22, <1>24, <1>25 DEF MadeBy
  <2>2. type \in MadeBy(me) /\ init \in MadeBy(me) /\ decl \in MadeBy(me)
    BY <1>13, <1>22, <1>24 DEF MadeBy
  <2>3. \A n \in Len(nodes) + 1 .. Len(ms) : n \in MadeBy(me)
    <3>1. \A n \in Len(nodes) + 1 .. Len(ms) : n = type \/ n = init \/ n = decl
      BY <1>3, <1>6, <1>7, <1>8, <1>19
    <3>2. QED
      BY <2>2, <3>1
  <2>4. QED
    BY <1>19, <2>1, <2>3, NewPrivate
<1>27. OfTree(ms, me)
  <2>1. OfAll(ms, me)
    BY <1>5, <1>13, <1>22, <1>24, <1>25, <1>26 DEF OfAll
  <2>2. OfExpr(ms, me) /\ OfStmt(ms, me)
    BY <1>22 DEF OfExpr, Parts, OfStmt, InExpr, ExprFns
  <2>3. type > UnitBlock /\ type < init /\ init < decl
    BY <1>3, <1>5, <1>6, <1>7, <1>8 DEF UnitBlock
  <2>4. OfDecl(ms, me)
    BY <1>13, <1>19, <1>22, <2>3 DEF OfDecl
  <2>5. QED
    BY <2>1, <2>2, <2>4 DEF OfTree
<1>28. OfTree(ms, c)
  <2>1. Begins(c, "specifiers", decl, <<cur', Len(ms)>>) /\ decl <= Len(ms) /\ Len(ms) >= 2 /\ Len(ms) \in Nat
    BY <1>3, <1>5, <1>8, <1>18, <1>19, <1>21
  <2>2. QED
    BY <1>22, <2>1, CalleeTree
<1>29. Grows(top, nodes, nodes') /\ OfTree(nodes', me) /\ OfTree(nodes', c)
  BY <1>18, <1>19, <1>27, <1>28
<1>30. QED
  BY <1>1, <1>3, <1>16, <1>22, <1>23, <1>29, TreeCalled

(* The outermost activation, once it has begun.                            *)
LEMMA ExternalTop ==
  ASSUME Parse, Tree, ArenaOK(nodes), NEW place, At("external", place), NEW top, top = Top, place # "enter"
  PROVE  /\ stack # << >> /\ top.fn = "external" /\ top.at = place /\ top \in Frames
         /\ OfTree(nodes, top) /\ IsSeq(nodes) /\ cur \in Nat /\ Len(nodes) \in Nat
         /\ top.made \in Seq(Nat) /\ Len(top.made) = 3 /\ DOMAIN top.made = 1 .. 3
         /\ top.made[1] \in 1 .. Len(nodes) /\ top.made[2] \in 1 .. Len(nodes) /\ top.made[3] \in 1 .. Len(nodes)
         /\ top.made[1] \in Nat /\ top.made[2] \in Nat /\ top.made[3] \in Nat
         /\ top.made[3] > 2 /\ top.made[3] < top.made[2] /\ top.made[2] < top.made[1]
         /\ Private(nodes, MadeBy(top))
         /\ nodes[top.made[1]].type = "NEW_VAR" /\ nodes[top.made[1]].kids[1] = top.made[3]
         /\ place \in {"specs", "decl"} => nodes[top.made[2]] = Block
         /\ place = "specs" => Kids(nodes, top.made[3]) = {}
<1>1. /\ stack # << >> /\ top.fn = "external" /\ top.at = place /\ top \in Frames
      /\ Len(nodes) \in Nat /\ IsSeq(nodes) /\ cur \in Nat
  BY AtPlace
<1>2. OfTree(nodes, top)
  BY <1>1, TopTree
<1>3. top.made \in Seq(Nat) /\ DOMAIN top.made = 1 .. Len(top.made)
  BY <1>1, FrameFields
<1>4. /\ Len(top.made) = 3 /\ top.made[3] > 2 /\ top.made[3] < top.made[2] /\ top.made[2] < top.made[1]
      /\ nodes[top.made[1]].type = "NEW_VAR" /\ nodes[top.made[1]].kids[1] = top.made[3]
      /\ place \in {"specs", "decl"} => nodes[top.made[2]] = Block
      /\ place = "specs" => Kids(nodes, top.made[3]) = {}
  BY <1>1, <1>2 DEF OfTree, OfDecl, UnitBlock
<1>5. \A d \in 1 .. 3 : top.made[d] \in 1 .. Len(nodes)
  BY <1>2, <1>3, <1>4 DEF OfTree, OfAll
<1>6. top.made[1] \in 1 .. Len(nodes) /\ top.made[2] \in 1 .. Len(nodes) /\ top.made[3] \in 1 .. Len(nodes)
  BY <1>5
<1>7. Private(nodes, MadeBy(top))
  BY <1>1, <1>2 DEF OfTree, OfAll, Removable
<1>8. QED
  BY <1>1, <1>2, <1>3, <1>4, <1>6, <1>7

(* It goes on with a declarator ...                                        *)
LEMMA ExternalDeclaratorTree ==
  ASSUME Parse, Tree, ArenaOK(nodes), ExternalDeclarator
  PROVE  Tree' /\ ArenaOK(nodes')
<1>1. PICK top : top = Top
  OBVIOUS
<1>2. At("external", "specs") /\ nodes' = nodes /\ cur' = cur
  BY DEF ExternalDeclarator, Stay
<1>3. PICK place : place = "specs"
  OBVIOUS
<1>4. /\ stack # << >> /\ top.fn = "external" /\ top.at = place /\ top \in Frames
      /\ OfTree(nodes, top) /\ cur \in Nat /\ Len(nodes) \in Nat
      /\ top.made \in Seq(Nat) /\ DOMAIN top.made = 1 .. 3
      /\ top.made[1] \in 1 .. Len(nodes) /\ top.made[1] \in Nat
      /\ Private(nodes, MadeBy(top))
      /\ nodes[top.made[1]].type = "NEW_VAR" /\ nodes[top.made[1]].kids[1] = top.made[3]
      /\ nodes[top.made[2]] = Block /\ Kids(nodes, top.made[3]) = {}
  BY <1>1, <1>2, <1>3, ExternalTop
<1>5. Len(nodes) >= 2
  BY DEF ArenaOK
<1>6. PICK decl \in Nat : decl = top.made[1]
  BY <1>4
<1>7. PICK me : me = [top EXCEPT !.at = "decl"]
  OBVIOUS
<1>8. PICK c : c = [Frame("declarator", decl, FALSE, 0) EXCEPT !.mark = <<cur', Len(nodes')>>]
  OBVIOUS
<1>9. stack' = Front(stack) \o <<me, c>> /\ ret' = NoRet
  BY <1>1, <1>6, <1>7, <1>8 DEF ExternalDeclarator, Call
<1>10. Moves(me, top, "decl", top.made)
  <2>1. "decl" \in Places
    BY DEF Places
  <2>2. QED
    BY <1>4, <1>7, <2>1, FrameMoved, Zenon
<1>11. Begins(c, "declarator", decl, <<cur', Len(nodes')>>)
  <2>1. FALSE \in BOOLEAN /\ 0 \in Int /\ "declarator" \in Fns /\ cur' \in Nat /\ Len(nodes') \in Nat
    BY <1>2, <1>4 DEF Fns
  <2>2. QED
    BY <1>8, <2>1, FrameCalled, Zenon
<1>12. /\ me.fn = "external" /\ me.at = "decl" /\ me.made = top.made /\ me.mark = top.mark
       /\ me.expr = top.expr
       /\ c.fn = "declarator" /\ c \in Frames /\ ~InExpr(c)
  BY <1>4, <1>10, <1>11 DEF Moves, Begins, InExpr, ExprFns
<1>13. Goes(me, c) /\ Asks(me, c)
  BY <1>12 DEF Goes, Asks, DeclFns, InExpr, ExprFns
<1>14. OfTree(nodes, me)
  <2>1. MadeBy(me) = MadeBy(top)
    BY <1>12 DEF MadeBy
  <2>2. OfAll(nodes, me)
    BY <1>4, <1>12, <2>1 DEF OfTree, OfAll
  <2>3. OfExpr(nodes, me) /\ OfStmt(nodes, me)
    BY <1>12 DEF OfExpr, Parts, OfStmt, InExpr, ExprFns
  <2>4. OfDecl(nodes, me)
    BY <1>3, <1>4, <1>12 DEF OfTree, OfDecl
  <2>5. QED
    BY <2>2, <2>3, <2>4 DEF OfTree
<1>15. OfTree(nodes, c)
  <2>1. /\ Begins(c, "declarator", decl, <<cur', Len(nodes)>>) /\ decl <= Len(nodes)
        /\ decl >= 1 /\ nodes[decl].type = "NEW_VAR" /\ Kids(nodes, nodes[decl].kids[1]) = {}
    BY <1>2, <1>4, <1>6, <1>11
  <2>2. QED
    BY <1>4, <1>5, <1>12, <2>1, CalleeTree
<1>16. QED
  BY <1>1, <1>2, <1>4, <1>9, <1>10, <1>11, <1>13, <1>14, <1>15, SameCalled

(* ... and with a body.                                                    *)
LEMMA ExternalBodyTree ==
  ASSUME Parse, Tree, ArenaOK(nodes), ExternalBody
  PROVE  Tree' /\ ArenaOK(nodes')
<1>1. PICK top : top = Top
  OBVIOUS
<1>2. At("external", "decl") /\ nodes' = nodes /\ cur' = cur
  BY DEF ExternalBody, Stay
<1>3. PICK place : place = "decl"
  OBVIOUS
<1>4. /\ stack # << >> /\ top.fn = "external" /\ top.at = place /\ top \in Frames
      /\ OfTree(nodes, top) /\ cur \in Nat /\ Len(nodes) \in Nat
      /\ top.made \in Seq(Nat) /\ DOMAIN top.made = 1 .. 3
      /\ top.made[2] \in 1 .. Len(nodes) /\ top.made[2] \in Nat
      /\ Private(nodes, MadeBy(top)) /\ nodes[top.made[2]] = Block
  BY <1>1, <1>2, <1>3, ExternalTop
<1>5. Len(nodes) >= 2
  BY DEF ArenaOK
<1>6. PICK body \in Nat : body = top.made[2]
  BY <1>4
<1>7. PICK me : me = [top EXCEPT !.at = "body"]
  OBVIOUS
<1>8. PICK c : c = [Frame("compound", body, FALSE, 0) EXCEPT !.mark = <<cur', Len(nodes')>>]
  OBVIOUS
<1>9. stack' = Front(stack) \o <<me, c>> /\ ret' = NoRet
  BY <1>1, <1>6, <1>7, <1>8 DEF ExternalBody, Call
<1>10. Moves(me, top, "body", top.made)
  <2>1. "body" \in Places
    BY DEF Places
  <2>2. QED
    BY <1>4, <1>7, <2>1, FrameMoved, Zenon
<1>11. Begins(c, "compound", body, <<cur', Len(nodes')>>)
  <2>1. FALSE \in BOOLEAN /\ 0 \in Int /\ "compound" \in Fns /\ cur' \in Nat /\ Len(nodes') \in Nat
    BY <1>2, <1>4 DEF Fns
  <2>2. QED
    BY <1>8, <2>1, FrameCalled, Zenon
<1>12. /\ me.fn = "external" /\ me.at = "body" /\ me.made = top.made /\ me.mark = top.mark
       /\ me.expr = top.expr
       /\ c.fn = "compound" /\ c.expr = body /\ c \in Frames /\ ~InExpr(c)
  BY <1>4, <1>10, <1>11 DEF Moves, Begins, InExpr, ExprFns
<1>13. Goes(me, c) /\ Asks(me, c)
  <2>1. c.expr = me.made[2]
    BY <1>6, <1>12
  <2>2. QED
    BY <1>12, <2>1 DEF Goes, Asks, DeclFns, InExpr, ExprFns
<1>14. OfTree(nodes, me)
  <2>1. MadeBy(me) = MadeBy(top)
    BY <1>12 DEF MadeBy
  <2>2. OfAll(nodes, me)
    BY <1>3, <1>4, <1>12, <2>1 DEF OfTree, OfAll, Removable
  <2>3. OfExpr(nodes, me) /\ OfStmt(nodes, me)
    BY <1>12 DEF OfExpr, Parts, OfStmt, InExpr, ExprFns
  <2>4. OfDecl(nodes, me)
    BY <1>3, <1>4, <1>12 DEF OfTree, OfDecl
  <2>5. QED
    BY <2>2, <2>3, <2>4 DEF OfTree
<1>15. OfTree(nodes, c)
  <2>1. /\ Begins(c, "compound", body, <<cur', Len(nodes)>>) /\ body <= Len(nodes) /\ nodes[body] = Block
    BY <1>2, <1>4, <1>6, <1>11
  <2>2. QED
    BY <1>4, <1>5, <1>12, <2>1, CalleeTree
<1>16. QED
  BY <1>1, <1>2, <1>4, <1>9, <1>10, <1>11, <1>13, <1>14, <1>15, SameCalled

(* The outermost activation, as it begins.                                 *)
LEMMA OuterTree == Outermost => Tree
<1> SUFFICES ASSUME Outermost PROVE Tree
  OBVIOUS
<1>1. PICK f : f = Frame("external", 0, FALSE, 0)
  OBVIOUS
<1>2. stack = <<f>> /\ stack # << >> /\ Depth = 1 /\ stack[1] = f
  BY <1>1 DEF Outermost, Depth
<1>3. f.fn = "external" /\ f.at = "enter" /\ f.expr = 0 /\ f.made = << >> /\ f.mark = <<0, 0>>
  BY <1>1 DEF Frame
<1>4. Len(nodes) \in Nat
  BY SeqDomain DEF Outermost
<1>5. OfTree(nodes, f)
  <2>1. f.mark[2] = 0 /\ DOMAIN f.made = {} /\ ~Removable(f)
    BY <1>3 DEF Removable, Failing, Passing
  <2>2. OfAll(nodes, f)
    BY <1>3, <1>4, <2>1 DEF OfAll
  <2>3. OfExpr(nodes, f) /\ OfStmt(nodes, f) /\ OfDecl(nodes, f)
    BY <1>3 DEF OfExpr, Parts, OfStmt, OfDecl, InExpr, ExprFns
  <2>4. QED
    BY <2>2, <2>3 DEF OfTree
<1>6. \A k \in 1 .. Depth : k = 1
  BY <1>2
<1>7. \A k \in 1 .. Depth : \A j \in 1 .. k - 1 : FALSE
  BY <1>2
<1>8. \A k \in 1 .. Depth - 1 : FALSE
  BY <1>2
<1>9. ret # "true"
  BY DEF Outermost, NoRet
<1>10. QED
  BY <1>2, <1>3, <1>5, <1>6, <1>7, <1>8, <1>9 DEF Tree

(* The same of the next state.                                             *)
LEMMA OuterTreeNext == Outermost' => Tree'
BY OuterTree, PTL

(* A function: the translation unit has it, and the rule begins anew.      *)
LEMMA ExternalDoneTree ==
  ASSUME Parse, Tree, ArenaOK(nodes), ExternalDone
  PROVE  Tree' /\ ArenaOK(nodes')
<1>1. PICK top : top = Top
  OBVIOUS
<1>2. At("external", "body") /\ cur' = cur /\ tokens' = tokens
  BY DEF ExternalDone, Stay
<1>3. PICK place : place = "body"
  OBVIOUS
<1>4. /\ stack # << >> /\ top.fn = "external" /\ IsSeq(nodes) /\ cur \in Nat /\ Len(nodes) \in Nat
      /\ top.made[1] \in 1 .. Len(nodes) /\ top.made[1] \in Nat /\ top.made[3] \in Nat
      /\ top.made[3] > 2 /\ top.made[3] < top.made[2] /\ top.made[2] < top.made[1] /\ top.made[2] \in Nat
      /\ nodes[top.made[1]].type = "NEW_VAR" /\ nodes[top.made[1]].kids[1] = top.made[3]
  BY <1>1, <1>2, <1>3, ExternalTop
<1>5. PICK m \in Nat : m = top.made[1]
  BY <1>4
<1>6. PICK b \in Nat : b = UnitBlock /\ b = 2
  BY DEF UnitBlock
<1>7. /\ Len(nodes) >= 2 /\ nodes[b].type = "BLOCK"
      /\ \A n \in 1 .. Len(nodes) : NodeOK(nodes, n)
  BY <1>6 DEF ArenaOK
<1>8. b \in 1 .. Len(nodes) /\ IsNode(nodes[b])
  BY <1>4, <1>6, <1>7 DEF NodeOK, Formed
<1>9. PICK ms : ms = nodes'
  OBVIOUS
<1>10. SameBut(ms, nodes, b) /\ IsNode(ms[b]) /\ ms[b].type = nodes[b].type /\ ms[b].kids = Append(nodes[b].kids, m)
  <2>1. ms = WithChild(nodes, b, m)
    BY <1>1, <1>5, <1>6, <1>9 DEF ExternalDone
  <2>2. IsSeq(nodes) /\ b \in 1 .. Len(nodes) /\ IsNode(nodes[b])
    BY <1>4, <1>8
  <2>3. ChildMade(ms, nodes, b, m)
    BY <2>1, <2>2, ChildSays
  <2>4. QED
    BY <2>3 DEF ChildMade
<1>11. Oldest(nodes, m) > b
  <2>1. nodes[m].type \in Branches
    BY <1>4, <1>5 DEF Branches
  <2>2. Oldest(nodes, m) = top.made[3]
    BY <1>4, <1>5, <2>1 DEF Oldest
  <2>3. QED
    BY <1>4, <1>6, <2>2
<1>12. Given(nodes, ms, b, m)
  <2>1. \A n \in 1 .. Len(nodes) : b \notin Kids(nodes, n)
    BY <1>6, <1>7 DEF NodeOK, Formed
  <2>2. m \in (1 .. Len(nodes)) \ {UnitBlock}
    BY <1>4, <1>5, <1>6
  <2>3. Done(nodes, m)
    BY <1>4, <1>5 DEF Done
  <2>4. nodes[b].type # "NEW_TYPE"
    BY <1>7
  <2>5. QED
    BY <1>7, <1>8, <1>10, <1>11, <2>1, <2>2, <2>3, <2>4 DEF Given
<1>13. ArenaOK(nodes')
  BY <1>9, <1>12, GivenArena
<1>14. stack \in Seq(Frames) /\ Len(stack) = 1
  BY <1>1, <1>4, OfTop DEF Parse, Types, Depth
<1>15. PICK f : f = Frame("external", 0, FALSE, 0)
  OBVIOUS
<1>16. stack' = <<f>> /\ ret' = NoRet
  <2>1. stack' = Append(Front(stack), f) /\ ret' = NoRet
    BY <1>15 DEF ExternalDone, Continue
  <2>2. Front(stack) = << >>
    BY <1>4, <1>14, FrontType, EmptySeq
  <2>3. QED
    BY <2>1, <2>2
<1>17. Outermost'
  <2>1. IsSeq(nodes')
    BY <1>13 DEF ArenaOK
  <2>2. QED
    BY <1>2, <1>4, <1>15, <1>16, <2>1 DEF Outermost, Parse, Types
<1>18. QED
  BY <1>13, <1>17, OuterTreeNext

(* Anything else is undone.                                                *)
LEMMA ExternalNilTree ==
  ASSUME Parse, Tree, ArenaOK(nodes), ExternalNil
  PROVE  TreeKept
<1>1. PICK top : top = Top
  OBVIOUS
<1>2. PICK place \in {"decl", "body"} : At("external", place)
  BY DEF ExternalNil
<1>3. place # "enter"
  BY <1>2
<1>4. /\ top.made \in Seq(Nat) /\ DOMAIN top.made = 1 .. 3 /\ Len(nodes) \in Nat
      /\ top.made[1] \in 1 .. Len(nodes) /\ top.made[1] \in Nat /\ top.made[2] \in Nat /\ top.made[3] \in Nat
      /\ top.made[3] > 2 /\ Private(nodes, MadeBy(top))
  BY <1>1, <1>2, <1>3, ExternalTop
<1>5. CASE PopsInOrder(top.made)
  <2>1. nodes' = SubSeq(nodes, 1, Len(nodes) - 3) /\ status' = "parsed"
    BY <1>1, <1>5 DEF ExternalNil
  <2>2. top.made[1] = Len(nodes) /\ top.made[2] = Len(nodes) - 1 /\ top.made[3] = Len(nodes) - 2
    <3>1. \A k \in 1 .. 3 : top.made[k] = Len(nodes) + 1 - k
      BY <1>4, <1>5 DEF PopsInOrder
    <3>2. top.made[1] = Len(nodes) + 1 - 1 /\ top.made[2] = Len(nodes) + 1 - 2 /\ top.made[3] = Len(nodes) + 1 - 3
      BY <3>1
    <3>3. QED
      BY <1>4, <3>2
  <2>3. PICK n \in Nat : n = Len(nodes) - 3
    BY <1>4, <2>2
  <2>4. n >= 2 /\ n <= Len(nodes) /\ nodes' = SubSeq(nodes, 1, n)
    BY <1>4, <2>1, <2>2, <2>3
  <2>5. \A m \in n + 1 .. Len(nodes) : m \in MadeBy(top)
    <3>1. \A m \in n + 1 .. Len(nodes) : m = top.made[1] \/ m = top.made[2] \/ m = top.made[3]
      BY <1>4, <2>2, <2>3
    <3>2. top.made[1] \in MadeBy(top) /\ top.made[2] \in MadeBy(top) /\ top.made[3] \in MadeBy(top)
      BY <1>4 DEF MadeBy
    <3>3. QED
      BY <3>1, <3>2
  <2>6. \A m \in MadeBy(top) : m > n
    <3>1. \A d \in 1 .. 3 : d = 1 \/ d = 2 \/ d = 3
      OBVIOUS
    <3>2. \A m \in MadeBy(top) : m = top.made[1] \/ m = top.made[2] \/ m = top.made[3]
      BY <1>4, <3>1 DEF MadeBy
    <3>3. QED
      BY <1>4, <2>2, <2>3, <3>2, SMTT(30)
  <2>7. ArenaOK(nodes')
    BY <1>4, <2>4, <2>5, <2>6, CutArena
  <2>8. QED
    BY <2>1, <2>7 DEF TreeKept
<1>6. CASE ~PopsInOrder(top.made)
  <2>1. Give("asserted")
    BY <1>1, <1>6 DEF ExternalNil
  <2>2. QED
    BY <2>1, GiveTree
<1>7. QED
  BY <1>5, <1>6

(* A part of an external declaration.                                      *)
LEMMA ExternalTree ==
  ASSUME Parse, Tree, ArenaOK(nodes), External
  PROVE  TreeKept
BY ExternalEnterTree, ExternalDeclaratorTree, ExternalBodyTree, ExternalDoneTree, ExternalNilTree
   DEF External, TreeKept

-----------------------------------------------------------------------------
(* What is beside the arena                                                *)

(* A rule takes a token only if there is one, and its end is told.         *)
Carries ==
  /\ tokens' = tokens
  /\ cur' = cur \/ (cur' = cur + 1 /\ Tok # "INVALID")
  /\ kept' = kept \/ kept' = cur'
  /\ ret' \in {NoRet, "true", "false"}
  /\ \/ status' = "parsing"
     \/ status' \in {"aborted", "asserted", "assigning"} /\ nodes' = nodes /\ stack' = stack
     \/ status' = "parsed" /\ stack' = << >>

(* What no token is.                                                       *)
LEMMA NoToken ==
  /\ "INVALID" \notin {"IDENT", "LITERAL"} /\ "INVALID" # "?" /\ "INVALID" # ":" /\ "INVALID" # "return"
  /\ "INVALID" # ";" /\ "INVALID" # "{" /\ "INVALID" # "}" /\ "INVALID" # "(" /\ "INVALID" # ")" /\ "INVALID" # ","
  /\ \A k \in 1 .. Len(Ops) : Ops[k] # "INVALID"
<1>1. ASSUME NEW k \in 1 .. Len(Ops) PROVE Ops[k] # "INVALID"
  BY Kinds
<1>2. /\ "INVALID" \notin {"IDENT", "LITERAL"} /\ "INVALID" # "?" /\ "INVALID" # ":" /\ "INVALID" # "return"
      /\ "INVALID" # ";" /\ "INVALID" # "{" /\ "INVALID" # "}" /\ "INVALID" # "(" /\ "INVALID" # ")" /\ "INVALID" # ","
  OBVIOUS
<1>3. QED
  BY <1>1, <1>2, Zenon

(* The forms in which a rule goes on.                                      *)
LEMMA CarriesOn ==
  ASSUME Parse, status = "parsing"
  PROVE  /\ ret' \in {NoRet, "true", "false"} /\ Stay /\ Rest => Carries
         /\ ret' \in {NoRet, "true", "false"} /\ Consume /\ Tok # "INVALID" /\ Rest => Carries
         /\ \A v \in {"aborted", "asserted", "assigning"} : Give(v) => Carries
         /\ \A refs : Undo(refs) => Carries
<1>1. ret \in {NoRet, "true", "false"}
  BY DEF Parse, Types
<1>2. ret' \in {NoRet, "true", "false"} /\ Stay /\ Rest => Carries
  BY DEF Stay, Rest, Carries
<1>3. ret' \in {NoRet, "true", "false"} /\ Consume /\ Tok # "INVALID" /\ Rest => Carries
  BY DEF Consume, Rest, Carries
<1>4. ASSUME NEW v \in {"aborted", "asserted", "assigning"}, Give(v) PROVE Carries
  BY <1>1, <1>4 DEF Give, Carries
<1>5. ASSUME NEW refs, Undo(refs) PROVE Carries
  <2>1. Give("asserted") \/ (Return("false") /\ Stay /\ Rest)
    BY <1>5 DEF Undo
  <2>2. Return("false") => ret' \in {NoRet, "true", "false"}
    BY DEF Return
  <2>3. QED
    BY <1>2, <1>4, <2>1, <2>2
<1>6. QED
  BY <1>2, <1>3, <1>4, <1>5

(* Each rule of expressions does, ...                                      *)
LEMMA ExpressionCarries ==
  ASSUME Parse, Tree, status = "parsing", Operand \/ Binop \/ Condition \/ Assignment \/ Expr
  PROVE  Carries
<1>1. /\ ret \in {NoRet, "true", "false"} /\ NoRet \in {NoRet, "true", "false"}
      /\ "true" \in {NoRet, "true", "false"} /\ "false" \in {NoRet, "true", "false"}
  BY DEF Parse, Types
<1>2. PICK R : R = {NoRet, "true", "false"}
  OBVIOUS
<1>3. /\ ret' \in R /\ Stay /\ Rest => Carries
      /\ ret' \in R /\ Consume /\ Tok # "INVALID" /\ Rest => Carries
      /\ \A v \in {"aborted", "asserted", "assigning"} : Give(v) => Carries
      /\ \A refs : Undo(refs) => Carries
  BY <1>2, CarriesOn
<1>4. CASE Operand
  <2>1. CASE Tok \in {"IDENT", "LITERAL"}
    <3>1. Consume /\ Return("true") /\ Rest
      BY <1>4, <2>1 DEF Operand
    <3>2. Tok # "INVALID"
      BY <2>1
    <3>3. QED
      BY <1>1, <1>2, <1>3, <3>1, <3>2 DEF Return
  <2>2. CASE Tok \notin {"IDENT", "LITERAL"}
    BY <1>1, <1>2, <1>3, <1>4, <2>2 DEF Operand, Return
  <2>3. QED
    BY <2>1, <2>2
<1>5. CASE BinopOperator
  <2>1. Consume /\ Rest /\ Tok = Operator /\ ret' = NoRet /\ (At("binop", "lhs") \/ At("binop", "retry"))
    BY <1>5 DEF BinopOperator, Call
  <2>2. PICK top : top = Top
    OBVIOUS
  <2>3. stack # << >> /\ top.fn = "binop"
    BY <2>1, <2>2, AtPlace
  <2>4. top.level \in 1 .. Len(Ops)
    BY <2>2, <2>3, TopTree DEF OfTree, OfExpr
  <2>5. Tok # "INVALID"
    BY <2>1, <2>2, <2>4, NoToken DEF Operator
  <2>6. QED
    BY <1>1, <1>2, <1>3, <2>1, <2>5
<1>6. CASE CondThen
  <2>1. Consume /\ Rest /\ Tok = "?" /\ ret' = NoRet
    BY <1>6, Zenon DEF CondThen, Call
  <2>2. Tok # "INVALID"
    BY <2>1, NoToken, Zenon
  <2>3. QED
    BY <1>1, <1>2, <1>3, <2>1, <2>2, Zenon
<1>7. CASE CondElse
  <2>1. Consume /\ Rest /\ Tok = ":" /\ ret' = NoRet
    BY <1>7, Zenon DEF CondElse, Call
  <2>2. Tok # "INVALID"
    BY <2>1, NoToken, Zenon
  <2>3. QED
    BY <1>1, <1>2, <1>3, <2>1, <2>2, Zenon
<1>8. CASE BinopAbort \/ CondAbort
  <2>1. Give("aborted")
    BY <1>8 DEF BinopAbort, CondAbort, Abort
  <2>2. QED
    BY <1>3, <2>1
<1>9. CASE BinopFail \/ CondFail
  BY <1>3, <1>9 DEF BinopFail, CondFail
<1>10. CASE AssignFail
  BY <1>3, <1>10 DEF AssignFail
<1>11. CASE ExprEnd
  <2>1. Give("aborted") \/ (Return(ret) /\ Stay /\ Rest)
    BY <1>11 DEF ExprEnd, Abort
  <2>2. Return(ret) => ret' \in R
    BY <1>1, <1>2 DEF Return
  <2>3. QED
    BY <1>3, <2>1, <2>2
<1>12. CASE BinopEnter \/ BinopRetry \/ CondEnter \/ AssignEnter \/ AssignTry \/ ExprEnter \/ ExprRetry
  <2>1. ret' = NoRet /\ Stay /\ Rest
    BY <1>12 DEF BinopEnter, BinopRetry, CondEnter, AssignEnter, AssignTry, ExprEnter, ExprRetry, Call
  <2>2. QED
    BY <1>1, <1>2, <1>3, <2>1
<1>13. CASE BinopPlain \/ BinopDone \/ CondPlain \/ CondDone \/ AssignPlain
  <2>1. Return("true") /\ Stay /\ Rest
    BY <1>13, Zenon DEF BinopPlain, BinopDone, CondPlain, CondDone, AssignPlain
  <2>2. Return("true") => ret' \in R
    BY <1>1, <1>2 DEF Return
  <2>3. QED
    BY <1>3, <2>1, <2>2
<1>14. QED
  BY <1>4, <1>5, <1>6, <1>7, <1>8, <1>9, <1>10, <1>11, <1>12, <1>13
     DEF Binop, Condition, Assignment, Expr

(* ... of statements, ...                                                  *)
LEMMA StatementCarries ==
  ASSUME Parse, status = "parsing", Statement
  PROVE  Carries
<1>1. PICK R : R = {NoRet, "true", "false"}
  OBVIOUS
<1>2. /\ NoRet \in R /\ (Return("true") => ret' \in R) /\ (Return("false") => ret' \in R)
      /\ \A me : Continue(me) => ret' \in R
      /\ \A me, c : Call(me, c) => ret' \in R
  BY <1>1 DEF Return, Continue, Call
<1>3. /\ ret' \in R /\ Stay /\ Rest => Carries
      /\ ret' \in R /\ Consume /\ Tok # "INVALID" /\ Rest => Carries
      /\ \A v \in {"aborted", "asserted", "assigning"} : Give(v) => Carries
  BY <1>1, CarriesOn
<1>4. CASE JumpEnter
  <2>1. CASE Tok = "return"
    <3>1. Consume /\ Rest /\ ret' = NoRet
      BY <1>4, <2>1 DEF JumpEnter, Continue
    <3>2. QED
      BY <1>2, <1>3, <2>1, <3>1, NoToken
  <2>2. CASE Tok # "return"
    <3>1. Return("false") /\ Stay /\ Rest
      BY <1>4, <2>2 DEF JumpEnter
    <3>2. QED
      BY <1>2, <1>3, <3>1
  <2>3. QED
    BY <2>1, <2>2
<1>5. CASE JumpDone
  <2>1. Consume /\ Rest /\ Tok = ";" /\ Return("true")
    BY <1>5, Zenon DEF JumpDone
  <2>2. Tok # "INVALID"
    BY <2>1, NoToken, Zenon
  <2>3. QED
    BY <1>2, <1>3, <2>1, <2>2, Zenon
<1>6. CASE CompoundEnter
  <2>1. CASE Tok = "{"
    <3>1. Consume /\ Rest /\ ret' = NoRet
      BY <1>6, <2>1, Zenon DEF CompoundEnter, Continue
    <3>2. Tok # "INVALID"
      BY <2>1, NoToken, Zenon
    <3>3. QED
      BY <1>2, <1>3, <3>1, <3>2, Zenon
  <2>2. CASE Tok # "{"
    <3>1. Return("false") /\ Stay /\ Rest
      BY <1>6, <2>2, Zenon DEF CompoundEnter
    <3>2. QED
      BY <1>2, <1>3, <3>1, Zenon
  <2>3. QED
    BY <2>1, <2>2
<1>7. CASE CompoundEmpty \/ CompoundClose
  <2>1. Consume /\ Rest /\ Tok = "}" /\ Return("true")
    BY <1>7, Zenon DEF CompoundEmpty, CompoundClose
  <2>2. Tok # "INVALID"
    BY <2>1, NoToken, Zenon
  <2>3. QED
    BY <1>2, <1>3, <2>1, <2>2, Zenon
<1>8. CASE JumpAbort \/ CompoundAbort
  <2>1. Give("aborted")
    BY <1>8, Zenon DEF JumpAbort, CompoundAbort, Abort
  <2>2. QED
    BY <1>3, <2>1
<1>9. CASE JumpValue \/ CompoundList \/ CompoundMore
  <2>1. Stay /\ Rest /\ \E me, c : Call(me, c)
    BY <1>9, Zenon DEF JumpValue, CompoundList, CompoundMore
  <2>2. QED
    BY <1>2, <1>3, <2>1
<1>10. QED
  BY <1>4, <1>5, <1>6, <1>7, <1>8, <1>9 DEF Statement

(* ... of declarations ...                                                 *)
LEMMA DeclarationCarries ==
  ASSUME Parse, status = "parsing", Declaration
  PROVE  Carries
<1>1. PICK R : R = {NoRet, "true", "false"}
  OBVIOUS
<1>2. /\ NoRet \in R /\ (Return("true") => ret' \in R) /\ (Return("false") => ret' \in R)
      /\ \A me : Continue(me) => ret' \in R
      /\ \A me, c : Call(me, c) => ret' \in R
  BY <1>1 DEF Return, Continue, Call
<1>3. /\ ret' \in R /\ Stay /\ Rest => Carries
      /\ ret' \in R /\ Consume /\ Tok # "INVALID" /\ Rest => Carries
      /\ \A v \in {"aborted", "asserted", "assigning"} : Give(v) => Carries
      /\ \A refs : Undo(refs) => Carries
  BY <1>1, CarriesOn
<1>4. CASE SpecifiersTurn
  <2>1. CASE Tok \in Specifiers
    <3>1. Consume /\ Rest /\ \E me : Continue(me)
      BY <1>4, <2>1 DEF SpecifiersTurn
    <3>2. Tok # "INVALID"
      BY <2>1, SpecifiersAssumption
    <3>3. QED
      BY <1>2, <1>3, <3>1, <3>2
  <2>2. CASE Tok \notin Specifiers
    <3>1. Stay /\ Rest /\ (Return("true") \/ Return("false"))
      BY <1>4, <2>2 DEF SpecifiersTurn
    <3>2. QED
      BY <1>2, <1>3, <3>1
  <2>3. QED
    BY <2>1, <2>2
<1>5. CASE DeclaratorName
  <2>1. Consume /\ Rest /\ Tok = "IDENT" /\ \E me : Continue(me)
    BY <1>5 DEF DeclaratorName
  <2>2. QED
    BY <1>2, <1>3, <2>1
<1>6. CASE DeclaratorParams \/ DeclaratorParen
  <2>1. Consume /\ Rest /\ Tok = "(" /\ \E me, c : Call(me, c)
    BY <1>6, Zenon DEF DeclaratorParams, DeclaratorParen
  <2>2. Tok # "INVALID"
    BY <2>1, NoToken, Zenon
  <2>3. QED
    BY <1>2, <1>3, <2>1, <2>2, Zenon
<1>7. CASE DeclaratorNext
  <2>1. Consume /\ Rest /\ Tok = "," /\ \E me, c : Call(me, c)
    BY <1>7, Zenon DEF DeclaratorNext
  <2>2. Tok # "INVALID"
    BY <2>1, NoToken, Zenon
  <2>3. QED
    BY <1>2, <1>3, <2>1, <2>2, Zenon
<1>8. CASE DeclaratorClose
  <2>1. Consume /\ Rest /\ Tok = ")" /\ Return("true")
    BY <1>8, Zenon DEF DeclaratorClose
  <2>2. Tok # "INVALID"
    BY <2>1, NoToken, Zenon
  <2>3. QED
    BY <1>2, <1>3, <2>1, <2>2, Zenon
<1>9. CASE DeclaratorPlain \/ DeclaratorNone
  <2>1. Stay /\ Rest /\ (Return("true") \/ Return("false"))
    BY <1>9, Zenon DEF DeclaratorPlain, DeclaratorNone
  <2>2. QED
    BY <1>2, <1>3, <2>1
<1>10. CASE DeclaratorAbort
  <2>1. Give("aborted")
    BY <1>10, Zenon DEF DeclaratorAbort, Abort
  <2>2. QED
    BY <1>3, <2>1
<1>11. CASE ParameterEnter \/ ParameterDeclarator
  <2>1. Stay /\ Rest /\ \E me, c : Call(me, c)
    BY <1>11, Zenon DEF ParameterEnter, ParameterDeclarator
  <2>2. QED
    BY <1>2, <1>3, <2>1
<1>12. CASE ParameterFail
  BY <1>3, <1>12 DEF ParameterFail
<1>13. CASE ParameterDone
  <2>1. Give("aborted") \/ (Stay /\ Rest /\ Return("true"))
    BY <1>13 DEF ParameterDone, Abort
  <2>2. QED
    BY <1>2, <1>3, <2>1
<1>14. QED
  BY <1>4, <1>5, <1>6, <1>7, <1>8, <1>9, <1>10, <1>11, <1>12, <1>13 DEF Declaration

(* ... and of external declarations.                                       *)
LEMMA ExternalCarries ==
  ASSUME Parse, status = "parsing", External
  PROVE  Carries
<1>1. PICK R : R = {NoRet, "true", "false"}
  OBVIOUS
<1>2. /\ NoRet \in R /\ (Return(NoRet) => ret' \in R)
      /\ \A me : Continue(me) => ret' \in R
      /\ \A me, c : Call(me, c) => ret' \in R
  BY <1>1 DEF Return, Continue, Call
<1>3. /\ ret' \in R /\ Stay /\ Rest => Carries
      /\ \A v \in {"aborted", "asserted", "assigning"} : Give(v) => Carries
  BY <1>1, CarriesOn
<1>4. CASE ExternalEnter \/ ExternalDeclarator \/ ExternalBody
  <2>1. Stay /\ Rest /\ \E me, c : Call(me, c)
    BY <1>4, Zenon DEF ExternalEnter, ExternalDeclarator, ExternalBody
  <2>2. QED
    BY <1>2, <1>3, <2>1
<1>5. CASE ExternalDone
  <2>1. /\ tokens' = tokens /\ cur' = cur /\ kept' = cur /\ status' = status
        /\ \E me : Continue(me)
    BY <1>5 DEF ExternalDone, Stay
  <2>2. QED
    BY <1>1, <1>2, <2>1 DEF Carries
<1>6. CASE ExternalNil
  <2>1. \/ Give("asserted")
        \/ Return(NoRet) /\ status' = "parsed" /\ tokens' = tokens /\ cur' = cur /\ kept' = kept
    BY <1>6 DEF ExternalNil
  <2>2. CASE Give("asserted")
    BY <1>3, <2>2
  <2>3. CASE Return(NoRet) /\ status' = "parsed" /\ tokens' = tokens /\ cur' = cur /\ kept' = kept
    <3>1. PICK top : top = Top
      OBVIOUS
    <3>2. stack # << >> /\ top.fn = "external"
      BY <1>6, <3>1, AtPlace DEF ExternalNil
    <3>3. stack \in Seq(Frames) /\ Len(stack) = 1
      BY <3>1, <3>2, OfTop DEF Parse, Types, Depth
    <3>4. Front(stack) = << >>
      BY <3>2, <3>3, FrontType, EmptySeq
    <3>5. stack' = << >>
      BY <2>3, <3>4 DEF Return
    <3>6. QED
      BY <1>1, <1>2, <2>3, <3>5 DEF Carries
  <2>4. QED
    BY <2>1, <2>2, <2>3
<1>7. QED
  BY <1>4, <1>5, <1>6 DEF External

-----------------------------------------------------------------------------
(* Until the tree is coalesced                                             *)

StackOK == \A k \in DOMAIN stack : stack[k].expr \in 0 .. Len(nodes) /\ stack[k].lock \in BOOLEAN

Bounded ==
  /\ IsSeq(tokens) /\ cur \in 0 .. Len(tokens) /\ kept \in 0 .. cur
  /\ ret \in {NoRet, "true", "false"}
  /\ status \in {"parsing", "parsed", "done", "aborted", "asserted"}
  /\ StackOK
  /\ status \in {"parsed", "done"} => stack = << >>

TreeInv ==
  /\ status = "parsing" => Tree
  /\ status # "done" => ArenaOK(nodes)

(* The blocks that the activations fill are in the arena.                  *)
LEMMA StackRight == Parse /\ Tree => StackOK
<1> SUFFICES ASSUME Parse, Tree, NEW k \in DOMAIN stack
             PROVE  stack[k].expr \in 0 .. Len(nodes) /\ stack[k].lock \in BOOLEAN
  BY DEF StackOK
<1>1. k \in 1 .. Depth /\ stack[k] \in Frames
  BY LenProperties DEF Parse, Types, Depth
<1>2. PICK f \in Frames : f = stack[k]
  BY <1>1
<1>3. f.expr \in Nat /\ f.lock \in BOOLEAN /\ f.mark[2] \in Nat
  BY FrameFields
<1>4. OfTree(nodes, f)
  BY <1>1, <1>2 DEF Tree
<1>5. f.expr <= f.mark[2] /\ f.mark[2] <= Len(nodes)
  BY <1>4 DEF OfTree, OfAll
<1>6. Len(nodes) \in Nat
  BY SeqDomain DEF Parse, Types
<1>7. QED
  BY <1>2, <1>3, <1>5, <1>6

(* The same of the next state.                                             *)
LEMMA StackRightNext == Parse' /\ Tree' => StackOK'
BY StackRight, PTL

(* What is not touched stays.                                              *)
LEMMA TreeSame ==
  ASSUME Tree, nodes' = nodes, stack' = stack, ret' = ret
  PROVE  Tree'
BY DEF Tree, Depth, Top

(* A rule keeps the arena, ...                                             *)
LEMMA RuleTree ==
  ASSUME FrontInv, TreeInv, ParserNext, ~Coalesce, ~Reveal
  PROVE  TreeKept /\ Carries /\ status = "parsing" /\ Parse /\ Tree
<1>1. Operand \/ Binop \/ Condition \/ Assignment \/ Expr \/ Statement \/ Declaration \/ External
  BY DEF ParserNext
<1>2. status = "parsing"
  BY <1>1 DEF Operand, Binop, BinopEnter, BinopOperator, BinopPlain, BinopRetry,
       BinopFail, BinopDone, BinopAbort, Condition, CondEnter, CondPlain, CondThen, CondElse,
       CondDone, CondAbort, CondFail, Assignment, AssignEnter, AssignPlain, AssignTry, AssignFail,
       Expr, ExprEnter, ExprRetry, ExprEnd, Statement, JumpEnter, JumpValue, JumpDone, JumpAbort,
       CompoundEnter, CompoundEmpty, CompoundList, CompoundMore, CompoundClose, CompoundAbort,
       Declaration, SpecifiersTurn, DeclaratorName, DeclaratorPlain, DeclaratorParams,
       DeclaratorNext, DeclaratorParen, DeclaratorClose, DeclaratorAbort, DeclaratorNone,
       ParameterEnter, ParameterDeclarator, ParameterFail, ParameterDone, External,
       ExternalEnter, ExternalDeclarator, ExternalBody, ExternalDone, ExternalNil, At
<1>3. Parse /\ Tree /\ ArenaOK(nodes)
  BY <1>2 DEF FrontInv, TreeInv
<1>4. TreeKept
  <2>1. Operand => TreeKept
    BY <1>3, OperandTree DEF TreeKept
  <2>2. QED
    BY <1>1, <1>3, <2>1, BinopTree, ConditionTree, AssignmentTree, ExpressionTree, StatementTree,
       DeclarationTree, ExternalTree
<1>5. Carries
  BY <1>1, <1>2, <1>3, ExpressionCarries, StatementCarries, DeclarationCarries, ExternalCarries
<1>6. QED
  BY <1>2, <1>3, <1>4, <1>5

(* ... and what is beside it.                                              *)
LEMMA RuleBounded ==
  ASSUME FrontInv, TreeInv, Bounded, ParserNext, ~Coalesce, ~Reveal
  PROVE  TreeInv' /\ Bounded'
<1>1. TreeKept /\ Carries /\ status = "parsing" /\ Parse /\ Tree
  BY RuleTree
<1>2. StepOK
  BY ParserStep
<1>3. ArenaOK(nodes') /\ (status' = "parsing" => Tree' /\ Parse') /\ status' # "assigning"
  BY <1>1, <1>2 DEF TreeKept, StepOK, NoAssignment
<1>4. TreeInv'
  BY <1>3 DEF TreeInv
<1>5. IsSeq(tokens') /\ cur' \in 0 .. Len(tokens') /\ kept' \in 0 .. cur'
  <2>1. IsSeq(tokens) /\ Len(tokens) \in Nat /\ cur \in 0 .. Len(tokens) /\ kept \in 0 .. cur
    BY SeqDomain DEF Bounded
  <2>2. tokens' = tokens /\ (cur' = cur \/ (cur' = cur + 1 /\ Tok # "INVALID")) /\ (kept' = kept \/ kept' = cur')
    BY <1>1 DEF Carries
  <2>3. Tok # "INVALID" => cur < Len(tokens)
    BY DEF Tok
  <2>4. QED
    BY <2>1, <2>2, <2>3
<1>6. ret' \in {NoRet, "true", "false"} /\ status' \in {"parsing", "parsed", "done", "aborted", "asserted"}
  BY <1>1, <1>3 DEF Carries
<1>7. StackOK'
  <2>1. CASE status' = "parsing"
    BY <1>3, <2>1, StackRightNext
  <2>2. CASE nodes' = nodes /\ stack' = stack
    BY <2>2 DEF Bounded, StackOK
  <2>3. CASE stack' = << >>
    BY <2>3 DEF StackOK
  <2>4. QED
    BY <1>1, <2>1, <2>2, <2>3 DEF Carries
<1>8. status' \in {"parsed", "done"} => stack' = << >>
  BY <1>1 DEF Carries
<1>9. QED
  BY <1>4, <1>5, <1>6, <1>7, <1>8 DEF Bounded

(* So it is when a token comes into sight.                                 *)
LEMMA RevealBounded ==
  ASSUME FrontInv, TreeInv, Bounded, Reveal
  PROVE  TreeInv' /\ Bounded'
<1>1. /\ status = "parsing" /\ ~Known /\ cur' = cur /\ nodes' = nodes /\ stack' = stack /\ ret' = ret
      /\ status' = status /\ kept' = kept
  BY DEF Reveal
<1>2. Parse /\ Tree /\ ArenaOK(nodes)
  BY <1>1 DEF FrontInv, TreeInv
<1>3. TreeInv'
  BY <1>1, <1>2, TreeSame DEF TreeInv
<1>4. IsSeq(tokens') /\ Len(tokens) \in Nat /\ Len(tokens') \in Nat /\ Len(tokens) <= Len(tokens')
  BY <1>1, <1>2, Sighted
<1>5. cur' \in 0 .. Len(tokens') /\ kept' \in 0 .. cur'
  BY <1>1, <1>4 DEF Bounded
<1>6. QED
  BY <1>1, <1>3, <1>4, <1>5 DEF Bounded, StackOK

-----------------------------------------------------------------------------
(* What a reference is replaced by                                         *)

(* A block of one child is not in one that is in one.                      *)
Short(ns) ==
  \A n \in 1 .. Len(ns) : Single(ns, n) =>
    /\ ns[n].kids[1] \in 1 .. Len(ns)
    /\ Single(ns, ns[n].kids[1]) =>
         /\ ns[ns[n].kids[1]].kids[1] \in 1 .. Len(ns)
         /\ ~Single(ns, ns[ns[n].kids[1]].kids[1])

(* So that it takes two steps at most.                                     *)
Co(ns, n) ==
  IF ~Single(ns, n) THEN n
  ELSE IF ~Single(ns, ns[n].kids[1]) THEN ns[n].kids[1]
       ELSE ns[ns[n].kids[1]].kids[1]

(* A node whose children are what they should be, and that is one block:   *)
(* of a value.                                                             *)
LEMMA SingleDone ==
  ASSUME NEW ns, NEW n, Done(ns, n), Single(ns, n)
  PROVE  ns[ns[n].kids[1]].type \in LeafTypes \cup OpsTo(Len(Ops)) /\ ~Single(ns, ns[n].kids[1])
<1>1. ns[n].type = "BLOCK"
  BY DEF Single
<1>2. ValueIn(ns, n, Len(Ops))
  <2>1. ns[n].type \notin LeafTypes \cup {"NEW_VAR"}
    BY <1>1 DEF LeafTypes
  <2>2. \A l \in 1 .. Len(Ops) : Ops[l] # "BLOCK"
    BY Kinds
  <2>3. QED
    BY <1>1, <2>1, <2>2 DEF Done, OpDone, IfDone, ReturnDone
<1>3. ns[ns[n].kids[1]].type \in LeafTypes \cup OpsTo(Len(Ops))
  BY <1>2 DEF ValueIn
<1>4. "BLOCK" \notin LeafTypes \cup OpsTo(Len(Ops))
  BY Kinds DEF LeafTypes
<1>5. QED
  BY <1>3, <1>4 DEF Single

(* So it is in the arena.                                                  *)
LEMMA ArenaShort ==
  ASSUME NEW ns, ArenaOK(ns)
  PROVE  Short(ns)
<1> SUFFICES ASSUME NEW n \in 1 .. Len(ns), Single(ns, n)
             PROVE  /\ ns[n].kids[1] \in 1 .. Len(ns)
                    /\ Single(ns, ns[n].kids[1]) =>
                         /\ ns[ns[n].kids[1]].kids[1] \in 1 .. Len(ns)
                         /\ ~Single(ns, ns[ns[n].kids[1]].kids[1])
  BY DEF Short
<1>1. \A m \in 1 .. Len(ns) : Formed(ns, m) /\ ListOK(ns, m)
  BY DEF ArenaOK, NodeOK
<1>2. PICK k : k = ns[n].kids[1]
  OBVIOUS
<1>3. k \in Kids(ns, n)
  BY <1>1, <1>2, KidOf
<1>4. k \in 1 .. Len(ns)
  BY <1>1, <1>3 DEF Formed
<1>5. Done(ns, k)
  BY <1>1, <1>3 DEF ListOK, Single
<1>6. ASSUME Single(ns, k)
      PROVE  ns[k].kids[1] \in 1 .. Len(ns) /\ ~Single(ns, ns[k].kids[1])
  <2>1. ns[k].kids[1] \in Kids(ns, k)
    BY <1>1, <1>4, <1>6, KidOf
  <2>2. ns[k].kids[1] \in 1 .. Len(ns)
    BY <1>1, <1>4, <2>1 DEF Formed
  <2>3. QED
    BY <1>5, <1>6, <2>2, SingleDone
<1>7. QED
  BY <1>2, <1>4, <1>6

(* What a reference is replaced by is no block of one child.               *)
LEMMA CoEnds ==
  ASSUME NEW ns, Short(ns), NEW n \in 1 .. Len(ns)
  PROVE  Co(ns, n) \in 1 .. Len(ns) /\ ~Single(ns, Co(ns, n))
BY DEF Short, Co

(* f is a reading of Coalesced.                                            *)
Joins(f, ns) ==
  f = [n \in DOMAIN ns |->
         IF ns[n].type = "BLOCK" /\ Len(ns[n].kids) = 1 THEN f[ns[n].kids[1]] ELSE n]

(* There is one, ...                                                       *)
LEMMA JoinsExists ==
  ASSUME NEW ns, IsSeq(ns), Short(ns)
  PROVE  \E f : Joins(f, ns)
<1>1. PICK D : D = DOMAIN ns
  OBVIOUS
<1>2. D = 1 .. Len(ns)
  BY <1>1, SeqDomain
<1>3. PICK f : f = [n \in D |-> Co(ns, n)]
  OBVIOUS
<1>4. ASSUME NEW n \in D
      PROVE  Co(ns, n) = IF ns[n].type = "BLOCK" /\ Len(ns[n].kids) = 1 THEN f[ns[n].kids[1]] ELSE n
  <2>1. CASE Single(ns, n)
    <3>1. PICK k : k = ns[n].kids[1]
      OBVIOUS
    <3>2. k \in D /\ (Single(ns, k) => ~Single(ns, ns[k].kids[1]))
      BY <1>2, <1>4, <2>1, <3>1 DEF Short
    <3>3. f[k] = Co(ns, k)
      BY <1>3, <3>2
    <3>4. Co(ns, n) = Co(ns, k)
      BY <2>1, <3>1, <3>2 DEF Co
    <3>5. QED
      BY <2>1, <3>1, <3>3, <3>4 DEF Single
  <2>2. CASE ~Single(ns, n)
    BY <2>2 DEF Single, Co
  <2>3. QED
    BY <2>1, <2>2
<1>5. f = [n \in D |-> IF ns[n].type = "BLOCK" /\ Len(ns[n].kids) = 1 THEN f[ns[n].kids[1]] ELSE n]
  BY <1>3, <1>4
<1>6. QED
  BY <1>1, <1>5 DEF Joins

(* ... and any is this.                                                    *)
LEMMA JoinsIs ==
  ASSUME NEW ns, IsSeq(ns), Short(ns), NEW f, Joins(f, ns), NEW n \in 1 .. Len(ns)
  PROVE  f[n] = Co(ns, n)
<1>1. DOMAIN ns = 1 .. Len(ns)
  BY SeqDomain
<1>2. \A m \in 1 .. Len(ns) : f[m] = IF Single(ns, m) THEN f[ns[m].kids[1]] ELSE m
  BY <1>1 DEF Joins, Single
<1>3. CASE ~Single(ns, n)
  BY <1>2, <1>3 DEF Co
<1>4. CASE Single(ns, n)
  <2>1. PICK k : k = ns[n].kids[1]
    OBVIOUS
  <2>2. k \in 1 .. Len(ns) /\ (Single(ns, k) => ns[k].kids[1] \in 1 .. Len(ns) /\ ~Single(ns, ns[k].kids[1]))
    BY <1>4, <2>1 DEF Short
  <2>3. f[n] = f[k]
    BY <1>2, <1>4, <2>1
  <2>4. f[k] = IF Single(ns, k) THEN ns[k].kids[1] ELSE k
    <3>1. CASE Single(ns, k)
      BY <1>2, <2>2, <3>1
    <3>2. CASE ~Single(ns, k)
      BY <1>2, <2>2, <3>2
    <3>3. QED
      BY <3>1, <3>2
  <2>5. QED
    BY <1>4, <2>1, <2>3, <2>4 DEF Co
<1>5. QED
  BY <1>3, <1>4

(* So a reference is replaced by this.                                     *)
LEMMA CoalescedIs ==
  (IsSeq(nodes) /\ Short(nodes)) => \A n \in 1 .. Len(nodes) : Coalesced[n] = Co(nodes, n)
<1> SUFFICES ASSUME IsSeq(nodes), Short(nodes), NEW n \in 1 .. Len(nodes)
             PROVE  Coalesced[n] = Co(nodes, n)
  OBVIOUS
<1>1. \E f : Joins(f, nodes)
  BY JoinsExists
<1>2. PICK g : g = CHOOSE f : Joins(f, nodes)
  OBVIOUS
<1>3. Joins(g, nodes)
  BY <1>1, <1>2, Zenon
<1>4. Coalesced = g
  BY <1>2, Zenon DEF Coalesced, Joins
<1>5. g[n] = Co(nodes, n)
  BY <1>3, JoinsIs
<1>6. QED
  BY <1>4, <1>5

(* ms is the arena ns, its references replaced.                            *)
Coalesces(ns, ms) ==
  /\ IsSeq(ms) /\ Len(ms) = Len(ns)
  /\ \A n \in 1 .. Len(ns) :
       /\ IsNode(ms[n]) /\ ms[n].type = ns[n].type /\ ms[n].name = ns[n].name /\ ms[n].func = ns[n].func
       /\ IsSeq(ms[n].kids) /\ Len(ms[n].kids) = Len(ns[n].kids)
       /\ \A k \in 1 .. Len(ns[n].kids) : ms[n].kids[k] = Co(ns, ns[n].kids[k])

(* That is what is left.                                                   *)
LEMMA CoalesceLeaves ==
  ASSUME ArenaOK(nodes), Coalesce
  PROVE  Coalesces(nodes, nodes')
<1>1. PICK ns : ns = nodes
  OBVIOUS
<1>2. PICK ms : ms = nodes'
  OBVIOUS
<1>3. /\ IsSeq(ns) /\ DOMAIN ns = 1 .. Len(ns) /\ Len(ns) \in Nat
      /\ \A n \in 1 .. Len(ns) : Formed(ns, n)
  BY <1>1, SeqDomain DEF ArenaOK, NodeOK
<1>4. PICK co : co = Coalesced
  OBVIOUS
<1>5. \A n \in 1 .. Len(ns) : co[n] = Co(ns, n)
  BY <1>1, <1>3, <1>4, ArenaShort, CoalescedIs
<1>6. ms = [n \in DOMAIN ns |-> [ns[n] EXCEPT !.kids = [k \in DOMAIN ns[n].kids |-> co[ns[n].kids[k]]]]]
  BY <1>1, <1>2, <1>4, Zenon DEF Coalesce
<1>7. IsSeq(ms) /\ Len(ms) = Len(ns)
  <2>1. PICK l \in Nat : l = Len(ns)
    BY <1>3
  <2>2. DOMAIN ms = 1 .. l
    BY <1>3, <1>6, <2>1
  <2>3. ms = [n \in 1 .. l |-> ms[n]]
    BY <1>3, <1>6, <2>1, <2>2
  <2>4. QED
    BY <2>1, <2>3, SeqFunction, SMTT(30)
<1>8. ASSUME NEW n \in 1 .. Len(ns)
      PROVE  /\ IsNode(ms[n]) /\ ms[n].type = ns[n].type /\ ms[n].name = ns[n].name /\ ms[n].func = ns[n].func
             /\ IsSeq(ms[n].kids) /\ Len(ms[n].kids) = Len(ns[n].kids)
             /\ \A k \in 1 .. Len(ns[n].kids) : ms[n].kids[k] = Co(ns, ns[n].kids[k])
  <2>1. PICK old : old = ns[n]
    OBVIOUS
  <2>2. PICK kids : kids = [k \in DOMAIN old.kids |-> co[old.kids[k]]]
    OBVIOUS
  <2>3. ms[n] = [old EXCEPT !.kids = kids]
    BY <1>3, <1>6, <1>8, <2>1, <2>2
  <2>4. PICK type, us, name, func : old = [type |-> type, kids |-> us, name |-> name, func |-> func]
    BY <1>3, <2>1 DEF Formed, IsNode
  <2>5. ms[n] = [type |-> type, kids |-> kids, name |-> name, func |-> func]
    BY <2>3, <2>4
  <2>6. IsNode(ms[n]) /\ ms[n].type = old.type /\ ms[n].name = old.name /\ ms[n].func = old.func /\ ms[n].kids = kids
    BY <2>4, <2>5 DEF IsNode
  <2>7. IsSeq(old.kids) /\ DOMAIN old.kids = 1 .. Len(old.kids) /\ Len(old.kids) \in Nat
        /\ \A k \in 1 .. Len(old.kids) : old.kids[k] \in 1 .. Len(ns)
    BY <1>3, <2>1, KidsOf, SeqDomain DEF Formed
  <2>8. \A k \in 1 .. Len(old.kids) : kids[k] = Co(ns, old.kids[k])
    BY <1>5, <2>2, <2>7
  <2>9. IsSeq(kids) /\ Len(kids) = Len(old.kids)
    <3>1. PICK l \in Nat : l = Len(old.kids)
      BY <2>7
    <3>2. kids = [k \in 1 .. l |-> kids[k]]
      BY <2>2, <2>7, <3>1
    <3>3. QED
      BY <3>1, <3>2, SeqFunction
  <2>10. QED
    BY <2>1, <2>6, <2>8, <2>9
<1>9. Coalesces(ns, ms)
  BY <1>7, <1>8 DEF Coalesces
<1>10. QED
  BY <1>1, <1>2, <1>9

(* References stay in the arena, and no block of one child is referred to. *)
LEMMA CoalescedKids ==
  ASSUME NEW ns, NEW ms, ArenaOK(ns), Coalesces(ns, ms), NEW n \in 1 .. Len(ns)
  PROVE  /\ DOMAIN ms[n].kids = 1 .. Len(ns[n].kids) /\ Len(ns[n].kids) \in Nat
         /\ (Single(ms, n) <=> Single(ns, n))
         /\ \A k \in 1 .. Len(ns[n].kids) :
              /\ ns[n].kids[k] \in Kids(ns, n) /\ ns[n].kids[k] \in 1 .. Len(ns)
              /\ ms[n].kids[k] = Co(ns, ns[n].kids[k])
              /\ ms[n].kids[k] \in 1 .. Len(ns) /\ ~Single(ns, ms[n].kids[k])
         /\ \A m \in Kids(ms, n) : \E j \in Kids(ns, n) : m = Co(ns, j)
<1>1. Formed(ns, n)
  BY DEF ArenaOK, NodeOK
<1>2. /\ IsSeq(ms[n].kids) /\ Len(ms[n].kids) = Len(ns[n].kids) /\ ms[n].type = ns[n].type
      /\ \A k \in 1 .. Len(ns[n].kids) : ms[n].kids[k] = Co(ns, ns[n].kids[k])
  BY DEF Coalesces
<1>3. DOMAIN ms[n].kids = 1 .. Len(ns[n].kids) /\ Len(ns[n].kids) \in Nat
  BY <1>2, SeqDomain
<1>4. Single(ms, n) <=> Single(ns, n)
  BY <1>2 DEF Single
<1>5. \A k \in 1 .. Len(ns[n].kids) : ns[n].kids[k] \in Kids(ns, n) /\ ns[n].kids[k] \in 1 .. Len(ns)
  BY <1>1, KidsOf
<1>6. \A k \in 1 .. Len(ns[n].kids) : ms[n].kids[k] \in 1 .. Len(ns) /\ ~Single(ns, ms[n].kids[k])
  BY <1>2, <1>5, ArenaShort, CoEnds
<1>7. \A m \in Kids(ms, n) : \E j \in Kids(ns, n) : m = Co(ns, j)
  BY <1>2, <1>3, <1>5 DEF Kids
<1>8. QED
  BY <1>2, <1>3, <1>4, <1>5, <1>6, <1>7

(* So coalescing once more changes nothing.                                *)
LEMMA CoalescedShort ==
  ASSUME NEW ns, NEW ms, ArenaOK(ns), Coalesces(ns, ms)
  PROVE  IsSeq(ms) /\ Len(ms) = Len(ns) /\ Short(ms)
<1>1. IsSeq(ms) /\ Len(ms) = Len(ns)
  BY DEF Coalesces
<1>2. ASSUME NEW n \in 1 .. Len(ns), Single(ms, n)
      PROVE  ms[n].kids[1] \in 1 .. Len(ns) /\ ~Single(ms, ms[n].kids[1])
  <2>1. Len(ns[n].kids) = 1
    BY <1>2 DEF Coalesces, Single
  <2>2. ms[n].kids[1] \in 1 .. Len(ns) /\ ~Single(ns, ms[n].kids[1])
    BY <2>1, CoalescedKids
  <2>3. QED
    BY <2>2, CoalescedKids
<1>3. QED
  BY <1>1, <1>2 DEF Short

-----------------------------------------------------------------------------
(* References go forward                                                   *)

(* Where a node is in an order in which children follow their parents: a   *)
(* branch is before the oldest of its own.                                 *)
Rank(ns, n) ==
  IF n = NIL THEN 2 * Len(ns) + 1
  ELSE IF ns[n].type \in Branches THEN 2 * ns[n].kids[1] - 1 ELSE 2 * n

(* The ranks are bounded.                                                  *)
LEMMA RankBounded ==
  ASSUME NEW ns, ArenaOK(ns), NEW n \in 1 .. Len(ns)
  PROVE  Rank(ns, n) \in 0 .. 2 * Len(ns) + 1
<1>1. Len(ns) \in Nat /\ Formed(ns, n) /\ BranchOK(ns, n)
  BY SeqDomain DEF ArenaOK, NodeOK
<1>2. PICK N \in Nat : N = Len(ns)
  BY <1>1
<1>3. n \in Nat /\ 1 <= n /\ n <= N
  BY <1>2
<1>4. CASE ns[n].type \in Branches
  <2>1. Len(ns[n].kids) >= 1 /\ Len(ns[n].kids) \in Nat
    BY <1>1, <1>4, KidsOf DEF BranchOK
  <2>2. 1 \in 1 .. Len(ns[n].kids)
    BY <2>1
  <2>3. ns[n].kids[1] \in 1 .. Len(ns)
    BY <1>1, <2>2, KidsOf
  <2>4. PICK k \in Nat : k = ns[n].kids[1] /\ 1 <= k /\ k <= N
    BY <1>2, <2>3
  <2>5. Rank(ns, n) = 2 * N + 1 \/ Rank(ns, n) = 2 * k - 1
    BY <1>2, <1>4, <2>4 DEF Rank
  <2>6. QED
    BY <1>2, <2>4, <2>5
<1>5. CASE ns[n].type \notin Branches
  <2>1. Rank(ns, n) = 2 * N + 1 \/ Rank(ns, n) = 2 * n
    BY <1>2, <1>5 DEF Rank
  <2>2. QED
    BY <1>2, <1>3, <2>1
<1>6. QED
  BY <1>4, <1>5

(* A child follows, ...                                                    *)
LEMMA RankKid ==
  ASSUME NEW ns, ArenaOK(ns), NEW n \in 1 .. Len(ns), NEW m \in Kids(ns, n)
  PROVE  m \in 1 .. Len(ns) /\ Rank(ns, m) > Rank(ns, n)
<1>1. /\ Len(ns) \in Nat /\ Formed(ns, n) /\ BranchOK(ns, n) /\ ListOK(ns, n)
      /\ ns[NIL].type = "INVALID" /\ Len(ns) >= 2
  BY SeqDomain DEF ArenaOK, NodeOK
<1>2. m \in 1 .. Len(ns)
  BY <1>1 DEF Formed
<1>3. Formed(ns, m) /\ BranchOK(ns, m)
  BY <1>2 DEF ArenaOK, NodeOK
<1>4. PICK N \in Nat : N = Len(ns)
  BY <1>1
<1>5. n # NIL
  BY <1>1 DEF ListOK
<1>6. n \in Nat /\ 1 <= n /\ n <= N /\ m \in Nat /\ 1 <= m /\ m <= N
  BY <1>2, <1>4
<1>7. ns[m].type \in Branches => ns[m].kids[1] \in 1 .. N
  <2>1. SUFFICES ASSUME ns[m].type \in Branches PROVE ns[m].kids[1] \in 1 .. N
    OBVIOUS
  <2>2. Len(ns[m].kids) >= 1 /\ Len(ns[m].kids) \in Nat
    BY <1>3, <2>1, KidsOf DEF BranchOK
  <2>3. 1 \in 1 .. Len(ns[m].kids)
    BY <2>2
  <2>4. QED
    BY <1>3, <1>4, <2>3, KidsOf
<1>8. CASE ns[n].type \in Branches
  <2>1. Len(ns[n].kids) >= 1 /\ Len(ns[n].kids) \in Nat
    BY <1>1, <1>8, KidsOf DEF BranchOK
  <2>2. 1 \in 1 .. Len(ns[n].kids)
    BY <2>1
  <2>3. ns[n].kids[1] \in 1 .. Len(ns)
    BY <1>1, <2>2, KidsOf
  <2>4. PICK k \in Nat : k = ns[n].kids[1] /\ 1 <= k /\ k <= N
    BY <1>4, <2>3
  <2>5. Rank(ns, n) = 2 * k - 1
    BY <1>5, <1>8, <2>4 DEF Rank
  <2>6. m = NIL \/ (k <= m /\ ns[m].type \notin Branches)
    <3>1. CASE ns[n].type # "NEW_VAR"
      <4>1. ns[m].type = "BLOCK" /\ k <= m
        BY <1>1, <1>8, <2>4, <3>1 DEF BranchOK
      <4>2. QED
        BY <4>1, NoBranches
    <3>2. CASE ns[n].type = "NEW_VAR"
      <4>1. /\ Len(ns[n].kids) = 2 /\ ns[k].type = "NEW_TYPE"
            /\ \/ ns[n].kids[2] = NIL
               \/ k <= ns[n].kids[2] /\ ns[ns[n].kids[2]].type = "BLOCK"
        BY <1>1, <1>8, <2>4, <3>2 DEF BranchOK, Returns
      <4>2. DOMAIN ns[n].kids = 1 .. 2 /\ \A d \in 1 .. 2 : d = 1 \/ d = 2
        BY <1>1, <4>1, KidsOf
      <4>3. m = k \/ m = ns[n].kids[2]
        BY <2>4, <4>2 DEF Kids
      <4>4. QED
        BY <2>4, <4>1, <4>3, NoBranches
    <3>3. QED
      BY <3>1, <3>2
  <2>7. Rank(ns, m) = 2 * N + 1 \/ (k <= m /\ Rank(ns, m) = 2 * m)
    BY <1>4, <2>6 DEF Rank
  <2>8. QED
    BY <1>2, <1>6, <2>4, <2>5, <2>7
<1>9. CASE ns[n].type \notin Branches
  <2>1. Rank(ns, n) = 2 * n
    BY <1>5, <1>9 DEF Rank
  <2>2. ns[n].type \in {"BLOCK", "NEW_TYPE"}
    BY <1>1, <1>9 DEF Formed, ListOK
  <2>3. Oldest(ns, m) > n
    BY <1>1, <2>2 DEF ListOK
  <2>4. CASE m = NIL
    BY <1>2, <1>4, <1>6, <2>1, <2>4 DEF Rank
  <2>5. CASE m # NIL /\ ns[m].type \in Branches
    <3>1. PICK k \in Nat : k = ns[m].kids[1]
      BY <1>7, <2>5
    <3>2. k > n /\ Rank(ns, m) = 2 * k - 1
      BY <2>3, <2>5, <3>1 DEF Oldest, Rank
    <3>3. QED
      BY <1>2, <1>6, <2>1, <3>2
  <2>6. CASE m # NIL /\ ns[m].type \notin Branches
    <3>1. m > n /\ Rank(ns, m) = 2 * m
      BY <2>3, <2>6 DEF Oldest, Rank
    <3>2. QED
      BY <1>2, <1>6, <2>1, <3>1
  <2>7. QED
    BY <2>4, <2>5, <2>6
<1>10. QED
  BY <1>8, <1>9

(* ... and so does what it is replaced by.                                 *)
LEMMA RankCoalesced ==
  ASSUME NEW ns, NEW ms, ArenaOK(ns), Coalesces(ns, ms), NEW n \in 1 .. Len(ns), NEW m \in Kids(ms, n)
  PROVE  m \in 1 .. Len(ns) /\ Rank(ns, m) > Rank(ns, n)
<1>1. PICK j \in Kids(ns, n) : m = Co(ns, j)
  BY CoalescedKids
<1>2. j \in 1 .. Len(ns) /\ Rank(ns, j) > Rank(ns, n)
  BY RankKid
<1>3. Short(ns)
  BY ArenaShort
<1>4. m \in 1 .. Len(ns)
  BY <1>1, <1>2, <1>3, CoEnds
<1>5. \A i \in 1 .. Len(ns) : Rank(ns, i) \in Int
  BY RankBounded
<1>6. \A i \in 1 .. Len(ns) : Single(ns, i) =>
        ns[i].kids[1] \in 1 .. Len(ns) /\ Rank(ns, ns[i].kids[1]) > Rank(ns, i)
  <2>1. SUFFICES ASSUME NEW i \in 1 .. Len(ns), Single(ns, i)
                 PROVE  ns[i].kids[1] \in 1 .. Len(ns) /\ Rank(ns, ns[i].kids[1]) > Rank(ns, i)
    OBVIOUS
  <2>2. Formed(ns, i)
    BY DEF ArenaOK, NodeOK
  <2>3. ns[i].kids[1] \in Kids(ns, i)
    BY <2>1, <2>2, KidOf
  <2>4. QED
    BY <2>3, RankKid
<1>7. CASE ~Single(ns, j)
  BY <1>1, <1>2, <1>7 DEF Co
<1>8. CASE Single(ns, j)
  <2>1. PICK k : k = ns[j].kids[1]
    OBVIOUS
  <2>2. k \in 1 .. Len(ns) /\ Rank(ns, k) > Rank(ns, j)
    BY <1>2, <1>6, <1>8, <2>1
  <2>3. CASE ~Single(ns, k)
    <3>1. m = k
      BY <1>1, <1>8, <2>1, <2>3 DEF Co
    <3>2. QED
      BY <1>2, <1>5, <2>2, <3>1
  <2>4. CASE Single(ns, k)
    <3>1. m = ns[k].kids[1]
      BY <1>1, <1>8, <2>1, <2>4 DEF Co
    <3>2. Rank(ns, m) > Rank(ns, k)
      BY <1>6, <2>2, <2>4, <3>1
    <3>3. QED
      BY <1>2, <1>4, <1>5, <2>2, <3>2
  <2>5. QED
    BY <2>3, <2>4
<1>9. QED
  BY <1>7, <1>8

-----------------------------------------------------------------------------
(* What is below a node                                                    *)

(* f is a reading of Below.                                                *)
Descends(f, ns) == f = [n \in DOMAIN ns |-> {n} \cup UNION {f[k] : k \in Range(ns[n].kids)}]

(* What is come to from n, along references.                               *)
Heeds(S, ns) == \A n \in S : \A m \in Kids(ns, n) : m \in S
Reach(ns, n) == {j \in DOMAIN ns : \A S \in SUBSET DOMAIN ns : n \in S /\ Heeds(S, ns) => j \in S}

(* There is such a reading, ...                                            *)
LEMMA DescendsExists ==
  ASSUME NEW ns, \A n \in DOMAIN ns : Kids(ns, n) \subseteq DOMAIN ns
  PROVE  \E f : Descends(f, ns)
<1>1. PICK D : D = DOMAIN ns
  OBVIOUS
<1>2. PICK f : f = [n \in D |-> Reach(ns, n)]
  OBVIOUS
<1>3. ASSUME NEW n \in D
      PROVE  n \in Reach(ns, n) /\ Reach(ns, n) \subseteq D /\ Heeds(Reach(ns, n), ns) /\ Kids(ns, n) \subseteq D
  <2>1. n \in Reach(ns, n) /\ Reach(ns, n) \subseteq D /\ Kids(ns, n) \subseteq D
    BY <1>1 DEF Reach
  <2>2. ASSUME NEW j \in Reach(ns, n), NEW m \in Kids(ns, j) PROVE m \in Reach(ns, n)
    <3>1. j \in D /\ m \in D
      BY <1>1, <2>1
    <3>2. ASSUME NEW S \in SUBSET D, n \in S, Heeds(S, ns) PROVE m \in S
      <4>1. j \in S
        BY <1>1, <3>2 DEF Reach
      <4>2. QED
        BY <3>2, <4>1 DEF Heeds
    <3>3. QED
      BY <1>1, <3>1, <3>2 DEF Reach
  <2>3. QED
    BY <2>1, <2>2 DEF Heeds
<1>4. ASSUME NEW n \in D
      PROVE  Reach(ns, n) = {n} \cup UNION {f[k] : k \in Range(ns[n].kids)}
  <2>1. PICK K : K = Kids(ns, n) /\ K = Range(ns[n].kids)
    BY DEF Kids, Range
  <2>2. K \subseteq D /\ \A k \in K : f[k] = Reach(ns, k)
    BY <1>2, <1>3, <2>1
  <2>3. PICK S : S = {n} \cup UNION {f[k] : k \in K}
    OBVIOUS
  <2>4. S \subseteq D
    BY <1>3, <2>2, <2>3
  <2>5. Heeds(S, ns)
    <3>1. SUFFICES ASSUME NEW j \in S, NEW m \in Kids(ns, j) PROVE m \in S
      BY DEF Heeds
    <3>2. CASE j = n
      <4>1. m \in K /\ m \in Reach(ns, m)
        BY <1>3, <2>1, <2>2, <3>1, <3>2
      <4>2. QED
        BY <2>2, <2>3, <4>1
    <3>3. CASE j # n
      <4>1. PICK k \in K : j \in f[k]
        BY <2>3, <3>3
      <4>2. m \in f[k]
        BY <1>3, <2>2, <4>1 DEF Heeds
      <4>3. QED
        BY <2>3, <4>2
    <3>4. QED
      BY <3>2, <3>3
  <2>6. Reach(ns, n) \subseteq S
    <3>1. n \in S
      BY <2>3
    <3>2. QED
      BY <1>1, <2>4, <2>5, <3>1 DEF Reach
  <2>7. S \subseteq Reach(ns, n)
    <3>1. SUFFICES ASSUME NEW j \in S PROVE j \in Reach(ns, n)
      OBVIOUS
    <3>2. CASE j = n
      BY <1>3, <3>2
    <3>3. CASE j # n
      <4>1. PICK k \in K : j \in Reach(ns, k)
        BY <2>2, <2>3, <3>3
      <4>2. k \in Reach(ns, n)
        BY <1>3, <2>1 DEF Heeds
      <4>3. j \in D
        BY <1>3, <2>2, <4>1
      <4>4. ASSUME NEW T \in SUBSET D, n \in T, Heeds(T, ns) PROVE j \in T
        <5>1. k \in T
          BY <1>1, <4>2, <4>4 DEF Reach
        <5>2. QED
          BY <1>1, <4>1, <4>4, <5>1 DEF Reach
      <4>5. QED
        BY <1>1, <4>3, <4>4 DEF Reach
    <3>4. QED
      BY <3>2, <3>3
  <2>8. Reach(ns, n) = S
    BY <2>6, <2>7
  <2>9. QED
    BY <2>1, <2>3, <2>8
<1>5. f = [n \in D |-> {n} \cup UNION {f[k] : k \in Range(ns[n].kids)}]
  BY <1>2, <1>4
<1>6. QED
  BY <1>1, <1>5 DEF Descends

(* ... and where references go forward, any of them stays among nodes that *)
(* only refer to each other.                                               *)
LEMMA DescendsIn ==
  ASSUME NEW ns, NEW f, Descends(f, ns), NEW N \in Nat, NEW rank,
         \A n \in DOMAIN ns : rank[n] \in 0 .. N /\ \A m \in Kids(ns, n) : m \in DOMAIN ns /\ rank[m] > rank[n],
         NEW G, G \subseteq DOMAIN ns, Heeds(G, ns), NEW n \in G
  PROVE  f[n] \subseteq G
<1>1. SUFFICES ASSUME ~(f[n] \subseteq G) PROVE FALSE
  OBVIOUS
<1>2. PICK B : B = {i \in G : ~(f[i] \subseteq G)}
  OBVIOUS
<1>3. PICK R : R = {rank[i] : i \in B}
  OBVIOUS
<1>4. R \subseteq 0 .. N /\ R # {}
  BY <1>1, <1>2, <1>3
<1>5. PICK x \in R : \A y \in R : y <= x
  BY <1>4, GreatestOf
<1>6. PICK i \in B : x = rank[i]
  BY <1>3
<1>7. i \in G /\ i \in DOMAIN ns /\ ~(f[i] \subseteq G)
  BY <1>2
<1>8. \A y \in R : y \in Nat
  BY <1>4
<1>9. ASSUME NEW k \in Kids(ns, i) PROVE f[k] \subseteq G
  <2>1. k \in G /\ rank[k] > rank[i] /\ rank[k] \in 0 .. N /\ rank[i] \in 0 .. N
    BY <1>7 DEF Heeds
  <2>2. rank[k] \notin R
    BY <1>5, <1>6, <2>1
  <2>3. k \notin B
    BY <1>3, <2>2
  <2>4. QED
    BY <1>2, <2>1, <2>3
<1>10. f[i] = {i} \cup UNION {f[k] : k \in Range(ns[i].kids)}
  BY <1>7 DEF Descends
<1>11. Range(ns[i].kids) = Kids(ns, i)
  BY DEF Range, Kids
<1>12. f[i] \subseteq G
  BY <1>7, <1>9, <1>10, <1>11
<1>13. QED
  BY <1>7, <1>12

(* So it is below a node of the tree.                                      *)
LEMMA BelowIn ==
  ASSUME NEW ns, ArenaOK(ns), Coalesces(ns, nodes),
         NEW G, G \subseteq 1 .. Len(ns), Heeds(G, nodes), NEW n \in G
  PROVE  Below[n] \subseteq G
<1>1. PICK D : D = 1 .. Len(ns)
  OBVIOUS
<1>2. DOMAIN nodes = D /\ Len(ns) \in Nat
  BY <1>1, SeqDomain DEF Coalesces
<1>3. PICK rank : rank = [i \in D |-> Rank(ns, i)]
  OBVIOUS
<1>4. \A i \in D : rank[i] \in 0 .. 2 * Len(ns) + 1 /\ \A m \in Kids(nodes, i) : m \in D /\ rank[m] > rank[i]
  <2>1. SUFFICES ASSUME NEW i \in D
                 PROVE  /\ rank[i] \in 0 .. 2 * Len(ns) + 1
                        /\ \A m \in Kids(nodes, i) : m \in D /\ rank[m] > rank[i]
    OBVIOUS
  <2>2. i \in 1 .. Len(ns) /\ rank[i] = Rank(ns, i)
    BY <1>1, <1>3
  <2>3. Rank(ns, i) \in 0 .. 2 * Len(ns) + 1
    BY <2>2, RankBounded
  <2>4. ASSUME NEW m \in Kids(nodes, i) PROVE m \in D /\ rank[m] > rank[i]
    <3>1. m \in 1 .. Len(ns) /\ Rank(ns, m) > Rank(ns, i)
      BY <2>2, RankCoalesced
    <3>2. rank[m] = Rank(ns, m)
      BY <1>1, <1>3, <3>1
    <3>3. QED
      BY <1>1, <2>2, <3>1, <3>2
  <2>5. QED
    BY <2>2, <2>3, <2>4
<1>5. \E f : Descends(f, nodes)
  BY <1>2, <1>4, DescendsExists
<1>6. PICK g : g = CHOOSE f : Descends(f, nodes)
  OBVIOUS
<1>7. Descends(g, nodes)
  BY <1>5, <1>6, Zenon
<1>8. Below = g
  BY <1>6, Zenon DEF Below, Descends
<1>9. PICK N \in Nat : N = 2 * Len(ns) + 1
  BY <1>2
<1>10. \A i \in DOMAIN nodes : rank[i] \in 0 .. N /\ \A m \in Kids(nodes, i) : m \in DOMAIN nodes /\ rank[m] > rank[i]
  BY <1>2, <1>4, <1>9
<1>11. G \subseteq DOMAIN nodes
  BY <1>1, <1>2
<1>12. g[n] \subseteq G
  BY <1>7, <1>10, <1>11, DescendsIn, Zenon
<1>13. QED
  BY <1>8, <1>12

-----------------------------------------------------------------------------
(* The shapes of the coalesced tree                                        *)

(* A node of the tree: no block of one child, and its children are what    *)
(* they should be.                                                         *)
Good(ns, n) ==
  \/ ns[n].type \in LeafTypes \cup {"NEW_VAR", "NEW_TYPE", "INVALID"}
  \/ OpDone(ns, n) \/ IfDone(ns, n) \/ ReturnDone(ns, n)
  \/ ns[n].type = "BLOCK" /\ ~Single(ns, n)

(* What kind a node is says what it has.                                   *)
LEMMA GoodKinds ==
  ASSUME NEW ns, NEW n, Good(ns, n) \/ Done(ns, n)
  PROVE  /\ ns[n].type \in OpsTo(Len(Ops)) => OpDone(ns, n)
         /\ ns[n].type = "IF" => IfDone(ns, n)
         /\ ns[n].type = "RETURN" => ReturnDone(ns, n)
<1>1. ValueIn(ns, n, Len(Ops)) => ns[n].type = "BLOCK"
  BY DEF ValueIn, Single
<1>2. \/ ns[n].type \in {"IDENT", "LITERAL", "NEW_VAR", "NEW_TYPE", "INVALID", "BLOCK"}
      \/ OpDone(ns, n) \/ IfDone(ns, n) \/ ReturnDone(ns, n)
  BY <1>1 DEF Good, Done, LeafTypes
<1>3. IfDone(ns, n) => ns[n].type = "IF"
  BY DEF IfDone
<1>4. ReturnDone(ns, n) => ns[n].type = "RETURN"
  BY DEF ReturnDone
<1>5. OpDone(ns, n) => ns[n].type \in OpsTo(Len(Ops))
  BY Kinds DEF OpDone
<1>6. QED
  BY <1>2, <1>3, <1>4, <1>5, Kinds

(* The value of a block is its operator or its operand.                    *)
LEMMA ValueJoins ==
  ASSUME NEW ns, ArenaOK(ns), NEW b \in 1 .. Len(ns), NEW l \in Int, l <= Len(Ops), ValueIn(ns, b, l)
  PROVE  /\ Co(ns, b) \in 1 .. Len(ns) /\ ns[Co(ns, b)].type \in LeafTypes \cup OpsTo(l)
         /\ Good(ns, Co(ns, b))
<1>1. PICK m : m = ns[b].kids[1]
  OBVIOUS
<1>2. Single(ns, b) /\ ns[m].type \in LeafTypes \cup OpsTo(l)
  BY <1>1 DEF ValueIn
<1>3. OpsTo(l) \subseteq OpsTo(Len(Ops))
  BY Kinds
<1>4. ns[m].type # "BLOCK"
  BY <1>2, <1>3, Kinds DEF LeafTypes
<1>5. Co(ns, b) = m
  BY <1>1, <1>2, <1>4 DEF Co, Single
<1>6. Formed(ns, b) /\ ListOK(ns, b)
  BY DEF ArenaOK, NodeOK
<1>7. m \in Kids(ns, b)
  BY <1>1, <1>2, <1>6, KidOf
<1>8. m \in 1 .. Len(ns) /\ Done(ns, m)
  BY <1>2, <1>6, <1>7 DEF Formed, ListOK, Single
<1>9. Good(ns, m)
  <2>1. CASE ns[m].type \in LeafTypes
    BY <2>1 DEF Good
  <2>2. CASE ns[m].type \in OpsTo(l)
    BY <1>3, <1>8, <2>2, GoodKinds DEF Good
  <2>3. QED
    BY <1>2, <2>1, <2>2
<1>10. QED
  BY <1>2, <1>5, <1>8, <1>9

(* So it is for what an expression has filled.                             *)
LEMMA ExprJoins ==
  ASSUME NEW ns, ArenaOK(ns), NEW b \in 1 .. Len(ns), ExprIn(ns, b)
  PROVE  /\ Co(ns, b) \in 1 .. Len(ns)
         /\ ns[Co(ns, b)].type \in LeafTypes \cup OpsTo(Len(Ops)) \/ ns[Co(ns, b)].type = "IF"
         /\ Good(ns, Co(ns, b))
<1>1. PICK m : m = ns[b].kids[1]
  OBVIOUS
<1>2. Single(ns, b) /\ (ns[m].type = "IF" \/ ValueIn(ns, m, Len(Ops)))
  BY <1>1 DEF ExprIn
<1>3. Formed(ns, b) /\ ListOK(ns, b)
  BY DEF ArenaOK, NodeOK
<1>4. m \in Kids(ns, b)
  BY <1>1, <1>2, <1>3, KidOf
<1>5. m \in 1 .. Len(ns) /\ Done(ns, m)
  BY <1>2, <1>3, <1>4 DEF Formed, ListOK, Single
<1>6. CASE ns[m].type = "IF"
  <2>1. Co(ns, b) = m
    BY <1>1, <1>2, <1>6 DEF Co, Single
  <2>2. IfDone(ns, m)
    BY <1>5, <1>6, GoodKinds
  <2>3. QED
    BY <1>5, <1>6, <2>1, <2>2 DEF Good
<1>7. CASE ValueIn(ns, m, Len(Ops))
  <2>1. PICK v : v = ns[m].kids[1]
    OBVIOUS
  <2>2. Single(ns, m) /\ ns[v].type \in LeafTypes \cup OpsTo(Len(Ops))
    BY <1>7, <2>1 DEF ValueIn
  <2>3. ns[v].type # "BLOCK"
    BY <2>2, Kinds, SMTT(30) DEF LeafTypes
  <2>4. Co(ns, b) = v /\ Co(ns, m) = v
    BY <1>1, <1>2, <2>1, <2>2, <2>3 DEF Co, Single
  <2>5. Len(Ops) \in Int /\ Len(Ops) <= Len(Ops)
    BY Kinds
  <2>6. Co(ns, m) \in 1 .. Len(ns) /\ Good(ns, Co(ns, m))
    BY <1>5, <1>7, <2>5, ValueJoins
  <2>7. QED
    BY <2>2, <2>4, <2>6
<1>8. QED
  BY <1>2, <1>6, <1>7

(* ... for what a block has, ...                                           *)
LEMMA DoneJoins ==
  ASSUME NEW ns, ArenaOK(ns), NEW b \in 1 .. Len(ns), Done(ns, b)
  PROVE  Good(ns, Co(ns, b))
<1>1. CASE Single(ns, b)
  <2>1. ns[ns[b].kids[1]].type \in LeafTypes \cup OpsTo(Len(Ops))
    BY <1>1, SingleDone
  <2>2. ValueIn(ns, b, Len(Ops)) /\ Len(Ops) \in Int /\ Len(Ops) <= Len(Ops)
    BY <1>1, <2>1, Kinds DEF ValueIn
  <2>3. QED
    BY <2>2, ValueJoins
<1>2. CASE ~Single(ns, b)
  <2>1. Co(ns, b) = b
    BY <1>2 DEF Co
  <2>2. ~ValueIn(ns, b, Len(Ops))
    BY <1>2 DEF ValueIn
  <2>3. QED
    BY <2>1, <2>2 DEF Done, Good
<1>3. QED
  BY <1>1, <1>2

(* ... and for the body of a function.                                     *)
LEMMA ReturnsJoin ==
  ASSUME NEW ns, ArenaOK(ns), NEW b \in 1 .. Len(ns), Returns(ns, b)
  PROVE  /\ Co(ns, b) \in 1 .. Len(ns) /\ Good(ns, Co(ns, b))
         /\ \/ ns[Co(ns, b)].type = "RETURN"
            \/ Co(ns, b) = b /\ ~Single(ns, b)
<1>1. Formed(ns, b) /\ ListOK(ns, b) /\ ns[b].type = "BLOCK"
  BY DEF ArenaOK, NodeOK, Returns
<1>2. CASE Single(ns, b)
  <2>1. PICK m : m = ns[b].kids[1]
    OBVIOUS
  <2>2. m \in Kids(ns, b)
    BY <1>1, <1>2, <2>1, KidOf
  <2>3. m \in 1 .. Len(ns) /\ Done(ns, m) /\ ns[m].type = "RETURN"
    BY <1>1, <2>2 DEF Formed, ListOK, Returns
  <2>4. Co(ns, b) = m
    BY <1>2, <2>1, <2>3 DEF Co, Single
  <2>5. ReturnDone(ns, m)
    BY <2>3, GoodKinds
  <2>6. QED
    BY <2>3, <2>4, <2>5 DEF Good
<1>3. CASE ~Single(ns, b)
  BY <1>1, <1>3 DEF Co, Good
<1>4. QED
  BY <1>2, <1>3

(* What the children of an operator, a conditional, a return and a         *)
(* function are replaced by.                                               *)
OpShape(ns, n) ==
  \E l \in 1 .. Len(Ops) :
    /\ ns[n].type = Ops[l] /\ Len(ns[n].kids) = 2
    /\ \A k \in 1 .. 2 : \A m \in {Co(ns, ns[n].kids[k])} :
         Good(ns, m) /\ ns[m].type \in LeafTypes \cup OpsTo(l - 1)
IfShape(ns, n) ==
  /\ Len(ns[n].kids) = 3
  /\ \A k \in 1 .. 3 : \A m \in {Co(ns, ns[n].kids[k])} :
       /\ Good(ns, m)
       /\ ns[m].type \in LeafTypes \cup OpsTo(Len(Ops)) \/ (k # 1 /\ ns[m].type = "IF")
ReturnShape(ns, n) ==
  /\ Len(ns[n].kids) = 1
  /\ \A m \in {Co(ns, ns[n].kids[1])} :
       /\ Good(ns, m)
       /\ ns[m].type \in LeafTypes \cup OpsTo(Len(Ops)) \/ ns[m].type = "IF" \/ ns[m] = Block
VarShape(ns, n) ==
  /\ Len(ns[n].kids) = 2
  /\ Good(ns, Co(ns, ns[n].kids[1]))
  /\ \A m \in {Co(ns, ns[n].kids[2])} :
       /\ Good(ns, m)
       /\ m = NIL \/ ns[m].type = "RETURN" \/ (Returns(ns, m) /\ ~Single(ns, m))

(* An operator's operands bind tighter.                                    *)
LEMMA OpShaped ==
  ASSUME NEW ns, ArenaOK(ns), NEW n \in 1 .. Len(ns), OpDone(ns, n)
  PROVE  OpShape(ns, n)
<1>1. PICK l \in 1 .. Len(Ops) :
        /\ Len(ns[n].kids) = 2 /\ ns[n].type = Ops[l]
        /\ ValueIn(ns, ns[n].kids[1], l - 1) /\ ValueIn(ns, ns[n].kids[2], l - 1)
  BY DEF OpDone
<1>2. Formed(ns, n)
  BY DEF ArenaOK, NodeOK
<1>3. 1 \in 1 .. 2 /\ 2 \in 1 .. 2 /\ \A k \in 1 .. 2 : k = 1 \/ k = 2
  OBVIOUS
<1>4. PICK i \in Int : i = l - 1
  OBVIOUS
<1>5. Len(Ops) \in Nat /\ i <= Len(Ops)
  BY <1>4, Kinds
<1>6. ASSUME NEW k \in 1 .. 2
      PROVE  Good(ns, Co(ns, ns[n].kids[k])) /\ ns[Co(ns, ns[n].kids[k])].type \in LeafTypes \cup OpsTo(i)
  <2>1. PICK b : b = ns[n].kids[k]
    OBVIOUS
  <2>2. b \in 1 .. Len(ns)
    BY <1>1, <1>2, <2>1, KidsOf
  <2>3. ValueIn(ns, b, i)
    BY <1>1, <1>3, <1>4, <2>1
  <2>4. QED
    BY <1>5, <2>1, <2>2, <2>3, ValueJoins
<1>7. QED
  BY <1>1, <1>4, <1>6 DEF OpShape

(* A condition is no conditional.                                          *)
LEMMA IfShaped ==
  ASSUME NEW ns, ArenaOK(ns), NEW n \in 1 .. Len(ns), IfDone(ns, n)
  PROVE  IfShape(ns, n)
<1>1. /\ Len(ns[n].kids) = 3
      /\ ValueIn(ns, ns[n].kids[1], Len(Ops)) /\ ExprIn(ns, ns[n].kids[2]) /\ ExprIn(ns, ns[n].kids[3])
  BY DEF IfDone
<1>2. Formed(ns, n)
  BY DEF ArenaOK, NodeOK
<1>3. \A k \in 1 .. 3 : k = 1 \/ k = 2 \/ k = 3
  OBVIOUS
<1>4. Len(Ops) \in Int /\ Len(Ops) <= Len(Ops)
  BY Kinds
<1>5. ASSUME NEW k \in 1 .. 3
      PROVE  /\ Good(ns, Co(ns, ns[n].kids[k]))
             /\ \/ ns[Co(ns, ns[n].kids[k])].type \in LeafTypes \cup OpsTo(Len(Ops))
                \/ k # 1 /\ ns[Co(ns, ns[n].kids[k])].type = "IF"
  <2>1. PICK b : b = ns[n].kids[k]
    OBVIOUS
  <2>2. b \in 1 .. Len(ns)
    BY <1>1, <1>2, <2>1, KidsOf
  <2>3. CASE k = 1
    <3>1. ValueIn(ns, b, Len(Ops))
      BY <1>1, <2>1, <2>3
    <3>2. QED
      BY <1>4, <2>1, <2>2, <3>1, ValueJoins
  <2>4. CASE k # 1
    <3>1. ExprIn(ns, b)
      BY <1>1, <1>3, <2>1, <2>4
    <3>2. QED
      BY <2>1, <2>2, <2>4, <3>1, ExprJoins
  <2>5. QED
    BY <2>3, <2>4
<1>6. QED
  BY <1>1, <1>5 DEF IfShape

(* What is returned is an expression or nothing.                           *)
LEMMA ReturnShaped ==
  ASSUME NEW ns, ArenaOK(ns), NEW n \in 1 .. Len(ns), ReturnDone(ns, n)
  PROVE  ReturnShape(ns, n)
<1>1. PICK b : b = ns[n].kids[1]
  OBVIOUS
<1>2. Len(ns[n].kids) = 1 /\ ExprBlock(ns, b)
  BY <1>1 DEF ReturnDone
<1>3. Formed(ns, n)
  BY DEF ArenaOK, NodeOK
<1>4. b \in 1 .. Len(ns)
  BY <1>1, <1>2, <1>3, KidsOf
<1>5. Len(Ops) \in Int /\ Len(Ops) <= Len(Ops)
  BY Kinds
<1>6. CASE ns[b] = Block
  <2>1. ns[b].type = "BLOCK" /\ ns[b].kids = << >>
    BY <1>6 DEF Block, Node
  <2>2. ~Single(ns, b)
    BY <2>1, EmptySeq DEF Single
  <2>3. Co(ns, b) = b /\ Good(ns, b)
    BY <2>1, <2>2 DEF Co, Good
  <2>4. QED
    BY <1>1, <1>2, <1>6, <2>3 DEF ReturnShape
<1>7. CASE ValueIn(ns, b, Len(Ops))
  <2>1. Good(ns, Co(ns, b)) /\ ns[Co(ns, b)].type \in LeafTypes \cup OpsTo(Len(Ops))
    BY <1>4, <1>5, <1>7, ValueJoins
  <2>2. QED
    BY <1>1, <1>2, <2>1 DEF ReturnShape
<1>8. CASE ExprIn(ns, b)
  <2>1. /\ Good(ns, Co(ns, b))
        /\ ns[Co(ns, b)].type \in LeafTypes \cup OpsTo(Len(Ops)) \/ ns[Co(ns, b)].type = "IF"
    BY <1>4, <1>8, ExprJoins
  <2>2. QED
    BY <1>1, <1>2, <2>1 DEF ReturnShape
<1>9. QED
  BY <1>2, <1>6, <1>7, <1>8 DEF ExprBlock

(* A body is a return or a block of returns.                               *)
LEMMA VarShaped ==
  ASSUME NEW ns, ArenaOK(ns), NEW n \in 1 .. Len(ns), ns[n].type = "NEW_VAR"
  PROVE  VarShape(ns, n)
<1>1. Formed(ns, n) /\ BranchOK(ns, n) /\ ns[NIL].type = "INVALID"
  BY DEF ArenaOK, NodeOK
<1>2. PICK t, b : t = ns[n].kids[1] /\ b = ns[n].kids[2]
  OBVIOUS
<1>3. Len(ns[n].kids) = 2 /\ ns[t].type = "NEW_TYPE" /\ (b = NIL \/ Returns(ns, b))
  BY <1>1, <1>2 DEF BranchOK, Branches
<1>4. t \in 1 .. Len(ns) /\ b \in 1 .. Len(ns)
  BY <1>1, <1>2, <1>3, KidsOf
<1>5. Good(ns, Co(ns, t))
  BY <1>3 DEF Co, Single, Good
<1>6. Good(ns, Co(ns, b)) /\ (Co(ns, b) = NIL \/ ns[Co(ns, b)].type = "RETURN" \/ (Returns(ns, Co(ns, b)) /\ ~Single(ns, Co(ns, b))))
  <2>1. CASE b = NIL
    BY <1>1, <2>1 DEF Co, Single, Good
  <2>2. CASE Returns(ns, b)
    BY <1>4, <2>2, ReturnsJoin
  <2>3. QED
    BY <1>3, <2>1, <2>2, SMTT(30)
<1>7. QED
  BY <1>2, <1>3, <1>5, <1>6 DEF VarShape

(* The tree is of such nodes.                                              *)
LEMMA GoodKids ==
  ASSUME NEW ns, ArenaOK(ns), NEW n \in 1 .. Len(ns), Good(ns, n), NEW j \in Kids(ns, n)
  PROVE  Good(ns, Co(ns, j))
<1>1. Formed(ns, n) /\ ListOK(ns, n)
  BY DEF ArenaOK, NodeOK
<1>2. PICK k \in 1 .. Len(ns[n].kids) : j = ns[n].kids[k]
  BY <1>1, KidsOf DEF Kids
<1>3. j \in 1 .. Len(ns)
  BY <1>1, <1>2, KidsOf
<1>4. CASE ns[n].type \in LeafTypes \cup {"INVALID"}
  BY <1>1, <1>4 DEF ListOK
<1>5. CASE ns[n].type = "NEW_TYPE"
  <2>1. ns[j].type = "NEW_VAR"
    BY <1>1, <1>5 DEF ListOK
  <2>2. QED
    BY <2>1 DEF Co, Single, Good
<1>6. CASE ns[n].type = "NEW_VAR"
  <2>1. VarShape(ns, n)
    BY <1>6, VarShaped
  <2>2. \A d \in 1 .. 2 : d = 1 \/ d = 2
    OBVIOUS
  <2>3. QED
    BY <1>2, <2>1, <2>2 DEF VarShape
<1>7. CASE OpDone(ns, n)
  BY <1>2, <1>7, OpShaped DEF OpShape
<1>8. CASE IfDone(ns, n)
  BY <1>2, <1>8, IfShaped DEF IfShape
<1>9. CASE ReturnDone(ns, n)
  <2>1. \A d \in 1 .. 1 : d = 1
    OBVIOUS
  <2>2. QED
    BY <1>2, <1>9, <2>1, ReturnShaped DEF ReturnShape
<1>10. CASE ns[n].type = "BLOCK"
  <2>1. Done(ns, j)
    BY <1>1, <1>10 DEF ListOK
  <2>2. QED
    BY <1>3, <2>1, DoneJoins
<1>11. QED
  BY <1>4, <1>5, <1>6, <1>7, <1>8, <1>9, <1>10 DEF Good

-----------------------------------------------------------------------------
(* The tree that the emitter is given                                      *)

Goods(ns) == {n \in 1 .. Len(ns) : Good(ns, n)}

(* They only refer to each other, ...                                      *)
LEMMA GoodsHeed ==
  ASSUME NEW ns, NEW ms, ArenaOK(ns), Coalesces(ns, ms)
  PROVE  Heeds(Goods(ns), ms)
<1> SUFFICES ASSUME NEW n \in Goods(ns), NEW m \in Kids(ms, n)
             PROVE  m \in Goods(ns)
  BY DEF Heeds
<1>1. n \in 1 .. Len(ns) /\ Good(ns, n)
  BY DEF Goods
<1>2. PICK j \in Kids(ns, n) : m = Co(ns, j)
  BY <1>1, CoalescedKids
<1>3. Good(ns, m)
  BY <1>1, <1>2, GoodKids
<1>4. Formed(ns, n)
  BY <1>1 DEF ArenaOK, NodeOK
<1>5. j \in 1 .. Len(ns)
  BY <1>2, <1>4 DEF Formed
<1>6. m \in 1 .. Len(ns)
  BY <1>2, <1>5, ArenaShort, CoEnds
<1>7. QED
  BY <1>3, <1>6 DEF Goods

(* ... and the root is one of them.                                        *)
LEMMA RootGood ==
  ASSUME NEW ns, ArenaOK(ns), Coalesces(ns, nodes), status = "done"
  PROVE  Root \in Goods(ns)
<1>1. IsSeq(nodes) /\ Len(nodes) = Len(ns) /\ Short(nodes)
  BY CoalescedShort
<1>2. PICK u : u = UnitBlock
  OBVIOUS
<1>3. u \in 1 .. Len(ns) /\ ns[u].type = "BLOCK" /\ Formed(ns, u) /\ ListOK(ns, u)
  <2>1. u = 2 /\ Len(ns) \in Nat /\ Len(ns) >= 2
    BY <1>2, SeqDomain DEF UnitBlock, ArenaOK
  <2>2. u \in 1 .. Len(ns)
    BY <2>1
  <2>3. QED
    BY <1>2, <2>2 DEF ArenaOK, NodeOK
<1>4. Root = Co(nodes, u)
  BY <1>1, <1>2, <1>3, CoalescedIs DEF Root
<1>5. CASE Single(ns, u)
  <2>1. PICK b : b = ns[u].kids[1]
    OBVIOUS
  <2>2. b \in Kids(ns, u)
    BY <1>3, <1>5, <2>1, KidOf
  <2>3. b \in 1 .. Len(ns) /\ Done(ns, b)
    BY <1>3, <2>2 DEF Formed, ListOK
  <2>4. Single(nodes, u) /\ nodes[u].kids[1] = Co(ns, b)
    <3>1. Len(ns[u].kids) = 1
      BY <1>5 DEF Single
    <3>2. 1 \in 1 .. Len(ns[u].kids)
      BY <3>1
    <3>3. QED
      BY <1>3, <1>5, <2>1, <3>2, CoalescedKids
  <2>5. Co(ns, b) \in 1 .. Len(ns) /\ ~Single(ns, Co(ns, b))
    BY <2>3, ArenaShort, CoEnds
  <2>6. ~Single(nodes, Co(ns, b))
    BY <2>5, CoalescedKids
  <2>7. Root = Co(ns, b)
    BY <1>4, <2>4, <2>6 DEF Co
  <2>8. Good(ns, Co(ns, b))
    BY <2>3, DoneJoins
  <2>9. QED
    BY <2>5, <2>7, <2>8 DEF Goods
<1>6. CASE ~Single(ns, u)
  <2>1. ~Single(nodes, u)
    BY <1>3, <1>6, CoalescedKids
  <2>2. Root = u
    BY <1>4, <2>1 DEF Co
  <2>3. Good(ns, u)
    BY <1>3, <1>6 DEF Good
  <2>4. QED
    BY <1>3, <2>2, <2>3 DEF Goods
<1>7. QED
  BY <1>5, <1>6

(* So all that is below it is.                                             *)
LEMMA BelowGood ==
  ASSUME NEW ns, ArenaOK(ns), Coalesces(ns, nodes), status = "done"
  PROVE  Below[Root] \subseteq Goods(ns)
<1>1. PICK G : G = Goods(ns)
  OBVIOUS
<1>2. PICK n : n = Root
  OBVIOUS
<1>3. n \in G
  BY <1>1, <1>2, RootGood
<1>4. Heeds(G, nodes)
  BY <1>1, GoodsHeed
<1>5. G \subseteq 1 .. Len(ns)
  BY <1>1 DEF Goods
<1>6. Below[n] \subseteq G
  BY <1>3, <1>4, <1>5, BelowIn, Zenon
<1>7. QED
  BY <1>1, <1>2, <1>6

(* How tight an operator binds, by its place among them.                   *)
LEMMA LevelIs ==
  /\ Range(Ops) = OpsTo(Len(Ops))
  /\ \A n : nodes[n].type \in LeafTypes => OpLevel(n) = 0
  /\ \A n : \A l \in 1 .. Len(Ops) : nodes[n].type = Ops[l] => OpLevel(n) = l
<1>1. DOMAIN Ops = 1 .. Len(Ops)
  BY OpsAssumption, LenProperties
<1>2. Range(Ops) = OpsTo(Len(Ops))
  BY <1>1 DEF Range, OpsTo
<1>3. ASSUME NEW n, nodes[n].type \in LeafTypes
      PROVE  OpLevel(n) = 0
  <2>1. nodes[n].type \notin Range(Ops)
    BY <1>2, <1>3, Kinds DEF LeafTypes
  <2>2. QED
    BY <2>1 DEF OpLevel
<1>4. ASSUME NEW n, NEW l \in 1 .. Len(Ops), nodes[n].type = Ops[l]
      PROVE  OpLevel(n) = l
  <2>1. nodes[n].type \in Range(Ops)
    BY <1>2, <1>4, Kinds
  <2>2. PICK i : i = CHOOSE k \in DOMAIN Ops : Ops[k] = nodes[n].type
    OBVIOUS
  <2>3. \E k \in DOMAIN Ops : Ops[k] = nodes[n].type
    BY <1>1, <1>4
  <2>4. i \in DOMAIN Ops /\ Ops[i] = nodes[n].type
    BY <2>2, <2>3
  <2>5. i = l
    BY <1>1, <1>4, <2>4, OpsAssumption
  <2>6. QED
    BY <2>1, <2>2, <2>5 DEF OpLevel
<1>5. QED
  BY <1>2, <1>3, <1>4

(* A value is a leaf or an operator.                                       *)
LEMMA ValuesAre ==
  \A n : IsValue(n) <=> nodes[n].type \in LeafTypes \cup OpsTo(Len(Ops))
BY LevelIs DEF IsValue, LeafTypes

(* An operator's operands, ...                                             *)
LEMMA OpGiven ==
  ASSUME NEW ns, ArenaOK(ns), Coalesces(ns, nodes), NEW n \in 1 .. Len(ns), OpShape(ns, n), NEW k \in 1 .. 2
  PROVE  IsValue(nodes[n].kids[k]) /\ OpLevel(nodes[n].kids[k]) < OpLevel(n)
<1>1. PICK l \in 1 .. Len(Ops) :
        /\ ns[n].type = Ops[l] /\ Len(ns[n].kids) = 2
        /\ \A i \in 1 .. 2 : \A m \in {Co(ns, ns[n].kids[i])} :
             Good(ns, m) /\ ns[m].type \in LeafTypes \cup OpsTo(l - 1)
  BY DEF OpShape
<1>2. PICK m : m = Co(ns, ns[n].kids[k])
  OBVIOUS
<1>3. ns[m].type \in LeafTypes \cup OpsTo(l - 1)
  BY <1>1, <1>2
<1>4. nodes[n].kids[k] = m /\ m \in 1 .. Len(ns)
  <2>1. k \in 1 .. Len(ns[n].kids)
    BY <1>1
  <2>2. QED
    BY <1>2, <2>1, CoalescedKids
<1>5. nodes[m].type = ns[m].type /\ nodes[n].type = Ops[l]
  BY <1>1, <1>4 DEF Coalesces
<1>6. PICK i \in Int : i = l - 1
  OBVIOUS
<1>7. i <= Len(Ops) /\ Len(Ops) \in Nat /\ l \in Nat /\ l > 0
  BY <1>6, Kinds
<1>8. IsValue(m)
  <2>1. OpsTo(i) \subseteq OpsTo(Len(Ops))
    BY <1>7, Kinds
  <2>2. QED
    BY <1>3, <1>5, <1>6, <2>1, ValuesAre
<1>9. OpLevel(n) = l
  BY <1>5, LevelIs
<1>10. OpLevel(m) < l
  <2>1. CASE nodes[m].type \in LeafTypes
    <3>1. OpLevel(m) = 0
      BY <2>1, LevelIs
    <3>2. QED
      BY <1>7, <3>1
  <2>2. CASE nodes[m].type \in OpsTo(i)
    <3>1. PICK j \in 1 .. i : nodes[m].type = Ops[j]
      BY <2>2 DEF OpsTo
    <3>2. j \in 1 .. Len(Ops) /\ j < l
      BY <1>6, <1>7
    <3>3. OpLevel(m) = j
      BY <3>1, <3>2, LevelIs
    <3>4. QED
      BY <3>2, <3>3
  <2>3. QED
    BY <1>3, <1>5, <1>6, <2>1, <2>2
<1>11. QED
  BY <1>4, <1>8, <1>9, <1>10

(* ... a conditional's condition and values, ...                           *)
LEMMA IfGiven ==
  ASSUME NEW ns, ArenaOK(ns), Coalesces(ns, nodes), NEW n \in 1 .. Len(ns), IfShape(ns, n), NEW k \in 1 .. 3
  PROVE  IsValue(nodes[n].kids[k]) \/ (k # 1 /\ IsValueOrIf(nodes[n].kids[k]))
<1>1. PICK m : m = Co(ns, ns[n].kids[k])
  OBVIOUS
<1>2. ns[m].type \in LeafTypes \cup OpsTo(Len(Ops)) \/ (k # 1 /\ ns[m].type = "IF")
  BY <1>1 DEF IfShape
<1>3. nodes[n].kids[k] = m /\ m \in 1 .. Len(ns)
  <2>1. k \in 1 .. Len(ns[n].kids)
    BY DEF IfShape
  <2>2. QED
    BY <1>1, <2>1, CoalescedKids
<1>4. nodes[m].type = ns[m].type
  BY <1>3 DEF Coalesces
<1>5. QED
  BY <1>2, <1>3, <1>4, ValuesAre DEF IsValueOrIf

(* ... what is returned, ...                                               *)
LEMMA ReturnGiven ==
  ASSUME NEW ns, ArenaOK(ns), Coalesces(ns, nodes), NEW n \in 1 .. Len(ns), ReturnShape(ns, n)
  PROVE  IsValueOrIf(nodes[n].kids[1]) \/ nodes[nodes[n].kids[1]] = Block
<1>1. PICK m : m = Co(ns, ns[n].kids[1])
  OBVIOUS
<1>2. ns[m].type \in LeafTypes \cup OpsTo(Len(Ops)) \/ ns[m].type = "IF" \/ ns[m] = Block
  BY <1>1 DEF ReturnShape
<1>3. nodes[n].kids[1] = m /\ m \in 1 .. Len(ns)
  <2>1. 1 \in 1 .. Len(ns[n].kids)
    BY DEF ReturnShape
  <2>2. QED
    BY <1>1, <2>1, CoalescedKids
<1>4. PICK new, old : new = nodes[m] /\ old = ns[m]
  OBVIOUS
<1>5. /\ IsNode(new) /\ new.type = old.type /\ new.name = old.name /\ new.func = old.func
      /\ IsSeq(new.kids) /\ Len(new.kids) = Len(old.kids)
  BY <1>3, <1>4 DEF Coalesces
<1>6. ASSUME old = Block
      PROVE  new = Block
  <2>1. old.type = "BLOCK" /\ old.kids = << >> /\ old.name = 0 /\ old.func = FALSE
    BY <1>6 DEF Block, Node
  <2>2. Len(new.kids) = 0
    <3>1. Len(<< >>) = 0
      OBVIOUS
    <3>2. QED
      BY <1>5, <2>1, <3>1
  <2>3. PICK kids : kids = new.kids
    OBVIOUS
  <2>4. kids = << >>
    <3>1. PICK S : kids \in Seq(S)
      BY <1>5, <2>3 DEF IsSeq
    <3>2. QED
      BY <2>2, <2>3, <3>1, EmptySeq
  <2>5. new = [type |-> "BLOCK", kids |-> << >>, name |-> 0, func |-> FALSE]
    BY <1>5, <2>1, <2>3, <2>4 DEF IsNode
  <2>6. QED
    BY <2>5 DEF Block, Node
<1>7. new = Block \/ new.type \in LeafTypes \cup OpsTo(Len(Ops)) \/ new.type = "IF"
  BY <1>2, <1>4, <1>5, <1>6
<1>8. QED
  BY <1>3, <1>4, <1>7, ValuesAre DEF IsValueOrIf

(* ... and the body of a function.                                         *)
LEMMA BodyGiven ==
  ASSUME NEW ns, ArenaOK(ns), Coalesces(ns, nodes), NEW n \in 1 .. Len(ns), VarShape(ns, n),
         nodes[n].kids[2] # NIL
  PROVE  \/ IsReturn(nodes[n].kids[2])
         \/ /\ nodes[nodes[n].kids[2]].type = "BLOCK"
            /\ \A k \in Range(nodes[nodes[n].kids[2]].kids) : IsReturn(k)
<1>1. PICK m : m = Co(ns, ns[n].kids[2])
  OBVIOUS
<1>2. nodes[n].kids[2] = m /\ m \in 1 .. Len(ns)
  <2>1. 2 \in 1 .. Len(ns[n].kids)
    BY DEF VarShape
  <2>2. QED
    BY <1>1, <2>1, CoalescedKids
<1>3. ns[m].type = "RETURN" \/ Returns(ns, m)
  BY <1>1, <1>2 DEF VarShape
<1>4. nodes[m].type = ns[m].type
  BY <1>2 DEF Coalesces
<1>5. ASSUME Returns(ns, m), NEW k \in Range(nodes[m].kids)
      PROVE  IsReturn(k)
  <2>1. k \in Kids(nodes, m)
    BY <1>5 DEF Range, Kids
  <2>2. PICK j \in Kids(ns, m) : k = Co(ns, j)
    BY <1>2, <2>1, CoalescedKids
  <2>3. ns[j].type = "RETURN"
    BY <1>5, <2>2 DEF Returns
  <2>4. k = j
    BY <2>2, <2>3 DEF Co, Single
  <2>5. j \in 1 .. Len(ns)
    BY <1>2, <2>2 DEF ArenaOK, NodeOK, Formed
  <2>6. QED
    BY <2>3, <2>4, <2>5 DEF Coalesces, IsReturn
<1>6. QED
  BY <1>2, <1>3, <1>4, <1>5 DEF Returns, IsReturn

(* So it is of the shapes that the emitter is modelled for.                *)
LEMMA ShapesDone ==
  ASSUME NEW ns, ArenaOK(ns), Coalesces(ns, nodes)
  PROVE  ShapesForEmitter
<1> SUFFICES ASSUME status = "done", NEW n \in Below[Root]
             PROVE  /\ nodes[n].type \in Range(Ops) =>
                         \A k \in 1 .. 2 : IsValue(nodes[n].kids[k]) /\ OpLevel(nodes[n].kids[k]) < OpLevel(n)
                    /\ nodes[n].type = "IF" =>
                         /\ IsValue(nodes[n].kids[1])
                         /\ IsValueOrIf(nodes[n].kids[2]) /\ IsValueOrIf(nodes[n].kids[3])
                    /\ nodes[n].type = "RETURN" =>
                         IsValueOrIf(nodes[n].kids[1]) \/ nodes[nodes[n].kids[1]] = Block
                    /\ nodes[n].type = "NEW_VAR" /\ nodes[n].kids[2] # NIL =>
                         \/ IsReturn(nodes[n].kids[2])
                         \/ /\ nodes[nodes[n].kids[2]].type = "BLOCK"
                            /\ \A k \in Range(nodes[nodes[n].kids[2]].kids) : IsReturn(k)
  BY DEF ShapesForEmitter
<1>1. n \in Goods(ns)
  BY BelowGood
<1>2. n \in 1 .. Len(ns) /\ Good(ns, n)
  BY <1>1 DEF Goods
<1>3. nodes[n].type = ns[n].type
  BY <1>2 DEF Coalesces
<1>4. ASSUME nodes[n].type \in Range(Ops), NEW k \in 1 .. 2
      PROVE  IsValue(nodes[n].kids[k]) /\ OpLevel(nodes[n].kids[k]) < OpLevel(n)
  <2>1. OpDone(ns, n)
    BY <1>2, <1>3, <1>4, LevelIs, GoodKinds
  <2>2. OpShape(ns, n)
    BY <1>2, <2>1, OpShaped
  <2>3. QED
    BY <1>2, <2>2, OpGiven
<1>5. ASSUME nodes[n].type = "IF"
      PROVE  IsValue(nodes[n].kids[1]) /\ IsValueOrIf(nodes[n].kids[2]) /\ IsValueOrIf(nodes[n].kids[3])
  <2>1. IfDone(ns, n)
    BY <1>2, <1>3, <1>5, GoodKinds
  <2>2. IfShape(ns, n)
    BY <1>2, <2>1, IfShaped
  <2>3. ASSUME NEW k \in 1 .. 3
        PROVE  IsValue(nodes[n].kids[k]) \/ (k # 1 /\ IsValueOrIf(nodes[n].kids[k]))
    BY <1>2, <2>2, IfGiven
  <2>4. 1 \in 1 .. 3 /\ 2 \in 1 .. 3 /\ 3 \in 1 .. 3
    OBVIOUS
  <2>5. QED
    BY <2>3, <2>4 DEF IsValueOrIf
<1>6. ASSUME nodes[n].type = "RETURN"
      PROVE  IsValueOrIf(nodes[n].kids[1]) \/ nodes[nodes[n].kids[1]] = Block
  <2>1. ReturnDone(ns, n)
    BY <1>2, <1>3, <1>6, GoodKinds
  <2>2. ReturnShape(ns, n)
    BY <1>2, <2>1, ReturnShaped
  <2>3. QED
    BY <1>2, <2>2, ReturnGiven
<1>7. ASSUME nodes[n].type = "NEW_VAR", nodes[n].kids[2] # NIL
      PROVE  \/ IsReturn(nodes[n].kids[2])
             \/ /\ nodes[nodes[n].kids[2]].type = "BLOCK"
                /\ \A k \in Range(nodes[nodes[n].kids[2]].kids) : IsReturn(k)
  <2>1. VarShape(ns, n)
    BY <1>2, <1>3, <1>7, VarShaped
  <2>2. QED
    BY <1>2, <1>7, <2>1, BodyGiven
<1>8. QED
  BY <1>4, <1>5, <1>6, <1>7

-----------------------------------------------------------------------------
(* The whole front end                                                     *)

Finished == status = "done" => \E ns : ArenaOK(ns) /\ Coalesces(ns, nodes)

SourceInv == TreeInv /\ Bounded /\ Finished

(* The parser begins with the empty node and the translation unit's block. *)
LEMMA ArenaBegins ==
  ASSUME NEW ns, ns = <<Node("INVALID", << >>), Block>>
  PROVE  ArenaOK(ns)
<1>1. PICK e, b : e = Node("INVALID", << >>) /\ b = Block
  OBVIOUS
<1>2. IsSeq(ns) /\ Len(ns) = 2 /\ ns[1] = e /\ ns[2] = b
  <2>1. ns = <<e, b>>
    BY <1>1
  <2>2. QED
    BY <2>1, SeqTwo
<1>3. IsNode(e) /\ e.type = "INVALID" /\ e.kids = << >> /\ IsNode(b) /\ b.type = "BLOCK" /\ b.kids = << >>
  BY <1>1, NodesMade DEF Node, Block
<1>4. NodeOK(ns, 2)
  <2>1. IsNode(ns[2]) /\ ns[2].kids = << >> /\ ns[2].type = "BLOCK"
    BY <1>2, <1>3
  <2>2. QED
    BY <2>1, NewNode
<1>5. NodeOK(ns, 1)
  <2>1. IsSeq(e.kids) /\ DOMAIN e.kids = {}
    <3>1. IsSeq(<< >>) /\ Len(<< >>) = 0
      BY EmptySeq DEF IsSeq
    <3>2. PICK s : s = << >>
      OBVIOUS
    <3>3. DOMAIN s = 1 .. Len(s) /\ Len(s) = 0 /\ IsSeq(s)
      BY <3>1, <3>2, SeqDomain
    <3>4. QED
      BY <1>3, <3>2, <3>3
  <2>2. Kids(ns, 1) = {}
    BY <1>2, <2>1 DEF Kids
  <2>3. ns[1].type = "INVALID" /\ IsNode(ns[1]) /\ IsSeq(ns[1].kids)
    BY <1>2, <1>3, <2>1
  <2>4. Formed(ns, 1)
    BY <2>2, <2>3 DEF Formed
  <2>5. BranchOK(ns, 1)
    BY <2>3, Kinds DEF BranchOK, Branches
  <2>6. ListOK(ns, 1)
    BY <2>2 DEF ListOK
  <2>7. QED
    BY <2>4, <2>5, <2>6 DEF NodeOK
<1>6. \A n \in 1 .. Len(ns) : NodeOK(ns, n)
  BY <1>2, <1>4, <1>5
<1>7. ns[NIL].type = "INVALID" /\ ns[UnitBlock].type = "BLOCK"
  BY <1>2, <1>3 DEF NIL, UnitBlock
<1>8. QED
  BY <1>2, <1>6, <1>7 DEF ArenaOK

(* It is as it should be in the beginning, ...                             *)
LEMMA SourceInit ==
  ASSUME FrontInit
  PROVE  SourceInv
<1>1. ParserInit
  BY DEF FrontInit
<1>2. /\ tokens = << >> /\ cur = 0 /\ ret = NoRet /\ status = "parsing" /\ kept = 0
      /\ nodes = <<Node("INVALID", << >>), Block>>
      /\ stack = <<Frame("external", 0, FALSE, 0)>>
  BY <1>1 DEF ParserInit
<1>3. ArenaOK(nodes)
  BY <1>2, ArenaBegins
<1>4. IsSeq(tokens) /\ Len(tokens) = 0
  BY <1>2, EmptySeq DEF IsSeq
<1>5. Outermost
  BY <1>2, <1>3, <1>4 DEF Outermost, ArenaOK
<1>6. Parse /\ Tree
  BY <1>5, OutermostParse, OuterTree
<1>7. StackOK
  BY <1>6, StackRight
<1>8. Bounded
  <2>1. cur \in 0 .. Len(tokens) /\ kept \in 0 .. cur
    BY <1>2, <1>4
  <2>2. ret \in {NoRet, "true", "false"} /\ status \in {"parsing", "parsed", "done", "aborted", "asserted"}
    BY <1>2
  <2>3. status \notin {"parsed", "done"}
    BY <1>2
  <2>4. IsSeq(tokens)
    BY <1>4
  <2>5. QED
    BY <1>7, <2>1, <2>2, <2>3, <2>4, Zenon DEF Bounded
<1>9. QED
  BY <1>2, <1>3, <1>6, <1>8 DEF SourceInv, TreeInv, Finished

(* ... after a step of the parser, ...                                     *)
LEMMA SourceParsing ==
  ASSUME FrontInv, SourceInv, ParserNext
  PROVE  SourceInv'
<1>1. TreeInv /\ Bounded
  BY DEF SourceInv
<1>2. CASE Coalesce
  <2>1. /\ status = "parsed" /\ status' = "done" /\ tokens' = tokens /\ cur' = cur
        /\ stack' = stack /\ ret' = ret /\ kept' = kept
    BY <1>2 DEF Coalesce
  <2>2. ArenaOK(nodes)
    BY <1>1, <2>1 DEF TreeInv
  <2>3. Coalesces(nodes, nodes')
    BY <1>2, <2>2, CoalesceLeaves
  <2>4. PICK ns : ns = nodes
    OBVIOUS
  <2>5. ArenaOK(ns) /\ Coalesces(ns, nodes')
    BY <2>2, <2>3, <2>4
  <2>6. Finished'
    BY <2>5 DEF Finished
  <2>7. TreeInv'
    BY <2>1 DEF TreeInv
  <2>8. stack' = << >>
    BY <1>1, <2>1 DEF Bounded
  <2>9. StackOK'
    BY <2>8 DEF StackOK
  <2>10. Bounded'
    BY <1>1, <2>1, <2>8, <2>9 DEF Bounded
  <2>11. QED
    BY <2>6, <2>7, <2>10 DEF SourceInv
<1>3. CASE Reveal
  <2>1. TreeInv' /\ Bounded'
    BY <1>1, <1>3, RevealBounded
  <2>2. status' # "done"
    BY <1>3 DEF Reveal
  <2>3. QED
    BY <2>1, <2>2 DEF SourceInv, Finished
<1>4. CASE ~Coalesce /\ ~Reveal
  <2>1. TreeInv' /\ Bounded'
    BY <1>1, <1>4, RuleBounded
  <2>2. Carries
    BY <1>1, <1>4, RuleTree
  <2>3. status' # "done"
    BY <2>2 DEF Carries
  <2>4. QED
    BY <2>1, <2>3 DEF SourceInv, Finished
<1>5. QED
  BY <1>2, <1>3, <1>4

(* ... and after any step.                                                 *)
LEMMA SourceStep ==
  ASSUME FrontInv, SourceInv, [FrontNext]_frontVars
  PROVE  SourceInv'
<1>1. CASE Parsing
  BY <1>1, SourceParsing DEF Parsing
<1>2. CASE UNCHANGED parserVars
  <2>1. /\ tokens' = tokens /\ cur' = cur /\ nodes' = nodes /\ stack' = stack /\ ret' = ret
        /\ status' = status /\ kept' = kept
    BY <1>2 DEF parserVars
  <2>2. TreeInv'
    BY <2>1, TreeSame DEF SourceInv, TreeInv
  <2>3. Bounded'
    BY <2>1 DEF SourceInv, Bounded, StackOK
  <2>4. Finished'
    BY <2>1 DEF SourceInv, Finished
  <2>5. QED
    BY <2>2, <2>3, <2>4 DEF SourceInv
<1>3. CASE Lexed
  <2>1. /\ lexing /\ ~lexing' /\ tokens' = [k \in DOMAIN lexed |-> lexed[k].type]
        /\ cur' = cur /\ nodes' = nodes /\ stack' = stack /\ ret' = ret /\ status' = status /\ kept' = kept
    BY <1>3 DEF Lexed, LexEnd
  <2>2. /\ stack = <<Frame("external", 0, FALSE, 0)>> /\ ret = NoRet /\ status = "parsing" /\ cur = 0
        /\ IsSeq(lexed)
    BY <2>1 DEF FrontInv, LexFirst
  <2>3. ArenaOK(nodes) /\ kept \in 0 .. cur
    BY <2>2 DEF SourceInv, TreeInv, Bounded
  <2>4. IsSeq(tokens')
    <3>1. DOMAIN lexed = 1 .. Len(lexed) /\ Len(lexed) \in Nat
      BY <2>2, SeqDomain, SMTT(30)
    <3>2. PICK n \in Nat : n = Len(lexed)
      BY <3>1
    <3>3. tokens' = [k \in 1 .. n |-> tokens'[k]]
      BY <2>1, <3>1, <3>2
    <3>4. QED
      BY <3>3, SeqFunction
  <2>5. Outermost'
    BY <2>1, <2>2, <2>3, <2>4 DEF Outermost, ArenaOK
  <2>6. Tree' /\ Parse'
    BY <2>5, OuterTreeNext, OutermostParseNext
  <2>7. TreeInv'
    BY <2>1, <2>3, <2>6 DEF TreeInv
  <2>8. StackOK'
    BY <2>6, StackRightNext
  <2>9. cur' \in 0 .. Len(tokens') /\ kept' \in 0 .. cur'
    <3>1. Len(tokens') \in Nat
      BY <2>4, SeqDomain
    <3>2. QED
      BY <2>1, <2>2, <2>3, <3>1
  <2>10. Bounded'
    BY <2>1, <2>2, <2>4, <2>8, <2>9 DEF Bounded
  <2>11. Finished'
    BY <2>1, <2>2 DEF Finished
  <2>12. QED
    BY <2>7, <2>10, <2>11 DEF SourceInv
<1>4. QED
  BY <1>1, <1>2, <1>3 DEF FrontNext, Lexing, frontVars

(* References stay in the arena, also when they are replaced.              *)
LEMMA RefsStay ==
  ASSUME SourceInv
  PROVE  \A n \in DOMAIN nodes : \A k \in DOMAIN nodes[n].kids : nodes[n].kids[k] \in DOMAIN nodes
<1>1. CASE status = "done"
  <2>1. PICK ns : ArenaOK(ns) /\ Coalesces(ns, nodes)
    BY <1>1 DEF SourceInv, Finished
  <2>2. DOMAIN nodes = 1 .. Len(ns)
    BY <2>1, SeqDomain DEF Coalesces
  <2>3. ASSUME NEW n \in 1 .. Len(ns), NEW k \in DOMAIN nodes[n].kids
        PROVE  nodes[n].kids[k] \in 1 .. Len(ns)
    <3>1. DOMAIN nodes[n].kids = 1 .. Len(ns[n].kids)
      BY <2>1, CoalescedKids
    <3>2. QED
      BY <2>1, <2>3, <3>1, CoalescedKids
  <2>4. QED
    BY <2>2, <2>3
<1>2. CASE status # "done"
  <2>1. ArenaOK(nodes)
    BY <1>2 DEF SourceInv, TreeInv
  <2>2. DOMAIN nodes = 1 .. Len(nodes)
    BY <2>1, SeqDomain DEF ArenaOK
  <2>3. QED
    BY <2>1, <2>2 DEF ArenaOK, NodeOK, Formed, Kids
<1>3. QED
  BY <1>1, <1>2

(* Whatever the source, the arena is a tree of what the rules have filled, *)
(* and each activation knows how far.                                      *)
THEOREM SourceInvariant == FrontSpec => []SourceInv
<1>1. FrontInit => SourceInv
  BY SourceInit
<1>2. FrontInv /\ SourceInv /\ [FrontNext]_frontVars => SourceInv'
  BY SourceStep
<1>3. QED
  BY <1>1, <1>2, FrontInvariant, PTL DEF FrontSpec

(* Every variable of the front end keeps its type: the parser stays in the *)
(* source and no reference leaves the arena, not even where a rule pops    *)
(* nodes to which references are left (cc_ast_pop_node) or where           *)
(* references to blocks of one child are replaced (cc_ast_coalesce_blocks).*)
THEOREM FrontTypeCorrect == FrontSpec => []FrontTypeOK
<1>1. LexerInv => /\ p \in Nat /\ lexing \in BOOLEAN
                  /\ lexed \in Seq([type : {"IDENT", "LITERAL"} \cup {e.type : e \in Range(TOKEN_LIST)},
                                    pos : DOMAIN text, len : Nat \ {0}])
  BY DEF LexerInv, Cut, LexedTokens
<1>2. SourceInv => ParserTypeOK
  BY RefsStay DEF SourceInv, Bounded, StackOK, ParserTypeOK
<1>3. LexerInv /\ SourceInv => FrontTypeOK
  BY <1>1, <1>2 DEF FrontTypeOK
<1>4. QED
  BY <1>3, LexerInvariant, SourceInvariant, PTL

(* Whatever the source, the tree that the emitter is given is of the       *)
(* shapes that it is written for: an operand binds tighter than its        *)
(* operator, a condition is no conditional, and a body is a return or a    *)
(* block of returns (cc/parser.c, cc_ast_coalesce_blocks).                 *)
THEOREM EmitterIsGivenShapes == FrontSpec => []ShapesForEmitter
<1>1. SourceInv => ShapesForEmitter
  <2>1. CASE status = "done"
    BY <2>1, ShapesDone DEF SourceInv, Finished
  <2>2. CASE status # "done"
    BY <2>2 DEF ShapesForEmitter
  <2>3. QED
    BY <2>1, <2>2
<1>2. QED
  BY <1>1, SourceInvariant, PTL

===============================================================================
