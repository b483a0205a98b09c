---------------------------- MODULE CcLowerProofs ----------------------------
(***************************************************************************)
(* Proofs about the two passes of the optimiser, register allocation and   *)
(* lowering, for every program that the emitter can hand them and every    *)
(* number of registers; and about the two assertions of the lowering and   *)
(* its look-up of operands, which no well-formed function trips while      *)
(* there are registers.                                                    *)
(***************************************************************************)
EXTENDS CcLower, CcEmitProofs, WellFoundedInduction

USE DEF ID_NULL

-----------------------------------------------------------------------------
(* What the emitter leaves to the optimiser                                *)

(* Every function's window lies before the windows of the later functions. *)
(* WindowsTile says so of neighbours; this is what it comes to for any two.*)
WindowsOrdered ==
  \A f, g \in 1 .. Len(funcs) : f < g => funcs[f].pos + funcs[f].len <= funcs[g].pos

NoneGone == \A p \in 1 .. Len(toks) : toks[p].type # "NONE"

(* What a step of the emitter does to the program: nothing, or it opens a  *)
(* window at the end of the array, or it pushes a token that computes.     *)
LEMMA EmitShape ==
  ASSUME EmitInv, EmitNext
  PROVE  \/ toks' = toks /\ funcs' = funcs
         \/ toks' = toks /\ funcs' = Append(funcs, [pos |-> Len(toks), len |-> 0])
         \/ funcs # << >> /\ \E t \in Tokens : t.type # "NONE" /\ PushToken(t)
<1>t. EmitTypeOK /\ "NONE" \notin BinOps
  BY BinOpsAssumption DEF EmitInv
<1>1. ASSUME NEW n \in 0 .. NParams - 1, RefVar(n)
      PROVE  funcs # << >> /\ \E t \in Tokens : t.type # "NONE" /\ PushToken(t)
  <2> DEFINE t == [type |-> "IDENTITY", res |-> nextId, args |-> Args(ID_PARAM(n), ID_NULL)]
  <2>1. t \in Tokens /\ t.type # "NONE"
    BY <1>t, ParamIdType, NullIsId, TokenType DEF EmitTypeOK, TokenTypes
  <2>2. PushToken(t) /\ funcs # << >>
    BY <1>1, <1>t DEF RefVar, EmitTypeOK
  <2>3. QED
    BY <2>1, <2>2
<1>2. ASSUME FinishBinop
      PROVE  funcs # << >> /\ \E t \in Tokens : t.type # "NONE" /\ PushToken(t)
  <2> DEFINE t == [type |-> top.kind, res |-> top.res, args |-> Args(top.done[1], top.done[2])]
  <2>1. stack # << >> /\ Len(top.done) = 2 /\ top.kind \in BinOps /\ PushToken(t)
    BY <1>2, BinOpsAssumption DEF FinishBinop, Complete, Arity
  <2>2. top.res \in Ids /\ top.done[1] \in Ids /\ top.done[2] \in Ids
    BY <2>1, <1>t, TopType DEF Frames
  <2>3. t \in Tokens /\ t.type # "NONE"
    BY <2>1, <2>2, <1>t, TokenType DEF TokenTypes
  <2>4. QED
    BY <2>1, <2>3, <1>t DEF EmitTypeOK
<1>3. ASSUME FinishReturn
      PROVE  funcs # << >> /\ \E t \in Tokens : t.type # "NONE" /\ PushToken(t)
  <2> DEFINE t == [type |-> "RETURN", res |-> top.res, args |-> Args(top.done[1], ID_NULL)]
  <2>1. stack # << >> /\ Len(top.done) = 1 /\ PushToken(t)
    BY <1>3 DEF FinishReturn, Complete, Arity
  <2>2. top.res \in Ids /\ top.done[1] \in Ids
    BY <2>1, <1>t, TopType DEF Frames
  <2>3. t \in Tokens /\ t.type # "NONE"
    BY <2>1, <2>2, NullIsId, TokenType DEF TokenTypes
  <2>4. QED
    BY <2>1, <2>3, <1>t DEF EmitTypeOK
<1>4. ASSUME NEW kind \in Bodies, FromAstVar(kind)
      PROVE  toks' = toks /\ funcs' = Append(funcs, [pos |-> Len(toks), len |-> 0])
  BY <1>4 DEF FromAstVar
<1>5. ASSUME \/ \E kind \in {"RETURN"} \cup Interior : Enter(kind)
             \/ FromAstObject \/ RefUnknown \/ \E kind \in Syntax : Tokenless(kind)
             \/ FinishCond \/ FinishIf \/ FinishBlock \/ FromAstDone
      PROVE  toks' = toks /\ funcs' = funcs
  BY <1>5 DEF FromAstObject, Enter, RefUnknown, Tokenless, FinishCond, FinishIf, FinishBlock,
              FromAstDone
<1>6. QED
  BY <1>1, <1>2, <1>3, <1>4, <1>5 DEF EmitNext

(* Emission keeps the windows in order and eliminates nothing.             *)
LEMMA EmitKeepsOrder ==
  ASSUME NodesFit, EmitInv, EmitNext, WindowsOrdered, NoneGone
  PROVE  WindowsOrdered' /\ NoneGone' /\ Len(funcs) <= Len(funcs')
<1>t. /\ EmitTypeOK /\ WindowsInside /\ Len(funcs) \in Nat /\ Len(toks) \in Nat
  BY LenProperties DEF EmitInv, EmitTypeOK
<1>1. CASE toks' = toks /\ funcs' = funcs
  BY <1>1, <1>t DEF WindowsOrdered, NoneGone
<1>2. CASE toks' = toks /\ funcs' = Append(funcs, [pos |-> Len(toks), len |-> 0])
  <2> DEFINE w == [pos |-> Len(toks), len |-> 0]
             n == Len(funcs)
  <2>1. w \in Windows /\ w.pos = Len(toks) /\ w.len = 0
    BY <1>t, ConstantTypes DEF Windows
  <2>2. funcs' = Append(funcs, w)
    BY <1>2
  <2> HIDE DEF w
  <2>3. Len(funcs') = n + 1 /\ funcs'[n + 1] = w /\ \A f \in 1 .. n : funcs'[f] = funcs[f]
    BY <2>1, <2>2, <1>t, AppendProperties DEF EmitTypeOK
  <2>4. \A f \in 1 .. n : funcs[f].pos + funcs[f].len <= Len(toks)
    BY <1>t DEF WindowsInside
  <2>5. ASSUME NEW f \in 1 .. n + 1, NEW g \in 1 .. n + 1, f < g
        PROVE  funcs'[f].pos + funcs'[f].len <= funcs'[g].pos
    <3>1. f \in 1 .. n /\ (g \in 1 .. n \/ g = n + 1)
      BY <2>5, <1>t
    <3>2. CASE g \in 1 .. n
      BY <3>1, <3>2, <2>3, <2>5 DEF WindowsOrdered
    <3>3. CASE g = n + 1
      BY <3>1, <3>3, <2>1, <2>3, <2>4
    <3>4. QED
      BY <3>1, <3>2, <3>3
  <2>6. WindowsOrdered'
    BY <2>3, <2>5 DEF WindowsOrdered
  <2>7. QED
    BY <2>3, <2>6, <1>2, <1>t DEF NoneGone
<1>3. ASSUME funcs # << >>, NEW t \in Tokens, t.type # "NONE", PushToken(t)
      PROVE  WindowsOrdered' /\ NoneGone' /\ Len(funcs) <= Len(funcs')
  <2> DEFINE n == Len(funcs)
  <2>1. /\ Len(toks') = Len(toks) + 1 /\ toks'[Len(toks) + 1] = t
        /\ \A p \in 1 .. Len(toks) : toks'[p] = toks[p]
        /\ Len(funcs') = n
        /\ \A f \in 1 .. n : funcs'[f].pos = funcs[f].pos
        /\ \A f \in 1 .. n : f # n => funcs'[f] = funcs[f]
    BY <1>3, <1>t, PushShape DEF EmitTypeOK
  <2>2. NoneGone'
    BY <2>1, <1>3, <1>t DEF NoneGone
  <2>3. \A f, g \in 1 .. n : f < g => f # n
    BY <1>t
  <2>4. WindowsOrdered'
    BY <2>1, <2>3 DEF WindowsOrdered
  <2>5. QED
    BY <2>1, <2>2, <2>4, <1>t
<1>4. QED
  BY <1>1, <1>2, <1>3, EmitShape

(* What a step of the emitter does to the driver's phase.                  *)
LEMMA EmitPhase ==
  ASSUME EmitNext
  PROVE  /\ phase = "emit" /\ phase' \in {"emit", "optimise", "aborted"}
         /\ phase' = "optimise" => stack' = << >>
BY DEF EmitNext, FromAstVar, FromAstObject, Enter, RefVar, RefUnknown, Tokenless, FinishBinop,
       FinishCond, FinishIf, FinishReturn, FinishBlock, FromAstDone

-----------------------------------------------------------------------------
(* Renaming and eliminating                                                *)

(* What both passes do: the k-th token of the window goes, and from there  *)
(* on its operands named from become to.                                   *)
Rewrite(k, from, to) ==
  toks' = Eliminate(ReplaceWith(toks, func, k + 1, from, to), At(k))

(* A window's tokens, counted from the start of the array.                 *)
LEMMA WindowPlace ==
  ASSUME EmitInv, fn \in 1 .. Len(funcs)
  PROVE  /\ func.pos \in Nat /\ func.len \in Nat /\ Len(toks) \in Nat
         /\ func.pos + func.len <= Len(toks) /\ func \in Windows
         /\ \A k \in Nat : k < func.len => At(k) \in Window(func)
         /\ \A p \in Window(func) :
              p \in 1 .. Len(toks) /\ toks[p] \in Tokens
              /\ \E k \in Nat : k < func.len /\ p = At(k)
<1>1. /\ EmitTypeOK /\ WindowsInside /\ WindowsTile /\ funcs # << >> /\ Len(toks) \in Nat
  BY LenProperties, EmptySeq DEF EmitInv, EmitTypeOK
<1>2. /\ func.pos \in Nat /\ func.len \in Nat /\ func \in Windows
      /\ Window(func) \subseteq 1 .. Len(toks)
      /\ \A p \in Window(func) : toks[p] \in Tokens
  BY <1>1, CurrentWindow, ElementOfSeq DEF func, EmitTypeOK
<1>3. func.pos + func.len <= Len(toks)
  BY <1>1 DEF WindowsInside, func
<1>4. \A k \in Nat : k < func.len => At(k) \in Window(func)
  BY <1>2 DEF At, Window
<1>5. ASSUME NEW p \in Window(func)
      PROVE  \E k \in Nat : k < func.len /\ p = At(k)
  <2>1. p - func.pos - 1 \in Nat /\ p - func.pos - 1 < func.len /\ p = At(p - func.pos - 1)
    BY <1>2 DEF At, Window
  <2>2. QED
    BY <2>1
<1>6. QED
  BY <1>1, <1>2, <1>3, <1>4, <1>5

(* The shape of the program after it: only operands change, only in the    *)
(* tokens after the one that goes, and only from the one id to the other.  *)
LEMMA RewriteShape ==
  ASSUME EmitInv, fn \in 1 .. Len(funcs), NEW k \in Nat, k < func.len,
         NEW from \in Ids, NEW to \in Ids, Rewrite(k, from, to)
  PROVE  /\ toks' \in Seq(Tokens) /\ Len(toks') = Len(toks)
         /\ \A p \in 1 .. Len(toks) :
              /\ toks'[p] \in Tokens
              /\ toks'[p].res = toks[p].res
              /\ toks'[p].type = IF p = At(k) THEN "NONE" ELSE toks[p].type
              /\ \A s \in Slots :
                   toks'[p].args[s] = IF At(k) < p /\ p \in Window(func) /\ toks[p].args[s] = from
                                        THEN to ELSE toks[p].args[s]
              /\ p \notin Window(func) => toks'[p] = toks[p]
<1> DEFINE e == At(k)
           n == Len(toks)
           mid == ReplaceWith(toks, func, k + 1, from, to)
<1>1. /\ n \in Nat /\ e \in 1 .. n /\ e \in Window(func) /\ toks \in Seq(Tokens)
      /\ func.pos \in Nat /\ func.len \in Nat /\ func.pos + func.len <= n
      /\ func.pos + 1 + (k + 1) = e + 1
  BY WindowPlace, SMTT(30) DEF At, EmitInv, EmitTypeOK
<1>2. \A p \in 1 .. n : toks[p] \in Tokens
  BY <1>1, ElementOfSeq
<1>3. \A p \in 1 .. n : p \in func.pos + 1 + (k + 1) .. func.pos + func.len
                           <=> e < p /\ p \in Window(func)
  BY <1>1 DEF Window
<1>4. ASSUME NEW p \in 1 .. n
      PROVE  /\ Substitute(toks[p], from, to) \in Tokens
             /\ Substitute(toks[p], from, to).res = toks[p].res
             /\ Substitute(toks[p], from, to).type = toks[p].type
             /\ \A s \in Slots : Substitute(toks[p], from, to).args[s] =
                    IF toks[p].args[s] = from THEN to ELSE toks[p].args[s]
  BY <1>2 DEF Substitute, Tokens
<1>5. /\ mid = [p \in 1 .. n |-> IF e < p /\ p \in Window(func)
                                   THEN Substitute(toks[p], from, to) ELSE toks[p]]
  BY <1>3 DEF ReplaceWith
<1>6. toks' = [mid EXCEPT ![e].type = "NONE"]
  BY DEF Rewrite, Eliminate
<1> HIDE DEF mid, e
<1>7. mid \in [1 .. n -> Tokens]
  BY <1>2, <1>4, <1>5
<1>8. mid[e] = toks[e] /\ mid[e] \in Tokens
  BY <1>1, <1>5, <1>7
<1>9. [mid[e] EXCEPT !.type = "NONE"] \in Tokens
  BY <1>8 DEF Tokens, TokenTypes
<1>10. /\ toks' \in [1 .. n -> Tokens]
       /\ \A p \in 1 .. n : toks'[p] = IF p = e THEN [mid[e] EXCEPT !.type = "NONE"] ELSE mid[p]
  BY <1>1, <1>6, <1>7, <1>9
<1>11. toks' \in Seq(Tokens) /\ Len(toks') = n
  <2>1. n \in Nat /\ toks' \in [1 .. n -> Tokens]
    BY <1>1, <1>10
  <2> HIDE DEF n
  <2>2. toks' \in Seq(Tokens)
    BY <2>1, SeqDef
  <2>3. QED
    BY <2>1, <2>2, LenProperties
<1>12. ASSUME NEW p \in 1 .. n
       PROVE  /\ toks'[p] \in Tokens
              /\ toks'[p].res = toks[p].res
              /\ toks'[p].type = IF p = e THEN "NONE" ELSE toks[p].type
              /\ \A s \in Slots :
                   toks'[p].args[s] = IF e < p /\ p \in Window(func) /\ toks[p].args[s] = from
                                        THEN to ELSE toks[p].args[s]
              /\ p \notin Window(func) => toks'[p] = toks[p]
  <2>1. CASE p = e
    <3>1. toks'[p] = [toks[e] EXCEPT !.type = "NONE"]
      BY <2>1, <1>8, <1>10
    <3>2. ~(e < e) /\ e \in Window(func) /\ toks[e] \in Tokens
      BY <1>1, <1>2
    <3>3. QED
      BY <2>1, <3>1, <3>2, <1>9, <1>8 DEF Tokens
  <2>2. CASE p # e
    <3>1. toks'[p] = IF e < p /\ p \in Window(func)
                       THEN Substitute(toks[p], from, to) ELSE toks[p]
      BY <2>2, <1>5, <1>10
    <3>2. QED
      BY <2>2, <3>1, <1>2, <1>4
  <2>3. QED
    BY <2>1, <2>2
<1>13. QED
  BY <1>11, <1>12 DEF e

(* A token of a function's window is a token of the array.                 *)
LEMMA InWindow ==
  ASSUME EmitInv, NEW f \in 1 .. Len(funcs), NEW p \in Window(funcs[f])
  PROVE  p \in 1 .. Len(toks) /\ p \in Nat /\ toks[p] \in Tokens
<1>1. funcs # << >> /\ EmitTypeOK /\ WindowsInside /\ WindowsTile
  BY EmptySeq DEF EmitInv, EmitTypeOK
<1>2. p \in 1 .. Len(toks) /\ toks[p] \in Tokens /\ Len(toks) \in Nat
  BY <1>1, CurrentWindow
<1>3. QED
  BY <1>2

(* The windows of two functions have no token in common.                   *)
LEMMA WindowsApart ==
  ASSUME EmitInv, WindowsOrdered, NEW f \in 1 .. Len(funcs), NEW g \in 1 .. Len(funcs), f # g
  PROVE  Window(funcs[f]) \cap Window(funcs[g]) = {}
<1>1. /\ funcs # << >> /\ EmitTypeOK /\ WindowsInside /\ WindowsTile
  BY EmptySeq DEF EmitInv, EmitTypeOK
<1>2. \A h \in 1 .. Len(funcs) : funcs[h].pos \in Nat /\ funcs[h].len \in Nat
  BY <1>1, CurrentWindow
<1>3. \/ funcs[f].pos + funcs[f].len <= funcs[g].pos
      \/ funcs[g].pos + funcs[g].len <= funcs[f].pos
  BY DEF WindowsOrdered
<1>4. ASSUME NEW p \in Window(funcs[f]), p \in Window(funcs[g])
      PROVE  FALSE
  <2>1. /\ p \in Nat /\ funcs[f].pos < p /\ p <= funcs[f].pos + funcs[f].len
        /\ funcs[g].pos < p /\ p <= funcs[g].pos + funcs[g].len
    BY <1>2, <1>4 DEF Window
  <2>2. /\ funcs[f].pos \in Nat /\ funcs[f].len \in Nat
        /\ funcs[g].pos \in Nat /\ funcs[g].len \in Nat
    BY <1>2
  <2> QED BY <1>3, <2>1, <2>2
<1>5. QED
  BY <1>4

(* A step after emission that keeps results keeps the emitter's invariant, *)
(* provided that operands stay defined before they are used.               *)
LEMMA EmitInvAfter ==
  ASSUME EmitInv, stack = << >>, UNCHANGED <<funcs, nextId, nodes, stack>>, phase' \in Phases,
         toks' \in Seq(Tokens), Len(toks') = Len(toks),
         \A p \in 1 .. Len(toks) : toks'[p].res = toks[p].res,
         DefinedBeforeUse'
  PROVE  EmitInv'
<1>1. EmitTypeOK'
  BY DEF EmitInv, EmitTypeOK
<1>2. WindowsInside' /\ WindowsTile' /\ NoStray' /\ IdsFresh'
  BY DEF EmitInv, WindowsInside, WindowsTile, NoStray, IdsFresh
<1>3. SingleAssignment'
  <2> SUFFICES ASSUME NEW f \in 1 .. Len(funcs), NEW p \in Window(funcs[f])
               PROVE  /\ toks'[p].res >= FirstTemporal
                      /\ \A q \in Window(funcs[f]) : toks'[p].res = toks'[q].res => p = q
    BY DEF SingleAssignment
  <2>1. funcs # << >> /\ EmitTypeOK /\ WindowsInside /\ WindowsTile
    BY EmptySeq DEF EmitInv, EmitTypeOK
  <2>2. \A q \in Window(funcs[f]) : q \in 1 .. Len(toks)
    BY <2>1, CurrentWindow
  <2>3. QED
    BY <2>2 DEF EmitInv, SingleAssignment
<1>4. QED
  BY <1>1, <1>2, <1>3 DEF EmitInv

(* Renaming to an id that is defined early enough.                         *)
LEMMA RewriteKeepsEmit ==
  ASSUME EmitInv, WindowsOrdered, fn \in 1 .. Len(funcs), NEW k \in Nat, k < func.len,
         NEW from \in Ids, NEW to \in Ids, Rewrite(k, from, to),
         \/ to \in ParamIds \/ to = ID_NULL
         \/ \E q \in Window(func) : q <= At(k) /\ toks[q].res = to,
         stack = << >>, UNCHANGED <<funcs, nextId, nodes, stack>>, phase' \in Phases
  PROVE  EmitInv' /\ WindowsOrdered'
<1> DEFINE e == At(k)
<1>1. /\ toks' \in Seq(Tokens) /\ Len(toks') = Len(toks)
      /\ \A p \in 1 .. Len(toks) :
           /\ toks'[p].res = toks[p].res
           /\ \A s \in Slots :
                toks'[p].args[s] = IF e < p /\ p \in Window(func) /\ toks[p].args[s] = from
                                     THEN to ELSE toks[p].args[s]
           /\ p \notin Window(func) => toks'[p] = toks[p]
  BY RewriteShape
<1>2. \A f \in 1 .. Len(funcs) : \A p \in Window(funcs[f]) : p \in 1 .. Len(toks) /\ p \in Nat
  BY InWindow
<1>3. e \in Nat
  BY WindowPlace DEF At
<1> HIDE DEF e
<1>4. DefinedBeforeUse'
  <2> SUFFICES ASSUME NEW f \in 1 .. Len(funcs), NEW p \in Window(funcs[f]), NEW s \in Slots
               PROVE  \/ toks'[p].args[s] = ID_NULL
                      \/ toks'[p].args[s] \in ParamIds
                      \/ \E q \in Window(funcs[f]) : q < p /\ toks'[q].res = toks'[p].args[s]
    BY DEF DefinedBeforeUse
  <2>1. \A q \in Window(funcs[f]) : toks'[q].res = toks[q].res
    BY <1>1, <1>2
  <2>2. CASE toks'[p].args[s] = toks[p].args[s]
    BY <2>1, <2>2 DEF EmitInv, DefinedBeforeUse
  <2>3. CASE toks'[p].args[s] = to /\ e < p /\ p \in Window(func)
    <3>1. f = fn
      <4>1. funcs[fn] = func
        BY DEF func
      <4>2. f # fn => Window(funcs[f]) \cap Window(funcs[fn]) = {}
        BY WindowsApart
      <4>3. QED
        BY <2>3, <4>1, <4>2
    <3>2. Window(funcs[f]) = Window(func)
      BY <3>1 DEF func
    <3>3. CASE \E q \in Window(func) : q <= e /\ toks[q].res = to
      <4>1. PICK q \in Window(func) : q <= e /\ toks[q].res = to
        BY <3>3
      <4>2. q \in Window(funcs[f]) /\ q \in Nat /\ p \in Nat
        BY <4>1, <3>2, <1>2
      <4>3. q < p
        BY <4>1, <4>2, <2>3, <1>3
      <4>4. QED
        BY <4>1, <4>2, <4>3, <2>1, <2>3
    <3>4. QED
      BY <2>3, <3>3 DEF e
  <2>4. QED
    BY <1>1, <1>2, <2>2, <2>3
<1>5. WindowsOrdered'
  BY DEF WindowsOrdered
<1>6. EmitInv'
  BY <1>1, <1>4, EmitInvAfter
<1>7. QED
  BY <1>5, <1>6

-----------------------------------------------------------------------------
(* Nothing dangles                                                         *)

(* A result is neither null nor a parameter.                               *)
LEMMA ResultIsTemporal ==
  ASSUME EmitInv, NEW f \in 1 .. Len(funcs), NEW p \in Window(funcs[f])
  PROVE  toks[p].res # ID_NULL /\ toks[p].res \notin ParamIds /\ toks[p].res \in Ids
<1>1. funcs # << >> /\ EmitTypeOK /\ WindowsInside /\ WindowsTile
  BY EmptySeq DEF EmitInv, EmitTypeOK
<1>2. toks[p] \in Tokens
  BY <1>1, CurrentWindow
<1>3. toks[p].res >= FirstTemporal /\ toks[p].res \in Ids /\ toks[p].res \in Nat
  BY <1>2, ConstantTypes, SMTT(30) DEF EmitInv, SingleAssignment, Tokens, Ids
<1>4. toks[p].res \notin ParamIds
  BY <1>3, ConstantTypes, SMTT(30) DEF ParamIds, ID_PARAM
<1>5. QED
  BY <1>3, <1>4, ConstantTypes

(* Of two tokens of a window with the same result there is one.            *)
LEMMA OneResult ==
  ASSUME EmitInv, NEW f \in 1 .. Len(funcs), NEW p \in Window(funcs[f]),
         NEW q \in Window(funcs[f]), toks[p].res = toks[q].res
  PROVE  p = q
  BY DEF EmitInv, SingleAssignment

(* The token that goes takes its result out of every operand, and if it was*)
(* still there, what replaces it is a parameter or defined by a token that *)
(* is still there too.                                                     *)
LEMMA RewriteKeepsLive ==
  ASSUME EmitInv, WindowsOrdered, NoDanglingOperand, UNCHANGED funcs,
         fn \in 1 .. Len(funcs), NEW k \in Nat, k < func.len,
         NEW to \in Ids, Rewrite(k, toks[At(k)].res, to),
         toks[At(k)].type # "NONE" =>
           \/ to \in ParamIds
           \/ \E q \in Live(fn) : q < At(k) /\ toks[q].res = to
  PROVE  NoDanglingOperand'
<1> DEFINE e == At(k)
           from == toks[At(k)].res
<1>0. e \in Window(funcs[fn]) /\ e \in Nat /\ func = funcs[fn]
  BY WindowPlace, SMTT(30) DEF func, At
<1>1. from \in Ids /\ from # ID_NULL /\ from \notin ParamIds
  BY <1>0, ResultIsTemporal
<1>2. /\ Len(toks') = Len(toks)
      /\ \A p \in 1 .. Len(toks) :
           /\ toks'[p].res = toks[p].res
           /\ toks'[p].type = IF p = e THEN "NONE" ELSE toks[p].type
           /\ \A s \in Slots :
                toks'[p].args[s] = IF e < p /\ p \in Window(func) /\ toks[p].args[s] = from
                                     THEN to ELSE toks[p].args[s]
  BY <1>1, RewriteShape
<1>3. \A f \in 1 .. Len(funcs) : \A p \in Window(funcs[f]) : p \in 1 .. Len(toks) /\ p \in Nat
  BY InWindow
<1>4. \A p \in Window(funcs[fn]) : toks[p].res = from => p = e
  BY <1>0, OneResult
<1>5. \A f \in 1 .. Len(funcs) : f # fn => e \notin Window(funcs[f])
  BY <1>0, WindowsApart
<1> HIDE DEF e, from
<1> SUFFICES ASSUME NEW f \in 1 .. Len(funcs), NEW p \in Window(funcs[f]), NEW s \in Slots,
                    toks'[p].type # "NONE"
             PROVE  \/ toks'[p].args[s] = ID_NULL
                    \/ toks'[p].args[s] \in ParamIds
                    \/ \E q \in Window(funcs[f]) :
                         toks'[q].type # "NONE" /\ q < p /\ toks'[q].res = toks'[p].args[s]
  BY DEF NoDanglingOperand, Live
<1>6. toks[p].type # "NONE" /\ p # e
  BY <1>2, <1>3
<1>7. CASE toks'[p].args[s] = toks[p].args[s] /\ ~(e < p /\ p \in Window(func) /\ toks[p].args[s] = from)
  <2>1. SUFFICES ASSUME toks[p].args[s] # ID_NULL, toks[p].args[s] \notin ParamIds
                 PROVE  \E q \in Window(funcs[f]) :
                          toks'[q].type # "NONE" /\ q < p /\ toks'[q].res = toks[p].args[s]
    BY <1>7
  <2>2. PICK q \in Window(funcs[f]) :
               toks[q].type # "NONE" /\ q < p /\ toks[q].res = toks[p].args[s]
    BY <1>6, <2>1 DEF NoDanglingOperand, Live
  <2>3. q # e
    <3> SUFFICES ASSUME q = e PROVE FALSE
      OBVIOUS
    <3>1. f = fn
      BY <2>2, <1>5
    <3>2. toks[p].args[s] = from
      BY <2>2 DEF from, e
    <3>3. QED
      BY <3>1, <3>2, <2>2, <1>0, <1>7
  <2>4. toks'[q].type # "NONE" /\ toks'[q].res = toks[q].res
    BY <2>2, <2>3, <1>2, <1>3
  <2>5. QED
    BY <2>2, <2>4
<1>8. CASE toks'[p].args[s] = to /\ e < p /\ p \in Window(func) /\ toks[p].args[s] = from
  <2>1. f = fn
    BY <1>0, <1>8, WindowsApart
  <2>2. PICK u \in Window(funcs[fn]) : toks[u].type # "NONE" /\ toks[u].res = from
    BY <1>1, <1>6, <1>8, <2>1 DEF NoDanglingOperand, Live
  <2>3. toks[e].type # "NONE"
    BY <2>2, <1>4
  <2>4. CASE to \in ParamIds
    BY <2>4, <1>8
  <2>5. CASE \E q \in Live(fn) : q < e /\ toks[q].res = to
    <3>1. PICK q \in Window(funcs[fn]) : toks[q].type # "NONE" /\ q < e /\ toks[q].res = to
      BY <2>5 DEF Live
    <3>2. q \in 1 .. Len(toks) /\ q # e /\ q < p
      <4>1. q \in 1 .. Len(toks) /\ q \in Nat /\ p \in Nat
        BY <3>1, <1>3, <2>1
      <4>2. QED
        BY <4>1, <3>1, <1>0, <1>8
    <3>3. toks'[q].type # "NONE" /\ toks'[q].res = to
      BY <3>1, <3>2, <1>2
    <3>4. QED
      BY <3>1, <3>2, <3>3, <2>1, <1>8
  <2>6. QED
    BY <2>3, <2>4, <2>5 DEF e
<1>9. QED
  BY <1>2, <1>3, <1>7, <1>8

-----------------------------------------------------------------------------
(* Copies are propagated soundly                                           *)

(* Renaming operands to ids of the same value keeps what a token means.    *)
LEMMA RenamedMeansTheSame ==
  ASSUME NEW t \in Tokens, NEW u \in Tokens, NEW m, u.type = t.type, u.res = t.res,
         \A s \in Slots : /\ m[u.args[s]] = m[t.args[s]]
                          /\ u.args[s] # ID_NULL => t.args[s] # ID_NULL,
         Faithful(t, m)
  PROVE  Faithful(u, m)
<1>1. 0 \in Slots /\ 1 \in Slots
  BY TokenIds
<1>2. UsedSlots(u) = UsedSlots(t)
  BY DEF UsedSlots
<1>3. UsedSlots(t) \subseteq Slots
  BY <1>1 DEF UsedSlots, Tokens, TokenTypes
<1>4. m[u.args[0]] = m[t.args[0]] /\ m[u.args[1]] = m[t.args[1]]
  BY <1>1
<1>5. Denotes(u, m) = Denotes(t, m)
  BY <1>4 DEF Denotes
<1>6. ASSUME \A s \in UsedSlots(u) : u.args[s] # ID_NULL
      PROVE  \A s \in UsedSlots(t) : t.args[s] # ID_NULL
  BY <1>2, <1>3, <1>6
<1>7. QED
  BY <1>5, <1>6 DEF Faithful

(* Eliminating an IDENTITY renames its result to its operand, and both mean*)
(* the same because the token itself means what its node means.            *)
LEMMA IdentityKeepsMeaning ==
  ASSUME EmitInv, WindowsOrdered, IdentityPassTranslates, UNCHANGED <<funcs, src>>,
         fn \in 1 .. Len(funcs), pass = "identity", NEW k \in Nat, k < func.len,
         toks[At(k)].type = "IDENTITY", toks[At(k)].args[0] # ID_NULL,
         Rewrite(k, toks[At(k)].res, toks[At(k)].args[0])
  PROVE  \A f \in 1 .. Len(funcs) : f >= fn =>
           \A p \in Window(funcs[f]) : toks'[p].type # "NONE" => Faithful(toks'[p], src[f])
<1> DEFINE e == At(k)
           from == toks[e].res
           to == toks[e].args[0]
           m == src[fn]
<1>0. e \in Window(funcs[fn]) /\ func = funcs[fn]
  BY WindowPlace DEF func
<1>1. from \in Ids /\ to \in Ids /\ from # ID_NULL /\ toks[e] \in Tokens
  BY <1>0, ResultIsTemporal, InWindow, TokenIds
<1>2. \A p \in 1 .. Len(toks) :
        /\ toks'[p] \in Tokens
        /\ toks'[p].res = toks[p].res
        /\ toks'[p].type = IF p = e THEN "NONE" ELSE toks[p].type
        /\ \A s \in Slots :
             toks'[p].args[s] = IF e < p /\ p \in Window(func) /\ toks[p].args[s] = from
                                  THEN to ELSE toks[p].args[s]
        /\ p \notin Window(func) => toks'[p] = toks[p]
  BY <1>1, RewriteShape
<1>3. \A f \in 1 .. Len(funcs) : f >= fn =>
        \A p \in Window(funcs[f]) : toks[p].type # "NONE" => Faithful(toks[p], src[f])
  BY DEF IdentityPassTranslates, Live, Translates, Faithful
<1>4. m[from] = m[to]
  <2>1. Faithful(toks[e], m)
    BY <1>0, <1>3
  <2>2. UsedSlots(toks[e]) = {0} /\ Denotes(toks[e], m) = m[to]
    BY BinOpsAssumption DEF UsedSlots, Denotes
  <2>3. QED
    BY <2>1, <2>2 DEF Faithful
<1>5. to # ID_NULL
  OBVIOUS
<1> HIDE DEF e, from, to, m
<1> SUFFICES ASSUME NEW f \in 1 .. Len(funcs), f >= fn, NEW p \in Window(funcs[f]),
                    toks'[p].type # "NONE"
             PROVE  Faithful(toks'[p], src[f])
  OBVIOUS
<1>6. p \in 1 .. Len(toks) /\ toks[p] \in Tokens
  BY InWindow
<1>7. toks[p].type # "NONE" /\ toks'[p].type = toks[p].type
  BY <1>2, <1>6
<1>8. Faithful(toks[p], src[f])
  BY <1>3, <1>7
<1>9. CASE f = fn
  <2>1. \A s \in Slots : /\ m[toks'[p].args[s]] = m[toks[p].args[s]]
                         /\ toks'[p].args[s] # ID_NULL => toks[p].args[s] # ID_NULL
    BY <1>1, <1>2, <1>4, <1>5, <1>6
  <2>2. Faithful(toks[p], m)
    BY <1>8, <1>9 DEF m
  <2>3. Faithful(toks'[p], m)
    BY <1>2, <1>6, <1>7, <2>1, <2>2, RenamedMeansTheSame, SMTT(30)
  <2>4. QED
    BY <2>3, <1>9 DEF m
<1>10. CASE f # fn
  <2>1. p \notin Window(func)
    BY <1>0, <1>10, WindowsApart
  <2>2. QED
    BY <2>1, <1>2, <1>6, <1>8
<1>11. QED
  BY <1>9, <1>10

-----------------------------------------------------------------------------
(* Duplicates                                                              *)

(* Two tokens that the reused pass has compared are no longer the same.    *)
(* Pairs are compared in the order of the two loops.                       *)
Distinct(p, q) ==
  toks[p].type # "NONE" /\ toks[q].type # "NONE" => ~SameToken(toks[p], toks[q])

Compared(p, q) == p < q /\ (p < At(oi) \/ (p = At(oi) /\ q < At(oj)))

NoneSameBehind ==
  /\ \A f \in 1 .. fn - 1 : \A p, q \in Window(funcs[f]) : p < q => Distinct(p, q)
  /\ pass = "reused" => \A p, q \in Window(func) : Compared(p, q) => Distinct(p, q)

(* A merge renames to the result of the earlier token, which no token      *)
(* before that one can name: so it makes no compared pair the same again.  *)
LEMMA MergeKeepsDistinct ==
  ASSUME EmitInv, WindowsOrdered, UNCHANGED <<funcs, fn, pass, oi>>,
         fn \in 1 .. Len(funcs), pass = "reused", oi \in Nat, oj \in Nat, oi < oj, oj < func.len,
         NoneSameBehind, Rewrite(oj, jtok.res, itok.res), oj' = oj + 1
  PROVE  NoneSameBehind'
<1> DEFINE e == At(oj)
           d == At(oi)
           from == toks[e].res
           to == toks[d].res
<1>0. /\ e \in Window(funcs[fn]) /\ d \in Window(funcs[fn]) /\ func = funcs[fn]
      /\ d \in Nat /\ e \in Nat /\ d < e
  <2>1. func.pos \in Nat /\ func.len \in Nat /\ oi < func.len
    BY WindowPlace
  <2>2. e \in Window(func) /\ d \in Window(func)
    BY <2>1, WindowPlace
  <2>3. d \in Nat /\ e \in Nat /\ d < e
    BY <2>1, SMTT(30) DEF At
  <2>4. QED
    BY <2>2, <2>3 DEF func
<1>1. /\ from \in Ids /\ to \in Ids /\ from # ID_NULL /\ to # ID_NULL /\ to \notin ParamIds
      /\ 0 \in Slots /\ Rewrite(oj, from, to)
  BY <1>0, ResultIsTemporal, ConstantTypes DEF Slots, itok, jtok
<1>2. \A p \in 1 .. Len(toks) :
        /\ toks'[p].type = IF p = e THEN "NONE" ELSE toks[p].type
        /\ toks'[p].args[0] = IF e < p /\ p \in Window(func) /\ toks[p].args[0] = from
                                 THEN to ELSE toks[p].args[0]
        /\ p \notin Window(func) => toks'[p] = toks[p]
  BY <1>1, RewriteShape
<1>3. \A p \in Window(funcs[fn]) : toks[p].res = to => p = d
  BY <1>0, OneResult
<1>4. At(oi)' = d /\ At(oj)' = e + 1 /\ func' = func
  <2>1. func.pos \in Nat /\ func' = func
    BY WindowPlace DEF func
  <2>2. QED
    BY <2>1 DEF At
<1>5. d = At(oi) /\ e = At(oj)
  OBVIOUS
<1> HIDE DEF e, d, from, to
<1>6. ASSUME NEW f \in 1 .. fn - 1, NEW p \in Window(funcs[f]), NEW q \in Window(funcs[f]), p < q
      PROVE  Distinct(p, q)'
  <2>1. f \in 1 .. Len(funcs) /\ f # fn
    OBVIOUS
  <2>2. p \notin Window(func) /\ q \notin Window(func)
    BY <2>1, <1>0, WindowsApart
  <2>3. p \in 1 .. Len(toks) /\ q \in 1 .. Len(toks)
    BY <2>1, InWindow
  <2>4. toks'[p] = toks[p] /\ toks'[q] = toks[q] /\ Distinct(p, q)
    BY <1>2, <1>6, <2>2, <2>3 DEF NoneSameBehind
  <2>5. QED
    BY <2>4 DEF Distinct
<1>7. ASSUME NEW p \in Window(func), NEW q \in Window(func), p < q,
             p < d \/ (p = d /\ q < e + 1)
      PROVE  Distinct(p, q)'
  <2>1. /\ p \in 1 .. Len(toks) /\ q \in 1 .. Len(toks) /\ p \in Nat /\ q \in Nat
    BY <1>0, InWindow
  <2>2. CASE q = e
    BY <2>1, <2>2, <1>2 DEF Distinct
  <2>3. CASE q # e
    <3>1. Distinct(p, q)
      <4>1. p < d \/ (p = d /\ q < e)
        BY <1>7, <2>1, <2>3, <1>0
      <4>2. Compared(p, q)
        BY <4>1, <1>5, <1>7 DEF Compared
      <4>3. QED
        BY <4>2 DEF NoneSameBehind
    <3>2. p # e /\ ~(e < p)
      BY <1>0, <1>7, <2>1
    <3>3. toks'[p].type = toks[p].type /\ toks'[p].args[0] = toks[p].args[0]
      BY <3>2, <2>1, <1>2
    <3>4. toks'[q].type = toks[q].type
      BY <2>1, <2>3, <1>2
    <3>5. CASE toks'[q].args[0] = toks[q].args[0]
      BY <3>1, <3>3, <3>4, <3>5 DEF Distinct, SameToken
    <3>6. CASE toks'[q].args[0] = to /\ e < q
      <4>1. p < d
        BY <1>7, <3>6, <1>0, <2>1
      <4>2. toks[p].args[0] # to
        <5> SUFFICES ASSUME toks[p].args[0] = to PROVE FALSE
          OBVIOUS
        <5>1. PICK u \in Window(funcs[fn]) : u < p /\ toks[u].res = to
          BY <1>0, <1>1 DEF EmitInv, DefinedBeforeUse
        <5>2. u = d
          BY <5>1, <1>3
        <5>3. QED
          BY <5>1, <5>2, <4>1, <1>0, <2>1
      <4>3. QED
        BY <4>2, <3>3, <3>6 DEF Distinct, SameToken
    <3>7. QED
      BY <3>5, <3>6, <2>1, <1>2
  <2>4. QED
    BY <2>2, <2>3
<1>8. \A p, q : Compared(p, q)' <=> p < q /\ (p < d \/ (p = d /\ q < e + 1))
  BY <1>4 DEF Compared
<1>9. Window(func)' = Window(func)
  BY <1>4
<1>10. QED
  BY <1>6, <1>7, <1>8, <1>9 DEF NoneSameBehind

-----------------------------------------------------------------------------
(* The invariant of the optimiser                                          *)

(* Where the passes are.  While the emitter runs they have not begun; after*)
(* it the recursion is over, so that its part of the invariant says nothing*)
(* of ids any more and renaming cannot disturb it.                         *)
PassPlace ==
  /\ phase = "emit" => fn = 1 /\ pass = "identity" /\ oi = 0 /\ MeaningInv /\ NoneGone
  /\ phase \in {"optimise", "lower", "done"} => stack = << >>
  /\ pass = "reused" => fn <= Len(funcs) /\ oi < oj /\ oj <= func.len + 1

NoIdentityBehind ==
  /\ NoIdentityLeft
  /\ fn <= Len(funcs) => \A p \in Window(func) : p < At(oi) => toks[p].type # "IDENTITY"

OptInv ==
  /\ EmitInv /\ OptimiseTypeOK /\ WindowsOrdered /\ PassPlace
  /\ NoDanglingOperand /\ IdentityPassTranslates /\ NoIdentityBehind /\ NoneSameBehind

(* In either pass the loop variables are numbers, and the function they    *)
(* are in has a window.                                                    *)
LEMMA OptTypes ==
  ASSUME OptInv
  PROVE  /\ Len(funcs) \in Nat /\ oi \in Nat /\ oj \in Nat /\ fn \in Nat /\ fn >= 1
         /\ fn <= Len(funcs) => fn \in 1 .. Len(funcs) /\ func.len \in 0 .. LenMod - 1
                                /\ func.pos \in Nat /\ func.len \in Nat
<1>1. Len(funcs) \in Nat /\ oi \in Nat /\ oj \in Nat /\ fn \in Nat /\ fn >= 1
  BY LenProperties, ConstantTypes DEF OptInv, OptimiseTypeOK, EmitTypeOK
<1>2. ASSUME fn <= Len(funcs)
      PROVE  /\ fn \in 1 .. Len(funcs) /\ func.len \in 0 .. LenMod - 1
             /\ func.pos \in Nat /\ func.len \in Nat
  <2>1. fn \in 1 .. Len(funcs)
    BY <1>1, <1>2
  <2>2. func \in Windows /\ func.len \in Nat /\ func.pos \in Nat
    BY <2>1, WindowPlace DEF OptInv
  <2>3. QED
    BY <2>1, <2>2 DEF Windows
<1>3. QED
  BY <1>1, <1>2

(* A step of the emitter.                                                  *)
LEMMA OptEmitStep ==
  ASSUME NodesFit, OptInv, EmitNext, UNCHANGED passVars
  PROVE  OptInv'
<1>1. /\ EmitInv /\ MeaningInv /\ NoneGone /\ WindowsOrdered /\ phase = "emit"
      /\ fn = 1 /\ pass = "identity" /\ oi = 0
      /\ fn' = fn /\ pass' = pass /\ oi' = oi /\ oj' = oj
  BY EmitPhase DEF OptInv, PassPlace, passVars
<1>2. EmitInv' /\ MeaningInv'
  BY <1>1, EmitInvStep, MeaningStep
<1>3. WindowsOrdered' /\ NoneGone'
  BY <1>1, EmitKeepsOrder
<1>4. phase' \in {"emit", "optimise", "aborted"} /\ (phase' = "optimise" => stack' = << >>)
  BY EmitPhase
<1>5. PassPlace'
  BY <1>1, <1>2, <1>3, <1>4 DEF PassPlace
<1>6. Len(funcs') \in Nat /\ \A f \in 1 .. Len(funcs') : funcs'[f].len \in Nat /\ funcs'[f].pos \in Nat
  <2>1. EmitTypeOK'
    BY <1>2 DEF EmitInv
  <2>2. Len(funcs') \in Nat /\ \A f \in 1 .. Len(funcs') : funcs'[f] \in Windows
    BY <2>1, LenProperties, ElementOfSeq DEF EmitTypeOK
  <2>3. QED
    BY <2>2, ConstantTypes DEF Windows
<1>7. OptimiseTypeOK'
  <2>1. fn' <= Len(funcs') => oi' <= func'.len
    BY <1>1, <1>6 DEF func
  <2>2. QED
    BY <1>1, <1>2, <1>6, <2>1 DEF OptInv, OptimiseTypeOK, EmitInv
<1>8. NoDanglingOperand'
  <2>1. \A f \in 1 .. Len(funcs') : \A p \in Window(funcs'[f]) : toks'[p].type # "NONE"
    <3>1. funcs' # << >> => Len(funcs') \in 1 .. Len(funcs')
      BY <1>6, <1>2, EmptySeq DEF EmitInv, EmitTypeOK
    <3>2. \A f \in 1 .. Len(funcs') : \A p \in Window(funcs'[f]) : p \in 1 .. Len(toks')
      <4>1. \A f \in 1 .. Len(funcs') : funcs'[f].pos + funcs'[f].len <= Len(toks')
        BY <1>2 DEF EmitInv, WindowsInside
      <4>2. Len(toks') \in Nat
        BY <1>2, LenProperties DEF EmitInv, EmitTypeOK
      <4>3. QED
        BY <4>1, <4>2, <1>6 DEF Window
    <3>3. QED
      BY <3>2, <1>3 DEF NoneGone
  <2>2. QED
    BY <2>1, <1>2 DEF NoDanglingOperand, Live, EmitInv, DefinedBeforeUse
<1>9. IdentityPassTranslates'
  BY <1>2 DEF MeaningInv, AllTranslate, Faithful, IdentityPassTranslates, Live, Translates
<1>10. NoIdentityBehind'
  <2>1. NoIdentityLeft'
    BY <1>1 DEF NoIdentityLeft
  <2>2. ASSUME fn' <= Len(funcs'), NEW p \in Window(func') PROVE ~(p < At(oi)')
    <3>1. fn' \in 1 .. Len(funcs') /\ func' = funcs'[fn'] /\ At(oi)' = func'.pos + 1
      BY <2>2, <1>1, <1>6 DEF func, At
    <3>2. QED
      BY <3>1, <1>6 DEF Window
  <2>3. QED
    BY <2>1, <2>2 DEF NoIdentityBehind
<1>11. NoneSameBehind'
  BY <1>1 DEF NoneSameBehind
<1>12. QED
  BY <1>2, <1>3, <1>5, <1>7, <1>8, <1>9, <1>10, <1>11 DEF OptInv

(* A step that leaves the program and the passes alone, after emission.    *)
LEMMA OptPhaseStep ==
  ASSUME OptInv, phase # "emit", phase # "aborted", phase' \in Phases \ {"emit"},
         UNCHANGED <<toks, funcs, nextId, nodes, stack, src, passVars>>
  PROVE  OptInv'
<1>1. stack = << >>
  BY DEF OptInv, PassPlace, EmitInv, EmitTypeOK, Phases
<1>2. EmitInv'
  <2>1. toks' \in Seq(Tokens) /\ DefinedBeforeUse'
    BY DEF OptInv, EmitInv, EmitTypeOK, DefinedBeforeUse
  <2>2. QED
    BY <1>1, <2>1, EmitInvAfter DEF OptInv
<1>3. fn' = fn /\ pass' = pass /\ oi' = oi /\ oj' = oj /\ func' = func /\ At(oi)' = At(oi)
      /\ At(oj)' = At(oj)
  BY DEF passVars, func, At
<1>4. PassPlace' /\ OptimiseTypeOK' /\ WindowsOrdered'
  BY <1>1, <1>2, <1>3 DEF OptInv, PassPlace, OptimiseTypeOK, EmitInv, WindowsOrdered
<1>5. NoDanglingOperand' /\ IdentityPassTranslates'
  BY <1>3 DEF OptInv, NoDanglingOperand, IdentityPassTranslates, Live, Translates
<1>6. NoIdentityBehind' /\ NoneSameBehind'
  BY <1>3 DEF OptInv, NoIdentityBehind, NoIdentityLeft, NoneSameBehind, Compared, Distinct
<1>7. QED
  BY <1>2, <1>4, <1>5, <1>6 DEF OptInv

(* Where the passes are after a step that changes neither tokens nor       *)
(* functions: the parts of the invariant that do not look at the passes.   *)
LEMMA SameProgram ==
  ASSUME OptInv, UNCHANGED emitVars, phase = "optimise"
  PROVE  /\ EmitInv' /\ WindowsOrdered' /\ NoDanglingOperand' /\ stack' = << >>
         /\ EmitTypeOK' /\ phase' = "optimise"
<1>1. /\ phase' = phase /\ toks' = toks /\ funcs' = funcs /\ nextId' = nextId
      /\ nodes' = nodes /\ stack' = stack /\ src' = src
  BY DEF emitVars
<1>2. stack = << >> /\ phase' \in Phases
  BY <1>1 DEF OptInv, PassPlace, Phases
<1>3. toks' \in Seq(Tokens) /\ DefinedBeforeUse'
  BY <1>1 DEF OptInv, EmitInv, EmitTypeOK, DefinedBeforeUse
<1>4. EmitInv'
  BY <1>1, <1>2, <1>3, EmitInvAfter DEF OptInv
<1>5. QED
  BY <1>1, <1>2, <1>4 DEF OptInv, EmitInv, WindowsOrdered, NoDanglingOperand, Live

-----------------------------------------------------------------------------
(* The steps of the passes                                                 *)

(* What a rewriting step leaves of the invariant's parts about identities: *)
(* no type becomes IDENTITY.                                               *)
LEMMA RewriteKeepsNoIdentity ==
  ASSUME EmitInv, NoIdentityBehind, UNCHANGED <<funcs, fn, pass>>, fn \in 1 .. Len(funcs),
         NEW k \in Nat, k < func.len, NEW from \in Ids, NEW to \in Ids, Rewrite(k, from, to),
         oi \in Nat, oi' = oi \/ (oi' = oi + 1 /\ k = oi)
  PROVE  NoIdentityBehind'
<1>1. \A p \in 1 .. Len(toks) :
        toks'[p].type = IF p = At(k) THEN "NONE" ELSE toks[p].type
  BY RewriteShape
<1>2. \A f \in 1 .. Len(funcs) : \A p \in Window(funcs[f]) :
        p \in 1 .. Len(toks) /\ p \in Nat
  BY InWindow
<1>3. func = funcs[fn] /\ func' = func /\ func.pos \in Nat
  BY WindowPlace DEF func
<1>4. NoIdentityLeft'
  BY <1>1, <1>2, <1>3 DEF NoIdentityBehind, NoIdentityLeft
<1>5. ASSUME NEW p \in Window(func), p < At(oi)' PROVE toks'[p].type # "IDENTITY"
  <2>1. p \in 1 .. Len(toks) /\ p \in Nat
    BY <1>2, <1>3
  <2>2. p < At(oi) \/ p = At(k)
    BY <1>3, <1>5, <2>1, SMTT(30) DEF At
  <2>3. QED
    BY <1>1, <2>1, <2>2 DEF NoIdentityBehind
<1>6. QED
  BY <1>3, <1>4, <1>5 DEF NoIdentityBehind

(* The windows of other functions are as they were: what the later ones    *)
(* mean and that the earlier ones hold no duplicates.                      *)
LEMMA RewriteKeepsOthers ==
  ASSUME EmitInv, WindowsOrdered, UNCHANGED funcs, fn \in 1 .. Len(funcs),
         NEW k \in Nat, k < func.len, NEW from \in Ids, NEW to \in Ids, Rewrite(k, from, to),
         NEW f \in 1 .. Len(funcs), f # fn, NEW p \in Window(funcs[f])
  PROVE  toks'[p] = toks[p]
<1>1. p \in 1 .. Len(toks) /\ func = funcs[fn]
  BY InWindow DEF func
<1>2. p \notin Window(func)
  BY <1>1, WindowsApart
<1>3. QED
  BY <1>1, <1>2, RewriteShape

(* Dropping an IDENTITY, with its renaming, keeps the invariant.           *)
LEMMA EliminateIdentityStep ==
  ASSUME OptInv, EliminateIdentity
  PROVE  OptInv'
<1>1. /\ phase = "optimise" /\ fn <= Len(funcs) /\ pass = "identity" /\ oi < func.len
      /\ itok.type = "IDENTITY"
      /\ UNCHANGED <<funcs, nextId, nodes, stack, src, fn, pass, oj>>
  BY DEF EliminateIdentity, Working
<1>t. /\ fn \in 1 .. Len(funcs) /\ oi \in Nat /\ func.len \in Nat /\ func.pos \in Nat
      /\ EmitInv /\ WindowsOrdered /\ NoDanglingOperand /\ IdentityPassTranslates
      /\ NoIdentityBehind /\ NoneSameBehind /\ stack = << >>
  BY <1>1, OptTypes DEF OptInv, PassPlace
<1>2. CASE itok.res = ID_NULL \/ itok.args[0] = ID_NULL
  <2>1. phase' = "aborted" /\ UNCHANGED <<toks, oi>>
    BY <1>2 DEF EliminateIdentity
  <2>2. QED
    BY <2>1, <1>1, OptPhaseStep DEF passVars, Phases
<1>3. CASE itok.res # ID_NULL /\ itok.args[0] # ID_NULL
  <2> DEFINE e == At(oi)
             from == toks[e].res
             to == toks[e].args[0]
  <2>1. Rewrite(oi, from, to) /\ oi' = oi + 1 /\ phase' = phase
    BY <1>3 DEF EliminateIdentity, Rewrite, itok
  <2>2. e \in Window(funcs[fn]) /\ func = funcs[fn] /\ e \in Nat
    BY <1>1, <1>t, WindowPlace, SMTT(30) DEF func, At
  <2>3. /\ from \in Ids /\ to \in Ids /\ 0 \in Slots /\ to # ID_NULL
        /\ toks[e].type = "IDENTITY"
    BY <2>2, <1>1, <1>t, <1>3, InWindow, TokenIds, ResultIsTemporal DEF itok
  <2>4. to \in ParamIds \/ \E q \in Window(func) : q < e /\ toks[q].type # "NONE" /\ toks[q].res = to
    BY <2>2, <2>3, <1>t DEF NoDanglingOperand, Live
  <2>5. EmitInv' /\ WindowsOrdered'
    <3>1. to \in ParamIds \/ \E q \in Window(func) : q <= e /\ toks[q].res = to
      <4>1. \A q \in Window(func) : q \in Nat
        BY <2>2, <1>t, InWindow
      <4>2. QED
        BY <2>2, <2>4, <4>1
    <3>2. phase' \in Phases
      BY <2>1, <1>1 DEF Phases
    <3> HIDE DEF from, to
    <3>3. QED
      BY <3>1, <3>2, <2>1, <2>3, <1>1, <1>t, RewriteKeepsEmit
  <2>6. NoDanglingOperand'
    <3>1. to \in ParamIds \/ \E q \in Live(fn) : q < e /\ toks[q].res = to
      BY <2>2, <2>4 DEF Live
    <3>2. QED
      BY <3>1, <2>1, <2>3, <1>1, <1>t, RewriteKeepsLive
  <2>7. IdentityPassTranslates'
    <3>1. \A f \in 1 .. Len(funcs) : f >= fn =>
            \A p \in Window(funcs[f]) : toks'[p].type # "NONE" => Faithful(toks'[p], src[f])
      BY <2>1, <2>3, <1>1, <1>t, IdentityKeepsMeaning
    <3>2. QED
      BY <3>1, <1>1, <1>t DEF IdentityPassTranslates, Live, Translates, Faithful
  <2>8. NoIdentityBehind'
    BY <2>1, <2>3, <1>1, <1>t, RewriteKeepsNoIdentity
  <2>9. NoneSameBehind'
    <3>1. \A f \in 1 .. fn - 1 : \A p \in Window(funcs[f]) : toks'[p] = toks[p]
      BY <2>1, <2>3, <1>1, <1>t, RewriteKeepsOthers
    <3>2. QED
      BY <3>1, <1>1, <1>t DEF NoneSameBehind, Distinct
  <2>10. PassPlace'
    BY <2>1, <1>1, <1>t DEF PassPlace
  <2>11. OptimiseTypeOK'
    <3>1. func' = func /\ oi' \in 0 .. LenMod /\ oi' <= func.len
      BY <2>1, <1>1, <1>t, OptTypes, ConstantTypes DEF func
    <3>2. QED
      BY <3>1, <2>5, <1>1 DEF OptInv, OptimiseTypeOK, EmitInv
  <2>12. QED
    BY <2>5, <2>6, <2>7, <2>8, <2>9, <2>10, <2>11 DEF OptInv
<1>4. QED
  BY <1>2, <1>3

(* Merging two operations, with the renaming, keeps it.                    *)
LEMMA MergeReusedStep ==
  ASSUME OptInv, MergeReused
  PROVE  OptInv'
<1> DEFINE e == At(oj)
           d == At(oi)
           from == toks[e].res
           to == toks[d].res
<1>1. /\ phase = "optimise" /\ fn <= Len(funcs) /\ pass = "reused" /\ oi < func.len
      /\ oj < func.len /\ SameToken(toks[d], toks[e]) /\ Rewrite(oj, from, to)
      /\ Rewrite(oj, jtok.res, itok.res) /\ oj' = oj + 1
      /\ UNCHANGED <<phase, funcs, nextId, nodes, stack, src, fn, pass, oi>>
  BY DEF MergeReused, Working, Rewrite, itok, jtok
<1>t. /\ fn \in 1 .. Len(funcs) /\ oi \in Nat /\ oj \in Nat /\ func.len \in Nat /\ func.pos \in Nat
      /\ EmitInv /\ WindowsOrdered /\ NoDanglingOperand /\ IdentityPassTranslates
      /\ NoIdentityBehind /\ NoneSameBehind /\ stack = << >> /\ oi < oj
  BY <1>1, OptTypes DEF OptInv, PassPlace
<1>2. /\ e \in Window(funcs[fn]) /\ d \in Window(funcs[fn]) /\ func = funcs[fn]
      /\ e \in Nat /\ d \in Nat /\ d < e
  <2>1. e \in Window(func) /\ d \in Window(func)
    BY <1>1, <1>t, WindowPlace
  <2>2. d \in Nat /\ e \in Nat /\ d < e
    BY <1>t DEF At
  <2>3. QED
    BY <2>1, <2>2 DEF func
<1>3. from \in Ids /\ to \in Ids
  BY <1>2, <1>t, ResultIsTemporal
<1>4. EmitInv' /\ WindowsOrdered'
  <2>1. \E q \in Window(func) : q <= e /\ toks[q].res = to
    BY <1>2
  <2>2. phase' \in Phases
    BY <1>1 DEF Phases
  <2> HIDE DEF from, to
  <2>3. QED
    BY <2>1, <2>2, <1>1, <1>3, <1>t, RewriteKeepsEmit
<1>5. NoDanglingOperand'
  <2>1. toks[e].type # "NONE" => \E q \in Live(fn) : q < e /\ toks[q].res = to
    BY <1>1, <1>2 DEF SameToken, Live
  <2>2. QED
    BY <2>1, <1>1, <1>3, <1>t, RewriteKeepsLive
<1>6. \A f \in 1 .. Len(funcs) : f # fn => \A p \in Window(funcs[f]) : toks'[p] = toks[p]
  BY <1>1, <1>3, <1>t, RewriteKeepsOthers
<1>7. IdentityPassTranslates'
  <2> SUFFICES ASSUME NEW f \in 1 .. Len(funcs), f > fn, NEW p \in Window(funcs[f]),
                      toks'[p].type # "NONE"
               PROVE  Translates(f, p)'
    BY <1>1, <1>t DEF IdentityPassTranslates, Live
  <2>1. toks'[p] = toks[p]
    BY <1>6
  <2>2. Translates(f, p)
    BY <2>1, <1>t DEF IdentityPassTranslates, Live
  <2>3. QED
    BY <2>1, <2>2, <1>1 DEF Translates
<1>8. NoIdentityBehind'
  BY <1>1, <1>3, <1>t, RewriteKeepsNoIdentity
<1>9. NoneSameBehind'
  BY <1>1, <1>t, MergeKeepsDistinct
<1>10. PassPlace'
  BY <1>1, <1>t DEF PassPlace, func
<1>11. OptimiseTypeOK'
  <2>1. func' = func /\ oj' \in 1 .. LenMod + 1
    BY <1>1, <1>t, OptTypes, ConstantTypes DEF func
  <2>2. QED
    BY <2>1, <1>4, <1>1 DEF OptInv, OptimiseTypeOK, EmitInv
<1>12. QED
  BY <1>4, <1>5, <1>7, <1>8, <1>9, <1>10, <1>11 DEF OptInv

(* A step that only moves the passes on keeps the rest of the invariant if *)
(* it keeps the parts that say what lies behind them.                      *)
LEMMA MoveOn ==
  ASSUME OptInv, phase = "optimise", UNCHANGED emitVars,
         fn' \in 1 .. Len(funcs) + 1, pass' \in {"identity", "reused"},
         oi' \in 0 .. LenMod, oj' \in 1 .. LenMod + 1,
         fn' <= Len(funcs) => oi' <= func'.len,
         pass' = "reused" => fn' <= Len(funcs) /\ oi' < oj' /\ oj' <= func'.len + 1,
         fn' > fn \/ (fn' = fn /\ (pass' = "identity" => pass = "identity")),
         NoIdentityBehind', NoneSameBehind'
  PROVE  OptInv'
<1>1. /\ phase' = phase /\ toks' = toks /\ funcs' = funcs /\ src' = src
  BY DEF emitVars
<1>2. /\ EmitInv' /\ WindowsOrdered' /\ NoDanglingOperand' /\ stack' = << >>
      /\ EmitTypeOK' /\ phase' = "optimise"
  BY SameProgram
<1>3. OptimiseTypeOK' /\ PassPlace'
  BY <1>1, <1>2 DEF OptimiseTypeOK, PassPlace
<1>4. IdentityPassTranslates'
  <2>1. fn \in Nat /\ Len(funcs) \in Nat
    BY OptTypes
  <2>2. QED
    BY <2>1, <1>1 DEF OptInv, IdentityPassTranslates, Live, Translates
<1>5. QED
  BY <1>2, <1>3, <1>4 DEF OptInv

(* Going on to the next token, and leaving the identity pass, keep it.     *)
LEMMA IdentityPassMoves ==
  ASSUME OptInv, KeepToken \/ IdentityDone
  PROVE  OptInv'
<1>1. /\ phase = "optimise" /\ fn <= Len(funcs) /\ pass = "identity"
      /\ UNCHANGED <<toks, funcs>> /\ UNCHANGED emitVars /\ fn' = fn /\ func' = func
  BY DEF KeepToken, IdentityDone, Working, func, emitVars
<1>t. /\ fn \in 1 .. Len(funcs) /\ oi \in Nat /\ oj \in 1 .. LenMod + 1 /\ func.len \in 0 .. LenMod - 1
      /\ func.pos \in Nat /\ NoIdentityBehind /\ NoneSameBehind /\ oi <= func.len /\ func.len \in Nat
      /\ EmitInv /\ LenMod \in Nat
  BY <1>1, OptTypes, ConstantTypes DEF OptInv, OptimiseTypeOK
<1>2. \A p \in Window(func) : p \in Nat /\ func.pos + 1 <= p /\ p <= func.pos + func.len
  BY <1>t DEF Window
<1>3. CASE KeepToken
  <2>1. oi < func.len /\ toks[At(oi)].type # "IDENTITY" /\ oi' = oi + 1 /\ pass' = pass /\ oj' = oj
    BY <1>3 DEF KeepToken, itok
  <2>2. NoIdentityBehind'
    <3>1. ASSUME NEW p \in Window(func), p < At(oi)' PROVE toks[p].type # "IDENTITY"
      <4>1. p < At(oi) \/ p = At(oi)
        BY <3>1, <2>1, <1>1, <1>2, <1>t, SMTT(30) DEF At
      <4>2. QED
        BY <4>1, <2>1, <1>1, <1>t DEF NoIdentityBehind
    <3>2. NoIdentityLeft'
      BY <2>1, <1>1, <1>t DEF NoIdentityBehind, NoIdentityLeft
    <3>3. QED
      BY <3>1, <3>2, <1>1 DEF NoIdentityBehind
  <2>3. NoneSameBehind'
    BY <2>1, <1>1, <1>t DEF NoneSameBehind, Distinct
  <2>4. oi' \in 0 .. LenMod /\ oi' <= func.len
    BY <2>1, <1>t
  <2>5. QED
    BY <2>1, <2>2, <2>3, <2>4, <1>1, <1>t, MoveOn
<1>4. CASE IdentityDone
  <2>1. oi >= func.len /\ pass' = "reused" /\ oi' = 0 /\ oj' = 1
    BY <1>4 DEF IdentityDone
  <2>2. NoIdentityBehind'
    <3>1. \A p \in Window(func) : toks[p].type # "IDENTITY"
      <4>1. \A p \in Window(func) : p < At(oi)
        BY <2>1, <1>2, <1>t DEF At
      <4>2. QED
        BY <4>1, <1>1, <1>t DEF NoIdentityBehind
    <3>2. NoIdentityLeft'
      BY <3>1, <1>1, <1>t DEF NoIdentityBehind, NoIdentityLeft, func
    <3>3. QED
      BY <3>1, <3>2, <1>1 DEF NoIdentityBehind
  <2>3. NoneSameBehind'
    <3>1. ASSUME NEW p \in Window(func), NEW q \in Window(func) PROVE ~Compared(p, q)'
      BY <2>1, <1>1, <1>2, <1>t DEF Compared, At
    <3>2. QED
      BY <3>1, <1>1, <1>t DEF NoneSameBehind, Distinct
  <2>4. QED
    BY <2>1, <2>2, <2>3, <1>1, <1>t, MoveOn
<1>5. QED
  BY <1>3, <1>4

(* Going on to the next pair, or to the next first token, and leaving the  *)
(* reused pass, keep it.                                                   *)
LEMMA ReusedPassMoves ==
  ASSUME OptInv, KeepBoth \/ NextCandidate \/ ReusedDone
  PROVE  OptInv'
<1>1. /\ phase = "optimise" /\ fn <= Len(funcs) /\ pass = "reused"
      /\ UNCHANGED <<toks, funcs>> /\ UNCHANGED emitVars
  BY DEF KeepBoth, NextCandidate, ReusedDone, Working, emitVars
<1>t. /\ fn \in 1 .. Len(funcs) /\ oi \in Nat /\ oj \in Nat /\ func.len \in 0 .. LenMod - 1
      /\ func.pos \in Nat /\ NoIdentityBehind /\ NoneSameBehind /\ oi <= func.len /\ func.len \in Nat
      /\ EmitInv /\ LenMod \in Nat /\ oi < oj /\ oj <= func.len + 1 /\ fn \in Nat
      /\ Len(funcs) \in Nat /\ func = funcs[fn]
  BY <1>1, OptTypes, ConstantTypes DEF OptInv, OptimiseTypeOK, PassPlace, func
<1>2. \A p \in Window(func) : p \in Nat /\ func.pos + 1 <= p /\ p <= func.pos + func.len
  BY <1>t DEF Window
<1>3. \A p \in Window(func) : toks[p].type # "IDENTITY"
  BY <1>1, <1>t DEF NoIdentityBehind, NoIdentityLeft
<1>4. CASE KeepBoth \/ NextCandidate
  <2>1. fn' = fn /\ pass' = pass /\ func' = func
    BY <1>1, <1>4 DEF KeepBoth, NextCandidate, func
  <2>2. NoIdentityBehind'
    BY <2>1, <1>1, <1>3, <1>t DEF NoIdentityBehind, NoIdentityLeft
  <2>3. ASSUME NEW p \in Window(func), NEW q \in Window(func), Compared(p, q)'
        PROVE  Distinct(p, q)
    <3>1. CASE KeepBoth
      <4>1. ~SameToken(toks[At(oi)], toks[At(oj)]) /\ oi' = oi /\ oj' = oj + 1
        BY <3>1 DEF KeepBoth, itok, jtok
      <4>2. Compared(p, q) \/ (p = At(oi) /\ q = At(oj))
        BY <4>1, <2>1, <2>3, <1>2, <1>t, SMTT(30) DEF Compared, At
      <4>3. QED
        BY <4>1, <4>2, <1>1, <1>t DEF NoneSameBehind, Distinct
    <3>2. CASE NextCandidate
      <4>1. oj >= func.len /\ oi' = oi + 1 /\ oj' = oi + 2
        BY <3>2 DEF NextCandidate
      <4>2. At(oi)' = At(oi) + 1 /\ At(oj)' = At(oi) + 2 /\ At(oi) \in Nat
        <5>1. func'.pos = func.pos /\ func.pos \in Nat /\ oi \in Nat
          BY <2>1, <1>t
        <5>2. At(oi)' = func.pos + 1 + (oi + 1) /\ At(oj)' = func.pos + 1 + (oi + 2)
          BY <4>1, <5>1 DEF At
        <5>3. QED
          BY <5>1, <5>2 DEF At
      <4>3. p < q /\ (p < At(oi) + 1 \/ (p = At(oi) + 1 /\ q < At(oi) + 2))
        BY <4>2, <2>3 DEF Compared
      <4>4. p < At(oi) \/ p = At(oi)
        BY <4>2, <4>3, <1>2
      <4>5. q < At(oj)
        BY <4>1, <1>2, <1>t, SMTT(30) DEF At
      <4>6. Compared(p, q)
        BY <4>3, <4>4, <4>5 DEF Compared
      <4>7. QED
        BY <4>6, <1>1, <1>t DEF NoneSameBehind
    <3>3. QED
      BY <3>1, <3>2, <1>4
  <2>4. NoneSameBehind'
    BY <2>1, <2>3, <1>1, <1>t DEF NoneSameBehind, Distinct
  <2>5. /\ oi' \in 0 .. LenMod /\ oj' \in 1 .. LenMod + 1
        /\ oi' <= func.len /\ oi' < oj' /\ oj' <= func.len + 1
    BY <1>4, <1>t, SMTT(30) DEF KeepBoth, NextCandidate
  <2>6. QED
    BY <2>1, <2>2, <2>4, <2>5, <1>1, <1>t, MoveOn
<1>5. CASE ReusedDone
  <2>1. oi >= func.len /\ fn' = fn + 1 /\ pass' = "identity" /\ oi' = 0 /\ oj' = 1
    BY <1>5 DEF ReusedDone
  <2>2. ASSUME fn' <= Len(funcs)
        PROVE  func' = funcs[fn + 1] /\ func'.pos \in Nat /\ func'.len \in Nat
    <3>1. fn + 1 \in 1 .. Len(funcs) /\ func' = funcs[fn + 1]
      BY <2>1, <2>2, <1>1, <1>t DEF func
    <3>2. funcs \in Seq(Windows)
      BY <1>t DEF EmitInv, EmitTypeOK
    <3>3. funcs[fn + 1] \in Windows
      BY <3>1, <3>2, ElementOfSeq
    <3>4. QED
      BY <3>1, <3>3, <1>t DEF Windows
  <2>3. NoIdentityBehind'
    <3>1. \A f \in 1 .. Len(funcs) : f < fn' => f < fn \/ f = fn
      BY <2>1, <1>t
    <3>2. NoIdentityLeft'
      BY <3>1, <2>1, <1>1, <1>3, <1>t DEF NoIdentityBehind, NoIdentityLeft
    <3>3. ASSUME fn' <= Len(funcs), NEW p \in Window(func') PROVE ~(p < At(oi)')
      BY <3>3, <2>1, <2>2 DEF Window, At
    <3>4. QED
      BY <3>2, <3>3, <1>1 DEF NoIdentityBehind
  <2>4. NoneSameBehind'
    <3>1. \A p, q \in Window(func) : p < q => Distinct(p, q)
      <4>1. \A p, q \in Window(func) : p < q => Compared(p, q)
        BY <2>1, <1>2, <1>t DEF Compared, At
      <4>2. QED
        BY <4>1, <1>1, <1>t DEF NoneSameBehind
    <3>2. \A f \in 1 .. fn' - 1 : f \in 1 .. fn - 1 \/ f = fn
      BY <2>1, <1>t
    <3>3. QED
      BY <3>1, <3>2, <2>1, <1>1, <1>t DEF NoneSameBehind, Distinct
  <2>5. QED
    BY <2>1, <2>2, <2>3, <2>4, <1>1, <1>t, MoveOn
<1>6. QED
  BY <1>4, <1>5

-----------------------------------------------------------------------------
(* The invariant holds                                                     *)

(* The invariant holds when the compiler begins.                           *)
LEMMA OptInit == OptimiseInit => OptInv
<1> SUFFICES ASSUME OptimiseInit PROVE OptInv
  OBVIOUS
<1>1. EmitInv /\ MeaningInv /\ fn = 1 /\ pass = "identity" /\ oi = 0 /\ oj = 1
  BY EmitInvInit, MeaningInit DEF OptimiseInit
<1>2. /\ phase = "emit" /\ funcs = << >> /\ toks = << >> /\ stack = << >>
      /\ Len(funcs) = 0 /\ Len(toks) = 0
  BY EmptySeq DEF OptimiseInit, EmitInit
<1>3. OptimiseTypeOK
  BY <1>1, <1>2, ConstantTypes DEF OptimiseTypeOK, EmitInv
<1>4. WindowsOrdered /\ NoneGone
  BY <1>2 DEF WindowsOrdered, NoneGone
<1>5. PassPlace
  BY <1>1, <1>2, <1>4 DEF PassPlace
<1>6. NoDanglingOperand /\ IdentityPassTranslates
  BY <1>2 DEF NoDanglingOperand, IdentityPassTranslates
<1>7. NoIdentityBehind /\ NoneSameBehind
  BY <1>1, <1>2 DEF NoIdentityBehind, NoIdentityLeft, NoneSameBehind
<1>8. QED
  BY <1>1, <1>3, <1>4, <1>5, <1>6, <1>7 DEF OptInv

(* One step per action of the passes, and the emitter's steps before them. *)
LEMMA OptInvNext ==
  ASSUME NodesFit, OptInv, OptimiseNext
  PROVE  OptInv'
<1>1. CASE EliminateIdentity
  BY <1>1, EliminateIdentityStep
<1>2. CASE KeepToken \/ IdentityDone
  BY <1>2, IdentityPassMoves
<1>3. CASE MergeReused
  BY <1>3, MergeReusedStep
<1>4. CASE KeepBoth \/ NextCandidate \/ ReusedDone
  BY <1>4, ReusedPassMoves
<1>5. CASE OptimiseDone
  BY <1>5, OptPhaseStep DEF OptimiseDone, Phases
<1>6. CASE EmitNext /\ UNCHANGED passVars
  BY <1>6, OptEmitStep
<1>7. QED
  BY <1>1, <1>2, <1>3, <1>4, <1>5, <1>6 DEF OptimiseNext, OptimiseStep

(* The invariant speaks of the state only.                                 *)
LEMMA OptInvStutter ==
  ASSUME OptInv, UNCHANGED optVars
  PROVE  OptInv'
<1>1. /\ phase' = phase /\ toks' = toks /\ funcs' = funcs /\ nextId' = nextId
      /\ nodes' = nodes /\ stack' = stack /\ heard' = heard /\ src' = src
      /\ fn' = fn /\ pass' = pass /\ oi' = oi /\ oj' = oj
  BY DEF optVars, emitVars, passVars
<1>2. EmitInv' /\ EmitTypeOK' /\ (MeaningInv => MeaningInv')
  BY <1>1, EmitInvStutter, MeaningStutter DEF OptInv, emitVars, EmitInv
<1>3. func' = func /\ At(oi)' = At(oi) /\ At(oj)' = At(oj)
  BY <1>1 DEF func, At
<1>4. OptimiseTypeOK' /\ WindowsOrdered' /\ PassPlace'
  BY <1>1, <1>2, <1>3 DEF OptInv, OptimiseTypeOK, WindowsOrdered, PassPlace, NoneGone
<1>5. NoDanglingOperand' /\ IdentityPassTranslates'
  BY <1>1 DEF OptInv, NoDanglingOperand, IdentityPassTranslates, Live, Translates
<1>6. NoIdentityBehind' /\ NoneSameBehind'
  BY <1>1, <1>3 DEF OptInv, NoIdentityBehind, NoIdentityLeft, NoneSameBehind, Compared,
                    Distinct
<1>7. QED
  BY <1>2, <1>4, <1>5, <1>6 DEF OptInv

(* The optimiser's invariant holds always, if no counter wraps.            *)
LEMMA OptInvariant ==
  ASSUME NodesFit
  PROVE  OptimiseSpec => []OptInv
<1>1. OptInv /\ [OptimiseNext]_optVars => OptInv'
  BY OptInvNext, OptInvStutter
<1>2. QED
  BY <1>1, OptInit, PTL DEF OptimiseSpec

-----------------------------------------------------------------------------
(* What the invariant says to a reader *)

(* Whatever the program, the indexes of both passes stay within the window *)
(* of the function they are on, and every variable keeps its C type.       *)
THEOREM OptimiseTypeCorrect ==
  ASSUME NodesFit
  PROVE  OptimiseSpec => []OptimiseTypeOK
<1>1. OptInv => OptimiseTypeOK
  BY DEF OptInv
<1>2. QED
  BY <1>1, OptInvariant, PTL

(* Whatever the program, at no step of either pass does a token that is    *)
(* left refer to a result that was eliminated with its token.              *)
THEOREM OptimiseLeavesNothingDangling ==
  ASSUME NodesFit
  PROVE  OptimiseSpec => []NoDanglingOperand
<1>1. OptInv => NoDanglingOperand
  BY DEF OptInv
<1>2. QED
  BY <1>1, OptInvariant, PTL

(* cc_ssa_optimise_identity is sound for every program: until the reused   *)
(* pass reaches a function, every token that is left in it denotes the     *)
(* value of its syntax node.                                               *)
THEOREM IdentityPassIsSound ==
  ASSUME NodesFit
  PROVE  OptimiseSpec => []IdentityPassTranslates
<1>1. OptInv => IdentityPassTranslates
  BY DEF OptInv
<1>2. QED
  BY <1>1, OptInvariant, PTL

(* One walk of the identity pass removes every IDENTITY of a function, and *)
(* the reused pass brings none back.                                       *)
THEOREM IdentityPassIsComplete ==
  ASSUME NodesFit
  PROVE  OptimiseSpec => []NoIdentityLeft
<1>1. OptInv => NoIdentityLeft
  BY DEF OptInv, NoIdentityBehind
<1>2. QED
  BY <1>1, OptInvariant, PTL

(* One walk of the reused pass is enough, however long the function: when  *)
(* it is through no two tokens compute the same operator of the same       *)
(* operands.                                                               *)
THEOREM ReusedPassIsComplete ==
  ASSUME NodesFit
  PROVE  OptimiseSpec => []NoDuplicateLeft
<1>1. OptInv => NoDuplicateLeft
  <2> SUFFICES ASSUME OptInv, NEW f \in 1 .. fn - 1, NEW p \in Live(f), NEW q \in Live(f),
                      toks[p].type = toks[q].type, toks[p].args = toks[q].args
               PROVE  p = q
    BY DEF NoDuplicateLeft
  <2>1. f \in 1 .. Len(funcs) /\ EmitInv /\ NoneSameBehind
    <3>1. Len(funcs) \in Nat /\ fn \in 1 .. Len(funcs) + 1
      BY OptTypes DEF OptInv, OptimiseTypeOK
    <3>2. QED
      BY <3>1 DEF OptInv
  <2>2. /\ p \in Window(funcs[f]) /\ q \in Window(funcs[f])
        /\ toks[p].type # "NONE" /\ toks[q].type # "NONE"
    BY DEF Live
  <2>3. p \in Nat /\ q \in Nat
    BY <2>1, <2>2, InWindow
  <2>4. SameToken(toks[p], toks[q]) /\ SameToken(toks[q], toks[p])
    BY DEF SameToken
  <2>5. ~(p < q) /\ ~(q < p)
    BY <2>1, <2>2, <2>4 DEF NoneSameBehind, Distinct
  <2>6. QED
    BY <2>3, <2>5
<1>2. QED
  BY <1>1, OptInvariant, PTL

(* For every program a step of a pass stays in the window of its function, *)
(* moves no token, changes no result and revives nothing.                  *)
THEOREM PassesStayInWindow ==
  ASSUME NodesFit
  PROVE  OptimiseSpec => PassStaysInWindow
<1> DEFINE Stays ==
      phase = "optimise" =>
        /\ Len(toks') = Len(toks)
        /\ \A p \in 1 .. Len(toks) :
             toks'[p] # toks[p] =>
               /\ p \in Window(func)
               /\ toks'[p].res = toks[p].res
               /\ toks'[p].type \in {toks[p].type, "NONE"}
<1>1. ASSUME OptInv, OptimiseNext PROVE Stays
  <2> SUFFICES ASSUME phase = "optimise", toks' # toks PROVE Stays
    OBVIOUS
  <2>1. ~EmitNext
    BY DEF EmitNext
  <2>2. EliminateIdentity \/ MergeReused
    BY <1>1, <2>1 DEF OptimiseNext, OptimiseStep, KeepToken, IdentityDone, KeepBoth,
                      NextCandidate, ReusedDone, OptimiseDone, emitVars
  <2>3. fn <= Len(funcs)
    BY <2>2 DEF EliminateIdentity, MergeReused, Working
  <2>4. /\ fn \in 1 .. Len(funcs) /\ oi \in Nat /\ oj \in Nat /\ EmitInv
        /\ func.len \in Nat /\ func.pos \in Nat
    BY <1>1, <2>3, OptTypes DEF OptInv
  <2>5. \A k \in Nat : k < func.len => toks[At(k)] \in Tokens
    BY <2>4, WindowPlace
  <2>6. \E k \in Nat : \E from, to \in Ids : k < func.len /\ Rewrite(k, from, to)
    <3>1. CASE EliminateIdentity
      <4>1. oi < func.len /\ Rewrite(oi, itok.res, itok.args[0])
        BY <3>1 DEF EliminateIdentity, Rewrite
      <4>2. itok \in Tokens
        BY <4>1, <2>4, <2>5 DEF itok
      <4>3. itok.res \in Ids /\ itok.args[0] \in Ids
        BY <4>2, TokenIds
      <4>4. QED
        BY <4>1, <4>3, <2>4
    <3>2. CASE MergeReused
      <4>1. oi < func.len /\ oj < func.len /\ Rewrite(oj, jtok.res, itok.res)
        BY <3>2 DEF MergeReused, Rewrite
      <4>2. itok \in Tokens /\ jtok \in Tokens
        BY <4>1, <2>4, <2>5 DEF itok, jtok
      <4>3. itok.res \in Ids /\ jtok.res \in Ids
        BY <4>2, TokenIds
      <4>4. QED
        BY <4>1, <4>3, <2>4
    <3>3. QED
      BY <2>2, <3>1, <3>2
  <2>7. QED
    BY <2>4, <2>6, RewriteShape
<1>2. OptInv /\ [OptimiseNext]_optVars => [Stays]_optVars
  BY <1>1
<1>3. QED
  BY <1>2, OptInvariant, PTL DEF OptimiseSpec, PassStaysInWindow

-----------------------------------------------------------------------------
(* Registers *)

(* The registers of the table are in the order of the enumeration, with RA *)
(* after the A registers and the virtual ones behind them all; parameters' *)
(* ids come before all that are drawn.                                     *)
LEMMA RegisterOrder ==
  /\ NF \in Nat /\ NT \in Nat /\ NA \in Nat /\ SPILL \in Nat /\ SPILL > 0
  /\ T0 \in Nat /\ T7 \in Nat /\ A0 \in Nat /\ A3 \in Int /\ RA \in Nat
  /\ T0 <= T7 /\ T7 < A0 /\ A3 = A0 + NA - 1 /\ RA = A0 + NA /\ RA < SPILL /\ A3 < RA
  /\ NA + 2 <= FirstTemporal
  BY RegistersAssumption, PassedAssumption DEF T0, T7, A0, A3, RA, SPILL, ID_PARAM

(* A set of registers has a first one.                                     *)
LEMMA FirstIsIn ==
  ASSUME NEW S, S \subseteq Nat, S # {}
  PROVE  First(S) \in S
<1>1. PICK x \in S : \A y \in S : ~(<<y, x>> \in OpToRel(<, Nat))
  BY NatLessThanWellFounded, WFMin, Zenon
<1>2. \A y \in S : ~(y < x)
  BY <1>1 DEF OpToRel
<1>3. \A y \in S : x <= y
  BY <1>2
<1>4. QED
  BY <1>3 DEF First

(* The disjunction of cc_asm_is_fixed_reg holds of every register, so that *)
(* cc_asm_regfree frees none.                                              *)
LEMMA NeverFreed ==
  ASSUME NEW rs, NEW r \in Int
  PROVE  RegFree(rs, r) = rs
<1>1. r >= A0 \/ r <= A3
  BY RegisterOrder
<1>2. QED
  BY <1>1 DEF RegFree, IsFixedReg

(* What cc_asm_find_free returns: a register that holds nothing, of the    *)
(* table or one past its end, and a virtual one only when no T is free.    *)
LEMMA FindFreeFacts ==
  ASSUME nReg \in Nat, nReg >= SPILL, regInfo \in [0 .. nReg - 1 -> Ids]
  PROVE  /\ FindFree \in Nat /\ Grown \in Nat /\ nReg <= Grown /\ FindFree < Grown
         /\ FindFree < nReg => regInfo[FindFree] = ID_NULL
         /\ Grown = nReg \/ (FindFree = nReg /\ Grown = nReg + 1)
         /\ (T0 <= FindFree /\ FindFree < T7) \/ FindFree >= SPILL
         /\ Free(regInfo, T0 .. T7 - 1) = {} => FindFree >= SPILL
         /\ Grown > nReg => Free(regInfo, T0 .. T7 - 1) = {}
<1> DEFINE integer == Free(regInfo, T0 .. T7 - 1)
           spill == Free(regInfo, SPILL .. nReg - 1)
<1>1. /\ integer \subseteq Nat /\ spill \subseteq Nat
      /\ \A r \in integer : T0 <= r /\ r < T7 /\ r < nReg /\ regInfo[r] = ID_NULL
      /\ \A r \in spill : SPILL <= r /\ r < nReg /\ regInfo[r] = ID_NULL
  BY RegisterOrder DEF Free
<1>2. FindFree = IF integer # {} THEN First(integer) ELSE IF spill # {} THEN First(spill) ELSE nReg
  BY DEF FindFree
<1>3. integer # {} => First(integer) \in integer
  BY <1>1, FirstIsIn
<1>4. spill # {} => First(spill) \in spill
  BY <1>1, FirstIsIn
<1> HIDE DEF integer, spill
<1>5. CASE integer # {}
  <2>1. FindFree \in Nat /\ T0 <= FindFree /\ FindFree < T7 /\ FindFree < nReg
        /\ regInfo[FindFree] = ID_NULL
    BY <1>1, <1>2, <1>3, <1>5
  <2>2. Grown = nReg
    BY <2>1 DEF Grown
  <2>3. QED
    BY <2>1, <2>2, <1>5 DEF integer
<1>6. CASE integer = {} /\ spill # {}
  <2>1. FindFree \in Nat /\ SPILL <= FindFree /\ FindFree < nReg /\ regInfo[FindFree] = ID_NULL
    BY <1>1, <1>2, <1>4, <1>6
  <2>2. Grown = nReg
    BY <2>1 DEF Grown
  <2>3. QED
    BY <2>1, <2>2, <1>6 DEF integer
<1>7. CASE integer = {} /\ spill = {}
  <2>1. FindFree = nReg /\ Grown = nReg + 1
    BY <1>2, <1>7 DEF Grown
  <2>2. QED
    BY <2>1, <1>7 DEF integer
<1>8. QED
  BY <1>5, <1>6, <1>7

(* The table after cc_asm_regalloc: one register more holds an id.         *)
LEMMA RegAllocFacts ==
  ASSUME nReg \in Nat, nReg >= SPILL, regInfo \in [0 .. nReg - 1 -> Ids], NEW id \in Ids
  PROVE  /\ RegAlloc(id) \in [0 .. Grown - 1 -> Ids]
         /\ RegAlloc(id)[FindFree] = id /\ FindFree \in 0 .. Grown - 1
         /\ \A r \in 0 .. Grown - 1 : r = FindFree \/ r \in 0 .. nReg - 1
         /\ \A r \in 0 .. nReg - 1 : r \in 0 .. Grown - 1
                                     /\ (r # FindFree => RegAlloc(id)[r] = regInfo[r])
<1>1. /\ FindFree \in Nat /\ Grown \in Nat /\ nReg <= Grown /\ FindFree < Grown
      /\ Grown = nReg \/ (FindFree = nReg /\ Grown = nReg + 1)
  BY FindFreeFacts
<1>2. \A r \in 0 .. Grown - 1 : r = FindFree \/ r \in 0 .. nReg - 1
  BY <1>1
<1>3. RegAlloc(id) = [r \in 0 .. Grown - 1 |-> IF r = FindFree THEN id ELSE regInfo[r]]
  BY DEF RegAlloc
<1>4. FindFree \in 0 .. Grown - 1 /\ \A r \in 0 .. nReg - 1 : r \in 0 .. Grown - 1
  BY <1>1
<1>5. \A r \in 0 .. Grown - 1 : (IF r = FindFree THEN id ELSE regInfo[r]) \in Ids
  BY <1>2
<1>6. QED
  BY <1>2, <1>3, <1>4, <1>5

-----------------------------------------------------------------------------
(* The allocator's invariant *)

NextTok == lfunc.pos + 1 + li
Passed == {ID_PARAM(n) : n \in 0 .. NA - 1}
Defined(id) == lf > 0 /\ \E q \in Window(lfunc) : q < NextTok /\ toks[q].res = id

(* A register holds a parameter or a result of the tokens lowered so far.  *)
HeldIsDefined ==
  \A r \in DOMAIN regInfo :
    regInfo[r] = ID_NULL \/ regInfo[r] \in Passed \/ Defined(regInfo[r])

ArgumentsHeld == lf > 0 => \A n \in 0 .. NA - 1 : regInfo[A0 + n] = ID_PARAM(n)

ResultsHeld ==
  lf > 0 => \A q \in Window(lfunc) : q < NextTok /\ toks[q].type \in BinOps =>
              \E r \in DOMAIN regInfo : regInfo[r] = toks[q].res

(* Virtual registers come into use when the T registers have run out, and  *)
(* none of these is given back: no operand is virtual while a result is    *)
(* not.                                                                    *)
SpillsLast == nReg > SPILL => Free(regInfo, T0 .. T7 - 1) = {}

(* The machine agrees with the table on every register, those that hold    *)
(* nothing included: the null id stands for the undefined value.           *)
MachineAgrees == \A r \in Registers : mreg[r] = iden[regInfo[r]]

LowerPlace ==
  /\ phase \in {"emit", "optimise"} => lf = 0
  /\ phase \in {"lower", "done"} => fn > Len(funcs)

LowerInv ==
  /\ OptInv /\ LowerTypeOK /\ LowerPlace
  /\ HeldIsDefined /\ ArgumentsHeld /\ ResultsHeld /\ SpillsLast
  /\ regInfo[RA] = ID_NULL
  /\ MachineAgrees /\ OneRegisterPerId

(* The token being lowered.                                                *)
LEMMA TokPlace ==
  ASSUME LowerInv, lf > 0, li < lfunc.len
  PROVE  /\ lf \in 1 .. Len(funcs) /\ lfunc = funcs[lf] /\ li \in Nat /\ lfunc.len \in Nat
         /\ lfunc.pos \in Nat /\ NextTok \in Nat /\ NextTok \in Window(lfunc)
         /\ tok = toks[NextTok] /\ tok \in Tokens /\ tok.res \in Ids /\ tok.res # ID_NULL
         /\ tok.res \notin ParamIds /\ tok.res \notin Passed
         /\ \A q \in Window(lfunc) : q \in Nat /\ (toks[q].res = tok.res => q = NextTok)
<1>1. lf \in 1 .. Len(funcs) /\ lfunc = funcs[lf] /\ EmitInv
  BY LenProperties DEF LowerInv, LowerTypeOK, lfunc, OptInv, EmitInv, EmitTypeOK
<1>2. lfunc.pos \in Nat /\ lfunc.len \in Nat
  <2>1. funcs \in Seq(Windows)
    BY <1>1 DEF EmitInv, EmitTypeOK
  <2>2. lfunc \in Windows
    BY <1>1, <2>1, ElementOfSeq
  <2>3. QED
    BY <2>2, ConstantTypes DEF Windows
<1>3. li \in Nat
  BY <1>1, <1>2 DEF LowerInv, LowerTypeOK
<1>4. NextTok \in Nat /\ NextTok \in Window(lfunc) /\ tok = toks[NextTok]
  BY <1>2, <1>3 DEF NextTok, Window, tok
<1>5. tok \in Tokens /\ tok.res \in Ids /\ tok.res # ID_NULL /\ tok.res \notin ParamIds
  BY <1>1, <1>4, InWindow, ResultIsTemporal
<1>6. tok.res \notin Passed
  <2>1. tok.res >= FirstTemporal
    BY <1>1, <1>4 DEF EmitInv, SingleAssignment
  <2>2. QED
    BY <2>1, RegisterOrder, ConstantTypes DEF Passed, ID_PARAM
<1>7. \A q \in Window(lfunc) : q \in Nat /\ (toks[q].res = tok.res => q = NextTok)
  BY <1>1, <1>4, InWindow, OneResult
<1>8. QED
  BY <1>1, <1>2, <1>3, <1>4, <1>5, <1>6, <1>7

(* Its result is in no register yet and is none of its operands.           *)
LEMMA ResultIsNew ==
  ASSUME LowerInv, lf > 0, li < lfunc.len
  PROVE  /\ \A r \in DOMAIN regInfo : regInfo[r] # tok.res
         /\ \A s \in Slots : tok.args[s] # tok.res
<1>1. ASSUME NEW r \in DOMAIN regInfo PROVE regInfo[r] # tok.res
  <2>1. CASE Defined(regInfo[r])
    BY <2>1, TokPlace DEF Defined
  <2>2. CASE regInfo[r] = ID_NULL \/ regInfo[r] \in Passed
    BY <2>2, TokPlace
  <2>3. QED
    BY <2>1, <2>2 DEF LowerInv, HeldIsDefined
<1>2. ASSUME NEW s \in Slots PROVE tok.args[s] # tok.res
  <2>1. \/ tok.args[s] = ID_NULL \/ tok.args[s] \in ParamIds
        \/ \E q \in Window(lfunc) : q < NextTok /\ toks[q].res = tok.args[s]
    BY TokPlace DEF LowerInv, OptInv, EmitInv, DefinedBeforeUse
  <2>2. QED
    BY <2>1, TokPlace
<1>3. QED
  BY <1>1, <1>2

-----------------------------------------------------------------------------
(* The steps of the allocator                                              *)

(* A step that lowers the next token of the window and gives its result a  *)
(* register, or keeps the table: the parts of the invariant that look at   *)
(* the table.                                                              *)
LEMMA TableAfterAlloc ==
  ASSUME LowerInv, lf > 0, li < lfunc.len, UNCHANGED <<toks, funcs, lf>>, li' = li + 1,
         regInfo' = RegAlloc(tok.res), nReg' = Grown
  PROVE  /\ nReg' \in Nat /\ nReg' >= SPILL /\ regInfo' \in [0 .. nReg' - 1 -> Ids]
         /\ HeldIsDefined' /\ ArgumentsHeld' /\ ResultsHeld' /\ SpillsLast'
         /\ regInfo'[RA] = ID_NULL /\ OneRegisterPerId'
<1> DEFINE id == tok.res
           rd == FindFree
<1>t. /\ nReg \in Nat /\ nReg >= SPILL /\ regInfo \in [0 .. nReg - 1 -> Ids]
      /\ DOMAIN regInfo = 0 .. nReg - 1 /\ id \in Ids /\ id # ID_NULL
  BY TokPlace DEF LowerInv, LowerTypeOK
<1>1. /\ rd \in Nat /\ Grown \in Nat /\ nReg <= Grown /\ rd < Grown
      /\ (T0 <= rd /\ rd < T7) \/ rd >= SPILL
      /\ Free(regInfo, T0 .. T7 - 1) = {} => rd >= SPILL
      /\ Grown > nReg => Free(regInfo, T0 .. T7 - 1) = {}
  BY <1>t, FindFreeFacts
<1>2. /\ regInfo' \in [0 .. Grown - 1 -> Ids] /\ DOMAIN regInfo' = 0 .. Grown - 1
      /\ regInfo'[rd] = id /\ rd \in 0 .. Grown - 1
      /\ \A r \in 0 .. Grown - 1 : r = rd \/ r \in 0 .. nReg - 1
      /\ \A r \in 0 .. nReg - 1 : r \in 0 .. Grown - 1 /\ (r # rd => regInfo'[r] = regInfo[r])
  <2>1. regInfo' = RegAlloc(id)
    OBVIOUS
  <2> HIDE DEF id
  <2>2. /\ RegAlloc(id) \in [0 .. Grown - 1 -> Ids]
        /\ RegAlloc(id)[rd] = id /\ rd \in 0 .. Grown - 1
        /\ \A r \in 0 .. Grown - 1 : r = rd \/ r \in 0 .. nReg - 1
        /\ \A r \in 0 .. nReg - 1 : r \in 0 .. Grown - 1
                                    /\ (r # rd => RegAlloc(id)[r] = regInfo[r])
    BY <1>t, RegAllocFacts
  <2>3. QED
    BY <2>1, <2>2
<1>3. \A r \in 0 .. nReg - 1 : regInfo[r] # id
  BY <1>t, ResultIsNew
<1>4. lfunc' = lfunc /\ NextTok' = NextTok + 1 /\ NextTok \in Nat /\ NextTok \in Window(lfunc)
      /\ \A q \in Window(lfunc) : q \in Nat
  <2>1. lfunc' = lfunc /\ lfunc.pos \in Nat /\ li \in Nat
    BY TokPlace DEF lfunc
  <2>2. NextTok' = NextTok + 1
    BY <2>1 DEF NextTok
  <2>3. QED
    BY <2>1, <2>2, TokPlace
<1>5. id = toks[NextTok].res
  BY TokPlace
<1> HIDE DEF id, rd
<1>6. lf' = lf /\ Window(lfunc)' = Window(lfunc) /\ lf' > 0
  BY <1>4
<1>7. ASSUME NEW x, x = id \/ Defined(x)
      PROVE  \E q \in Window(lfunc) : q < NextTok + 1 /\ toks[q].res = x
  BY <1>4, <1>5, <1>7 DEF Defined
<1>8. HeldIsDefined'
  <2> SUFFICES ASSUME NEW r \in 0 .. Grown - 1
               PROVE  \/ regInfo'[r] = ID_NULL \/ regInfo'[r] \in Passed
                      \/ \E q \in Window(lfunc) : q < NextTok + 1 /\ toks[q].res = regInfo'[r]
    BY <1>2, <1>4, <1>6 DEF HeldIsDefined, Defined
  <2>1. CASE r = rd
    <3>1. regInfo'[r] = id
      BY <2>1, <1>2
    <3>2. QED
      BY <3>1, <1>7
  <2>2. CASE r # rd
    <3>1. regInfo'[r] = regInfo[r] /\ r \in DOMAIN regInfo
      BY <2>2, <1>2, <1>t
    <3>2. regInfo[r] = ID_NULL \/ regInfo[r] \in Passed \/ Defined(regInfo[r])
      BY <3>1 DEF LowerInv, HeldIsDefined
    <3>3. QED
      BY <3>1, <3>2, <1>7
  <2>3. QED
    BY <2>1, <2>2
<1>9. ArgumentsHeld'
  <2> SUFFICES ASSUME NEW n \in 0 .. NA - 1 PROVE regInfo'[A0 + n] = ID_PARAM(n)
    BY DEF ArgumentsHeld
  <2>1. A0 + n \in 0 .. nReg - 1 /\ A0 + n # rd
    BY <1>1, <1>t, RegisterOrder
  <2>2. QED
    BY <2>1, <1>2 DEF LowerInv, ArgumentsHeld
<1>10. ResultsHeld'
  <2> SUFFICES ASSUME NEW q \in Window(lfunc), q < NextTok + 1, toks[q].type \in BinOps
               PROVE  \E r \in 0 .. Grown - 1 : regInfo'[r] = toks[q].res
    BY <1>2, <1>4 DEF ResultsHeld
  <2>1. CASE q = NextTok
    BY <2>1, <1>2, <1>5
  <2>2. CASE q # NextTok
    <3>1. PICK r \in 0 .. nReg - 1 : regInfo[r] = toks[q].res
      BY <2>2, <1>4, <1>t DEF LowerInv, ResultsHeld
    <3>2. CASE r # rd
      BY <3>1, <3>2, <1>2
    <3>3. CASE r = rd
      <4>1. rd < nReg => regInfo[rd] = ID_NULL
        BY <1>t, FindFreeFacts DEF rd
      <4>2. toks[q].res # ID_NULL
        BY TokPlace, ResultIsTemporal DEF LowerInv, OptInv
      <4>3. QED
        BY <3>1, <3>3, <4>1, <4>2, <1>t
    <3>4. QED
      BY <3>2, <3>3
  <2>3. QED
    BY <2>1, <2>2
<1>11. SpillsLast'
  <2> SUFFICES ASSUME Grown > SPILL, NEW r \in T0 .. T7 - 1, regInfo'[r] = ID_NULL
               PROVE  FALSE
    BY DEF SpillsLast, Free
  <2>1. Free(regInfo, T0 .. T7 - 1) = {}
    BY <1>1, <1>t, RegisterOrder DEF LowerInv, SpillsLast
  <2>2. regInfo[r] # ID_NULL /\ r \in 0 .. nReg - 1 /\ r # rd
    BY <2>1, <1>1, <1>t, RegisterOrder DEF Free
  <2>3. QED
    BY <2>2, <1>2
<1>12. regInfo'[RA] = ID_NULL
  <2>1. RA \in 0 .. nReg - 1 /\ RA # rd
    BY <1>1, <1>t, RegisterOrder
  <2>2. QED
    BY <2>1, <1>2 DEF LowerInv
<1>13. OneRegisterPerId'
  <2> SUFFICES ASSUME NEW r \in 0 .. Grown - 1, NEW q \in 0 .. Grown - 1,
                      regInfo'[r] = regInfo'[q], r # q
               PROVE  regInfo'[r] = ID_NULL
    BY <1>2 DEF OneRegisterPerId
  <2>1. r # rd /\ q # rd
    BY <1>2, <1>3
  <2>2. regInfo[r] = regInfo[q] /\ r \in DOMAIN regInfo /\ q \in DOMAIN regInfo
    BY <2>1, <1>2, <1>t
  <2>3. QED
    BY <2>1, <2>2, <1>2, <1>t DEF LowerInv, OneRegisterPerId
<1>14. QED
  BY <1>1, <1>2, <1>t, <1>8, <1>9, <1>10, <1>11, <1>12, <1>13, RegisterOrder

(* The instruction that is written leaves in the result's register what the*)
(* token defines, and nothing else changes.                                *)
LEMMA MachineAfterBinop ==
  ASSUME LowerInv, lf > 0, li < lfunc.len, tok.type \in BinOps,
         NEW r0, NEW r1, r0 \in Holding(RegAlloc(tok.res), tok.args[0]),
         r1 \in Holding(RegAlloc(tok.res), tok.args[1]),
         regInfo' = RegAlloc(tok.res),
         mreg' = IF {FindFree, r0, r1} \subseteq 0 .. SPILL - 1
                   THEN [mreg EXCEPT ![FindFree] = Apply(tok.type, mreg[r0], mreg[r1])]
                   ELSE IF FindFree < SPILL THEN [mreg EXCEPT ![FindFree] = NoTerm]
                   ELSE mreg,
         iden' = [iden EXCEPT ![tok.res] = Denotes(tok, iden)]
  PROVE  MachineAgrees' /\ DOMAIN mreg' = Registers /\ DOMAIN iden' = Ids
<1> DEFINE id == tok.res
           rd == FindFree
           a0 == tok.args[0]
           a1 == tok.args[1]
<1>t. /\ nReg \in Nat /\ nReg >= SPILL /\ regInfo \in [0 .. nReg - 1 -> Ids] /\ SPILL \in Nat
      /\ DOMAIN regInfo = 0 .. nReg - 1 /\ id \in Ids
      /\ DOMAIN mreg = Registers /\ DOMAIN iden = Ids /\ Registers = 0 .. SPILL - 1
  BY TokPlace, RegisterOrder DEF LowerInv, LowerTypeOK, Registers
<1>1. /\ rd \in Nat /\ Grown \in Nat /\ (Grown = nReg \/ (rd = nReg /\ Grown = nReg + 1))
      /\ Free(regInfo, T0 .. T7 - 1) = {} => rd >= SPILL
      /\ rd < Grown
  BY <1>t, FindFreeFacts
<1>2. /\ DOMAIN regInfo' = 0 .. Grown - 1 /\ regInfo'[rd] = id
      /\ \A r \in 0 .. Grown - 1 : r = rd \/ r \in 0 .. nReg - 1
      /\ \A r \in 0 .. nReg - 1 : r # rd => regInfo'[r] = regInfo[r]
  <2>1. regInfo' = RegAlloc(id)
    OBVIOUS
  <2> HIDE DEF id
  <2>2. /\ RegAlloc(id) \in [0 .. Grown - 1 -> Ids]
        /\ RegAlloc(id)[rd] = id
        /\ \A r \in 0 .. Grown - 1 : r = rd \/ r \in 0 .. nReg - 1
        /\ \A r \in 0 .. nReg - 1 : r # rd => RegAlloc(id)[r] = regInfo[r]
    BY <1>t, RegAllocFacts
  <2>3. QED
    BY <2>1, <2>2
<1>3. /\ \A r \in 0 .. nReg - 1 : regInfo[r] # id
      /\ a0 # id /\ a1 # id /\ a0 \in Ids /\ a1 \in Ids
  BY <1>t, ResultIsNew, TokPlace, TokenIds
<1>4. /\ r0 \in 0 .. Grown - 1 /\ regInfo'[r0] = a0 /\ r1 \in 0 .. Grown - 1 /\ regInfo'[r1] = a1
  BY <1>2 DEF Holding
<1>5. /\ r0 # rd /\ r1 # rd /\ r0 \in 0 .. nReg - 1 /\ r1 \in 0 .. nReg - 1
      /\ regInfo[r0] = a0 /\ regInfo[r1] = a1
  BY <1>2, <1>3, <1>4
<1>6. Denotes(tok, iden) = Apply(tok.type, iden[a0], iden[a1])
  BY DEF Denotes
<1>7. iden'[id] = Denotes(tok, iden) /\ \A x \in Ids : x # id => iden'[x] = iden[x]
  BY <1>t
<1>8. DOMAIN mreg' = Registers /\ DOMAIN iden' = Ids
  BY <1>t
<1> HIDE DEF id, rd, a0, a1
<1>9. ASSUME NEW r \in 0 .. SPILL - 1, r # rd, mreg'[r] = mreg[r]
      PROVE  mreg'[r] = iden'[regInfo'[r]]
  <2>1. r \in 0 .. nReg - 1
    BY <1>t
  <2>2. regInfo'[r] = regInfo[r] /\ regInfo[r] \in Ids /\ regInfo[r] # id
    BY <2>1, <1>2, <1>3, <1>9, <1>t
  <2>3. mreg[r] = iden[regInfo[r]]
    BY <1>t DEF LowerInv, MachineAgrees
  <2>4. QED
    BY <2>2, <2>3, <1>7, <1>9
<1>10. CASE {rd, r0, r1} \subseteq 0 .. SPILL - 1
  <2>1. mreg' = [mreg EXCEPT ![rd] = Apply(tok.type, mreg[r0], mreg[r1])]
    BY <1>10 DEF rd
  <2>2. mreg[r0] = iden[a0] /\ mreg[r1] = iden[a1]
    BY <1>5, <1>10, <1>t DEF LowerInv, MachineAgrees
  <2>3. mreg'[rd] = iden'[regInfo'[rd]]
    BY <2>1, <2>2, <1>2, <1>6, <1>7, <1>10, <1>t
  <2>4. \A r \in 0 .. SPILL - 1 : r # rd => mreg'[r] = mreg[r]
    BY <2>1, <1>t
  <2>5. QED
    BY <2>3, <2>4, <1>8, <1>9, <1>t DEF MachineAgrees, Registers
<1>11. CASE ~({rd, r0, r1} \subseteq 0 .. SPILL - 1)
  <2>1. rd >= SPILL
    <3> SUFFICES ASSUME rd < SPILL PROVE FALSE
      BY <1>1, <1>t
    <3>1. nReg > SPILL
      BY <1>1, <1>5, <1>11, <1>t
    <3>2. QED
      BY <3>1, <1>1, <1>t DEF LowerInv, SpillsLast
  <2>2. mreg' = mreg /\ \A r \in 0 .. SPILL - 1 : r # rd
    BY <2>1, <1>1, <1>11, <1>t DEF rd
  <2>3. QED
    BY <2>2, <1>8, <1>9, <1>t DEF MachineAgrees, Registers
<1>12. QED
  BY <1>8, <1>10, <1>11

(* The tokens that are lowered without an instruction of their own leave   *)
(* the table as it is.                                                     *)
LEMMA TableAfterNothing ==
  ASSUME LowerInv, lf > 0, li < lfunc.len, tok.type \notin BinOps,
         UNCHANGED <<toks, funcs, lf, regInfo, nReg>>, li' = li + 1
  PROVE  /\ HeldIsDefined' /\ ArgumentsHeld' /\ ResultsHeld' /\ SpillsLast'
         /\ regInfo'[RA] = ID_NULL /\ OneRegisterPerId'
<1>1. lfunc' = lfunc /\ NextTok' = NextTok + 1 /\ NextTok \in Nat /\ tok = toks[NextTok]
      /\ \A q \in Window(lfunc) : q \in Nat
  <2>1. lfunc' = lfunc /\ lfunc.pos \in Nat /\ li \in Nat
    BY TokPlace DEF lfunc
  <2>2. NextTok' = NextTok + 1
    BY <2>1 DEF NextTok
  <2>3. QED
    BY <2>1, <2>2, TokPlace
<1>2. HeldIsDefined'
  <2> SUFFICES ASSUME NEW r \in DOMAIN regInfo, Defined(regInfo[r])
               PROVE  \E q \in Window(lfunc) : q < NextTok + 1 /\ toks[q].res = regInfo[r]
    BY <1>1 DEF LowerInv, HeldIsDefined, Defined
  <2>1. PICK q \in Window(lfunc) : q < NextTok /\ toks[q].res = regInfo[r]
    BY DEF Defined
  <2>2. q < NextTok + 1
    BY <2>1, <1>1
  <2>3. QED
    BY <2>1, <2>2
<1>3. ResultsHeld'
  <2>1. \A q \in Window(lfunc) : q < NextTok + 1 /\ toks[q].type \in BinOps => q < NextTok
    BY <1>1
  <2>2. QED
    BY <2>1, <1>1 DEF LowerInv, ResultsHeld
<1>4. ArgumentsHeld' /\ SpillsLast' /\ regInfo'[RA] = ID_NULL /\ OneRegisterPerId'
  BY DEF LowerInv, ArgumentsHeld, SpillsLast, OneRegisterPerId
<1>5. QED
  BY <1>2, <1>3, <1>4

(* A history that learns a result which no register holds.                 *)
LEMMA MachineAfterReturn ==
  ASSUME LowerInv, lf > 0, li < lfunc.len, UNCHANGED <<regInfo, mreg>>,
         NEW term, iden' = [iden EXCEPT ![tok.res] = term]
  PROVE  MachineAgrees' /\ DOMAIN iden' = Ids
<1>1. DOMAIN iden = Ids /\ regInfo \in [0 .. nReg - 1 -> Ids] /\ nReg >= SPILL /\ nReg \in Nat
      /\ DOMAIN regInfo = 0 .. nReg - 1
  BY DEF LowerInv, LowerTypeOK
<1>2. \A r \in DOMAIN regInfo : regInfo[r] # tok.res
  BY ResultIsNew
<1>3. \A x \in Ids : x # tok.res => iden'[x] = iden[x]
  BY <1>1
<1>4. \A r \in Registers : r \in DOMAIN regInfo /\ regInfo[r] \in Ids
  BY <1>1, RegisterOrder DEF Registers
<1>5. QED
  BY <1>1, <1>2, <1>3, <1>4 DEF LowerInv, MachineAgrees

(* A step of the lowering that keeps the token program.                    *)
LEMMA LowerKeepsOpt ==
  ASSUME OptInv, phase = "lower", phase' \in {"lower", "done", "aborted"},
         UNCHANGED <<toks, funcs, nextId, nodes, stack, src, passVars>>
  PROVE  OptInv' /\ OptimiseTypeOK' /\ fn' = fn
<1>1. OptInv'
  BY OptPhaseStep DEF Phases
<1>2. QED
  BY <1>1 DEF OptInv, passVars

(* A function begins: an empty table but for the arguments.                *)
LEMMA LowerFuncStep ==
  ASSUME LowerInv, LowerFunc
  PROVE  LowerInv'
<1>1. /\ phase = "lower" /\ phase' = phase /\ lf < Len(funcs) /\ lf' = lf + 1 /\ li' = 0
      /\ UNCHANGED <<toks, funcs, nextId, nodes, stack, src, passVars>>
      /\ nReg' = SPILL /\ iden' = InitialMeaning
      /\ regInfo' = [r \in 0 .. SPILL - 1 |-> IF r \in A0 .. A3 THEN ID_PARAM(r - A0) ELSE ID_NULL]
      /\ mreg' = [r \in 0 .. SPILL - 1 |-> IF r \in A0 .. A3 THEN ParamTerm(r - A0) ELSE NoTerm]
  BY DEF LowerFunc, optVars, emitVars
<1>2. OptInv' /\ OptimiseTypeOK' /\ fn' = fn
  BY <1>1, LowerKeepsOpt DEF LowerInv
<1>3. Len(funcs) \in Nat /\ lf \in Nat /\ lf' \in 1 .. Len(funcs) /\ lf' > 0
  BY <1>1, LenProperties DEF LowerInv, LowerTypeOK, OptInv, EmitInv, EmitTypeOK
<1>4. lfunc'.pos \in Nat /\ lfunc'.len \in Nat /\ lfunc' = funcs[lf'] /\ NextTok' = lfunc'.pos + 1
  <2>1. funcs \in Seq(Windows) /\ lfunc' = funcs[lf']
    BY <1>1 DEF LowerInv, OptInv, EmitInv, EmitTypeOK, lfunc
  <2>2. lfunc' \in Windows
    BY <2>1, <1>3, ElementOfSeq
  <2>3. lfunc'.pos \in Nat /\ lfunc'.len \in Nat
    BY <2>2, ConstantTypes DEF Windows
  <2>4. NextTok' = lfunc'.pos + 1
    BY <2>3, <1>1 DEF NextTok
  <2>5. QED
    BY <2>1, <2>3, <2>4
<1>5. \A r \in A0 .. A3 : r - A0 \in 0 .. NA - 1 /\ ID_PARAM(r - A0) \in Ids
                          /\ r - A0 + 2 \in 2 .. FirstTemporal - 1 /\ r \in 0 .. SPILL - 1
  BY RegisterOrder, ConstantTypes DEF ID_PARAM, Ids
<1>6. /\ regInfo' \in [0 .. SPILL - 1 -> Ids] /\ DOMAIN regInfo' = 0 .. SPILL - 1
      /\ \A r \in A0 .. A3 : regInfo'[r] = ID_PARAM(r - A0)
      /\ \A r \in 0 .. SPILL - 1 : r \notin A0 .. A3 => regInfo'[r] = ID_NULL
  BY <1>1, <1>5, NullIsId
<1>7. LowerTypeOK'
  BY <1>1, <1>2, <1>3, <1>4, <1>6, RegisterOrder, SMTT(30)
  DEF LowerTypeOK, InitialMeaning, Registers
<1>8. LowerPlace'
  BY <1>1, <1>2 DEF LowerInv, LowerPlace
<1>9. HeldIsDefined'
  BY <1>5, <1>6 DEF HeldIsDefined, Passed
<1>10. ArgumentsHeld'
  <2>1. \A n \in 0 .. NA - 1 : A0 + n \in A0 .. A3 /\ (A0 + n) - A0 = n
    BY RegisterOrder
  <2>2. QED
    BY <2>1, <1>6 DEF ArgumentsHeld
<1>11. ResultsHeld'
  BY <1>4 DEF ResultsHeld, Window
<1>12. SpillsLast'
  BY <1>1, RegisterOrder DEF SpillsLast
<1>13. regInfo'[RA] = ID_NULL
  BY <1>6, RegisterOrder
<1>14. MachineAgrees'
  <2> SUFFICES ASSUME NEW r \in 0 .. SPILL - 1 PROVE mreg'[r] = InitialMeaning[regInfo'[r]]
    BY <1>1 DEF MachineAgrees, Registers
  <2>1. CASE r \in A0 .. A3
    <3>1. mreg'[r] = ParamTerm(r - A0)
      BY <2>1, <1>1
    <3>2. ID_PARAM(r - A0) \in ID_PARAM(0) .. FirstTemporal - 1
          /\ ID_PARAM(r - A0) - 2 = r - A0
      BY <2>1, <1>5, RegisterOrder DEF ID_PARAM
    <3>3. QED
      BY <2>1, <3>1, <3>2, <1>5, <1>6 DEF InitialMeaning
  <2>2. CASE r \notin A0 .. A3
    BY <2>2, <1>1, <1>6, NullIsId DEF InitialMeaning, ID_PARAM
  <2>3. QED
    BY <2>1, <2>2
<1>15. OneRegisterPerId'
  <2> SUFFICES ASSUME NEW r \in 0 .. SPILL - 1, NEW q \in 0 .. SPILL - 1,
                      regInfo'[r] = regInfo'[q], regInfo'[r] # ID_NULL
               PROVE  r = q
    BY <1>6 DEF OneRegisterPerId
  <2>1. r \in A0 .. A3 /\ q \in A0 .. A3
    BY <1>6
  <2>2. r - A0 + 2 = q - A0 + 2
    BY <2>1, <1>6 DEF ID_PARAM
  <2>3. QED
    BY <2>2, RegisterOrder
<1>16. QED
  BY <1>2, <1>7, <1>8, <1>9, <1>10, <1>11, <1>12, <1>13, <1>14, <1>15 DEF LowerInv

(* A token is lowered while its function is not through.                   *)
LEMMA LoweringPlace ==
  ASSUME LowerInv, ~FunctionLowered
  PROVE  lf > 0 /\ lf \in Nat /\ Len(funcs) \in Nat /\ li < lfunc.len
<1>1. lf > 0 /\ lf \in Nat /\ Len(funcs) \in Nat
  BY LenProperties DEF LowerInv, LowerTypeOK, FunctionLowered, OptInv, EmitInv, EmitTypeOK
<1>2. lf \in 1 .. Len(funcs) /\ funcs \in Seq(Windows) /\ lfunc = funcs[lf]
  BY <1>1 DEF LowerInv, LowerTypeOK, OptInv, EmitInv, EmitTypeOK, lfunc
<1>3. lfunc \in Windows
  BY <1>2, ElementOfSeq
<1>4. lfunc.len \in Nat
  BY <1>3, ConstantTypes DEF Windows
<1>5. li \in Nat
  BY <1>1, <1>4 DEF LowerInv, LowerTypeOK
<1>6. QED
  BY <1>1, <1>4, <1>5 DEF FunctionLowered

(* cc_asm_generic_binop either stops the compiler with the table as it was *)
(* or finds both operands, and then frees nothing.                         *)
LEMMA LowerBinopShape ==
  ASSUME LowerInv, LowerBinop
  PROVE  LET held == RegAlloc(tok.res)
             r0 == FindUsed(held, tok.args[0])
             r1 == FindUsed(held, tok.args[1])
             named == {FindFree, r0, r1} \subseteq 0 .. SPILL - 1
         IN \/ /\ phase' = "aborted"
               /\ UNCHANGED <<regInfo, nReg, mreg, iden, li>>
            \/ /\ phase' \in {"lower", "aborted"}
               /\ r0 \in Holding(held, tok.args[0]) /\ r1 \in Holding(held, tok.args[1])
               /\ regInfo' = held /\ nReg' = Grown /\ li' = li + 1
               /\ mreg' = IF named
                            THEN [mreg EXCEPT ![FindFree] = Apply(tok.type, mreg[r0], mreg[r1])]
                            ELSE IF FindFree < SPILL THEN [mreg EXCEPT ![FindFree] = NoTerm]
                            ELSE mreg
               /\ iden' = [iden EXCEPT ![tok.res] = Denotes(tok, iden)]
<1> DEFINE held == RegAlloc(tok.res)
           r0 == FindUsed(held, tok.args[0])
           r1 == FindUsed(held, tok.args[1])
           named == {FindFree, r0, r1} \subseteq 0 .. SPILL - 1
           last0 == IsLastUse(toks, lfunc, li + 1, tok.args[0])
           last1 == IsLastUse(toks, lfunc, li + 1, tok.args[1])
           freed0 == IF last0 THEN RegFree(held, r0) ELSE held
           sound == /\ Holding(held, tok.args[0]) # {} /\ Holding(held, tok.args[1]) # {}
                    /\ li + 1 < lfunc.len
                    /\ last0 => held[r0] # ID_NULL
                    /\ last1 => freed0[r1] # ID_NULL
<1>1. CASE ~sound
  BY <1>1 DEF LowerBinop
<1>2. CASE sound
  <2>1. /\ phase' \in IF named THEN {"lower"} ELSE {"lower", "aborted"}
        /\ regInfo' = IF last1 THEN RegFree(freed0, r1) ELSE freed0
        /\ nReg' = Grown /\ li' = li + 1
        /\ mreg' = IF named
                     THEN [mreg EXCEPT ![FindFree] = Apply(tok.type, mreg[r0], mreg[r1])]
                     ELSE IF FindFree < SPILL THEN [mreg EXCEPT ![FindFree] = NoTerm]
                     ELSE mreg
        /\ iden' = [iden EXCEPT ![tok.res] = Denotes(tok, iden)]
    BY <1>2 DEF LowerBinop
  <2>2. DOMAIN held \subseteq Nat
    <3>1. lf > 0 /\ li < lfunc.len
      BY LoweringPlace DEF LowerBinop, Lowering
    <3>2. tok.res \in Ids /\ nReg \in Nat /\ nReg >= SPILL /\ regInfo \in [0 .. nReg - 1 -> Ids]
      BY <3>1, TokPlace DEF LowerInv, LowerTypeOK
    <3>3. held \in [0 .. Grown - 1 -> Ids]
      BY <3>2, RegAllocFacts
    <3>4. DOMAIN held = 0 .. Grown - 1 /\ Grown \in Nat
      BY <3>2, <3>3, FindFreeFacts
    <3>5. QED
      BY <3>4
  <2>3. r0 \in Holding(held, tok.args[0]) /\ r1 \in Holding(held, tok.args[1])
    <3>1. ASSUME NEW id, Holding(held, id) # {}
          PROVE  First(Holding(held, id)) \in Holding(held, id)
      BY <2>2, <3>1, FirstIsIn DEF Holding
    <3>2. QED
      BY <3>1, <1>2 DEF FindUsed
  <2>4. r0 \in Int /\ r1 \in Int
    BY <2>2, <2>3 DEF Holding
  <2> HIDE DEF held, r0, r1
  <2>5. freed0 = held
    BY <2>4, NeverFreed
  <2>6. regInfo' = held
    BY <2>1, <2>4, <2>5, NeverFreed
  <2> USE DEF held, r0, r1
  <2>7. phase' \in {"lower", "aborted"}
    BY <2>1
  <2> HIDE DEF last0, last1
  <2>8. QED
    BY <2>1, <2>3, <2>6, <2>7
<1>3. QED
  BY <1>1, <1>2

(* Lowering an operation, with its allocations, look-ups and releases,     *)
(* keeps the invariant.                                                    *)
LEMMA LowerBinopStep ==
  ASSUME LowerInv, LowerBinop
  PROVE  LowerInv'
<1> DEFINE held == RegAlloc(tok.res)
           r0 == FindUsed(held, tok.args[0])
           r1 == FindUsed(held, tok.args[1])
<1>1. /\ phase = "lower" /\ tok.type \in BinOps
      /\ UNCHANGED <<toks, funcs, nextId, nodes, stack, src, passVars, lf>>
      /\ ~FunctionLowered /\ phase' \in {"lower", "aborted"}
  BY LowerBinopShape DEF LowerBinop, Lowering
<1>2. lf > 0 /\ lfunc' = lfunc /\ lf \in Nat /\ Len(funcs) \in Nat
  BY <1>1, LoweringPlace DEF lfunc
<1>3. li < lfunc.len
  BY <1>1, LoweringPlace
<1>4. OptInv' /\ OptimiseTypeOK' /\ fn' = fn
  BY <1>1, LowerKeepsOpt DEF LowerInv
<1>5. LowerPlace'
  BY <1>1, <1>4 DEF LowerInv, LowerPlace
<1>6. CASE UNCHANGED <<regInfo, nReg, mreg, iden, li>>
  <2>1. LowerTypeOK'
    BY <1>1, <1>2, <1>4, <1>6 DEF LowerInv, LowerTypeOK
  <2>2. NextTok' = NextTok
    BY <1>2, <1>6 DEF NextTok
  <2>3. HeldIsDefined' /\ ArgumentsHeld' /\ ResultsHeld' /\ SpillsLast' /\ OneRegisterPerId'
    BY <1>1, <1>2, <1>6, <2>2
    DEF LowerInv, HeldIsDefined, Defined, ArgumentsHeld, ResultsHeld, SpillsLast,
        OneRegisterPerId
  <2>4. MachineAgrees' /\ regInfo'[RA] = ID_NULL
    BY <1>6 DEF LowerInv, MachineAgrees
  <2>5. QED
    BY <1>4, <1>5, <2>1, <2>3, <2>4 DEF LowerInv
<1>7. CASE /\ r0 \in Holding(held, tok.args[0]) /\ r1 \in Holding(held, tok.args[1])
           /\ regInfo' = held /\ nReg' = Grown /\ li' = li + 1
           /\ mreg' = IF {FindFree, r0, r1} \subseteq 0 .. SPILL - 1
                        THEN [mreg EXCEPT ![FindFree] = Apply(tok.type, mreg[r0], mreg[r1])]
                        ELSE IF FindFree < SPILL THEN [mreg EXCEPT ![FindFree] = NoTerm]
                        ELSE mreg
           /\ iden' = [iden EXCEPT ![tok.res] = Denotes(tok, iden)]
  <2>1. /\ nReg' \in Nat /\ nReg' >= SPILL /\ regInfo' \in [0 .. nReg' - 1 -> Ids]
        /\ HeldIsDefined' /\ ArgumentsHeld' /\ ResultsHeld' /\ SpillsLast'
        /\ regInfo'[RA] = ID_NULL /\ OneRegisterPerId'
    BY <1>1, <1>2, <1>3, <1>7, TableAfterAlloc
  <2>2. MachineAgrees' /\ DOMAIN mreg' = Registers /\ DOMAIN iden' = Ids
    <3> HIDE DEF r0, r1
    <3>1. QED
      BY <1>1, <1>2, <1>3, <1>7, MachineAfterBinop
  <2>3. LowerTypeOK'
    <3>1. li' \in 0 .. lfunc'.len /\ lf' \in 0 .. Len(funcs') /\ lf' # 0
      BY <1>1, <1>2, <1>3, <1>7, TokPlace
    <3>2. QED
      BY <1>4, <2>1, <2>2, <3>1 DEF LowerTypeOK
  <2>4. QED
    BY <1>4, <1>5, <2>1, <2>2, <2>3 DEF LowerInv
<1>8. QED
  BY <1>6, <1>7, LowerBinopShape

(* Lowering a return or a token that writes nothing keeps it.              *)
LEMMA LowerQuietStep ==
  ASSUME LowerInv, LowerReturn \/ LowerNothing
  PROVE  LowerInv'
<1>1. /\ phase = "lower" /\ phase' = phase /\ tok.type \in {"RETURN", "NONE"} /\ li' = li + 1
      /\ UNCHANGED <<toks, funcs, nextId, nodes, stack, src, passVars, lf>>
      /\ UNCHANGED <<regInfo, nReg, mreg>> /\ ~FunctionLowered
      /\ (iden' = iden \/ iden' = [iden EXCEPT ![tok.res] = Denotes(tok, iden)])
  BY DEF LowerReturn, LowerNothing, Lowering, optVars, emitVars
<1>2. lf > 0 /\ lfunc' = lfunc /\ lf \in Nat /\ Len(funcs) \in Nat
  BY <1>1, LoweringPlace DEF lfunc
<1>3. li < lfunc.len
  BY <1>1, LoweringPlace
<1>4. OptInv' /\ OptimiseTypeOK' /\ fn' = fn
  BY <1>1, LowerKeepsOpt DEF LowerInv
<1>5. LowerPlace'
  BY <1>1, <1>4 DEF LowerInv, LowerPlace
<1>6. tok.type \notin BinOps
  BY <1>1, BinOpsAssumption
<1>7. /\ HeldIsDefined' /\ ArgumentsHeld' /\ ResultsHeld' /\ SpillsLast'
      /\ regInfo'[RA] = ID_NULL /\ OneRegisterPerId'
  BY <1>1, <1>2, <1>3, <1>6, TableAfterNothing
<1>8. MachineAgrees' /\ DOMAIN iden' = Ids
  <2>1. CASE iden' = iden
    BY <2>1, <1>1 DEF LowerInv, LowerTypeOK, MachineAgrees
  <2>2. CASE iden' = [iden EXCEPT ![tok.res] = Denotes(tok, iden)]
    BY <2>2, <1>1, <1>2, <1>3, MachineAfterReturn
  <2>3. QED
    BY <2>1, <2>2, <1>1
<1>9. LowerTypeOK'
  <2>1. li' \in 0 .. lfunc'.len /\ lf' \in 0 .. Len(funcs') /\ lf' # 0
    BY <1>1, <1>2, <1>3, TokPlace
  <2>2. QED
    BY <1>1, <1>4, <1>8, <2>1 DEF LowerInv, LowerTypeOK
<1>10. QED
  BY <1>4, <1>5, <1>7, <1>8, <1>9 DEF LowerInv

-----------------------------------------------------------------------------
(* The invariant holds                                                     *)

(* The passes before, and the driver's steps that leave the allocator's    *)
(* variables alone.                                                        *)
LEMMA TableUntouched ==
  ASSUME LowerInv, OptInv', UNCHANGED lowerOnly, LowerPlace',
         lf > 0 => UNCHANGED <<toks, funcs>>
  PROVE  LowerInv'
<1>1. /\ lf' = lf /\ li' = li /\ regInfo' = regInfo /\ nReg' = nReg /\ mreg' = mreg
      /\ iden' = iden
  BY DEF lowerOnly
<1>2. lf = 0 => 0 \in 0 .. Len(funcs') /\ li = 0
  BY LenProperties DEF LowerInv, LowerTypeOK, OptInv, EmitInv, EmitTypeOK
<1>3. lf > 0 => lfunc' = lfunc /\ NextTok' = NextTok
  BY <1>1 DEF lfunc, NextTok
<1>4. lf = 0 \/ lf > 0
  BY LenProperties DEF LowerInv, LowerTypeOK, OptInv, EmitInv, EmitTypeOK
<1>5. LowerTypeOK'
  BY <1>1, <1>2, <1>3, <1>4 DEF LowerInv, LowerTypeOK, OptInv
<1>6. HeldIsDefined' /\ ArgumentsHeld' /\ ResultsHeld'
  BY <1>1, <1>3, <1>4 DEF LowerInv, HeldIsDefined, Defined, ArgumentsHeld, ResultsHeld
<1>7. SpillsLast' /\ regInfo'[RA] = ID_NULL /\ MachineAgrees' /\ OneRegisterPerId'
  BY <1>1 DEF LowerInv, SpillsLast, MachineAgrees, OneRegisterPerId
<1>8. QED
  BY <1>5, <1>6, <1>7 DEF LowerInv

(* The invariant holds when the compiler begins.                           *)
LEMMA LowerInitInv == LowerInit => LowerInv
<1> SUFFICES ASSUME LowerInit PROVE LowerInv
  OBVIOUS
<1>1. OptInv
  BY OptInit DEF LowerInit
<1>2. /\ phase = "emit" /\ lf = 0 /\ li = 0 /\ nReg = SPILL /\ funcs = << >> /\ Len(funcs) = 0
      /\ regInfo = [r \in 0 .. SPILL - 1 |-> ID_NULL]
      /\ mreg = [r \in 0 .. SPILL - 1 |-> NoTerm] /\ iden = [id \in Ids |-> NoTerm]
  BY EmptySeq DEF LowerInit, OptimiseInit, EmitInit
<1>3. regInfo \in [0 .. nReg - 1 -> Ids] /\ \A r \in 0 .. SPILL - 1 : regInfo[r] = ID_NULL
  BY <1>2, NullIsId
<1>4. LowerTypeOK
  BY <1>1, <1>2, <1>3, RegisterOrder DEF LowerTypeOK, OptInv, Registers
<1>5. LowerPlace /\ ArgumentsHeld /\ ResultsHeld /\ SpillsLast
  BY <1>2, RegisterOrder DEF LowerPlace, ArgumentsHeld, ResultsHeld, SpillsLast
<1>6. HeldIsDefined /\ OneRegisterPerId
  BY <1>2, <1>3 DEF HeldIsDefined, OneRegisterPerId
<1>7. MachineAgrees
  BY <1>2, <1>3, NullIsId DEF MachineAgrees, Registers
<1>8. regInfo[RA] = ID_NULL
  BY <1>3, RegisterOrder
<1>9. QED
  BY <1>1, <1>4, <1>5, <1>6, <1>7, <1>8 DEF LowerInv

(* One step per action of the lowering, and the passes before it.          *)
LEMMA LowerInvNext ==
  ASSUME NodesFit, LowerInv, LowerNext
  PROVE  LowerInv'
<1>1. CASE LowerFunc
  BY <1>1, LowerFuncStep
<1>2. CASE LowerBinop
  BY <1>2, LowerBinopStep
<1>3. CASE LowerReturn \/ LowerNothing
  BY <1>3, LowerQuietStep
<1>4. CASE LowerDone
  <2>1. /\ phase = "lower" /\ phase' = "done"
        /\ UNCHANGED <<toks, funcs, nextId, nodes, stack, src, passVars, lowerOnly>>
    BY <1>4 DEF LowerDone
  <2>2. OptInv' /\ fn' = fn /\ Len(funcs') = Len(funcs)
    BY <2>1, LowerKeepsOpt DEF LowerInv
  <2>3. LowerPlace'
    BY <2>1, <2>2 DEF LowerInv, LowerPlace
  <2>4. QED
    BY <2>1, <2>2, <2>3, TableUntouched
<1>5. CASE OptimiseNext /\ UNCHANGED lowerOnly
  <2>1. OptInv'
    BY <1>5, OptInvNext DEF LowerInv
  <2>2. phase \in {"emit", "optimise"}
    BY <1>5 DEF OptimiseNext, OptimiseStep, EmitNext, EliminateIdentity, KeepToken,
                IdentityDone, MergeReused, KeepBoth, NextCandidate, ReusedDone,
                OptimiseDone, Working
  <2>3. lf = 0 /\ lf' = 0
    BY <1>5, <2>2 DEF LowerInv, LowerPlace, lowerOnly
  <2>4. phase' \in {"lower", "done"} => fn' > Len(funcs')
    <3>1. CASE OptimiseDone
      BY <3>1 DEF OptimiseDone, passVars
    <3>2. CASE EmitNext
      BY <3>2, EmitPhase
    <3>3. CASE KeepToken \/ IdentityDone \/ KeepBoth \/ NextCandidate \/ ReusedDone
      BY <3>3, <2>2 DEF KeepToken, IdentityDone, KeepBoth, NextCandidate, ReusedDone, emitVars
    <3>4. CASE EliminateIdentity \/ MergeReused
      BY <3>4, <2>2 DEF EliminateIdentity, MergeReused
    <3>5. QED
      BY <1>5, <3>1, <3>2, <3>3, <3>4 DEF OptimiseNext, OptimiseStep
  <2>5. LowerPlace'
    BY <2>3, <2>4 DEF LowerPlace
  <2>6. QED
    BY <1>5, <2>1, <2>3, <2>5, TableUntouched
<1>6. QED
  BY <1>1, <1>2, <1>3, <1>4, <1>5 DEF LowerNext, LowerStep

(* The invariant speaks of the state only.                                 *)
LEMMA LowerInvStutter ==
  ASSUME LowerInv, UNCHANGED lowerVars
  PROVE  LowerInv'
<1>1. UNCHANGED optVars /\ UNCHANGED lowerOnly
  BY DEF lowerVars
<1>2. /\ toks' = toks /\ funcs' = funcs /\ phase' = phase /\ fn' = fn /\ lf' = lf
  BY <1>1 DEF optVars, emitVars, passVars, lowerOnly
<1>3. OptInv'
  BY <1>1, OptInvStutter DEF LowerInv
<1>4. LowerPlace'
  BY <1>2 DEF LowerInv, LowerPlace
<1>5. QED
  BY <1>1, <1>2, <1>3, <1>4, TableUntouched

(* The lowering's invariant holds in every state of the back end.          *)
LEMMA LowerInvariant ==
  ASSUME NodesFit
  PROVE  LowerSpec => []LowerInv
<1>1. LowerInv /\ [LowerNext]_lowerVars => LowerInv'
  BY LowerInvNext, LowerInvStutter
<1>2. QED
  BY <1>1, LowerInitInv, PTL DEF LowerSpec

-----------------------------------------------------------------------------
(* What the invariant says to a reader *)

(* For every program and number of registers the table, the loop indexes   *)
(* and the count of registers stay what they may be.                       *)
THEOREM LowerTypeCorrect ==
  ASSUME NodesFit
  PROVE  LowerSpec => []LowerTypeOK
<1>1. LowerInv => LowerTypeOK
  BY DEF LowerInv
<1>2. QED
  BY <1>1, LowerInvariant, PTL

(* cc_asm_regalloc and cc_asm_find_free, for every program and number of   *)
(* registers: a register that the table says holds an id does hold what    *)
(* that id stands for, when the instructions written so far run.           *)
THEOREM LowerTableIsTrue ==
  ASSUME NodesFit
  PROVE  LowerSpec => []RegistersHoldValues
<1>1. LowerInv => RegistersHoldValues
  BY DEF LowerInv, MachineAgrees, RegistersHoldValues
<1>2. QED
  BY <1>1, LowerInvariant, PTL

(* cc_asm_find_used has one register to find, if any.                      *)
THEOREM LowerAllocatesOnce ==
  ASSUME NodesFit
  PROVE  LowerSpec => []OneRegisterPerId
<1>1. LowerInv => OneRegisterPerId
  BY DEF LowerInv
<1>2. QED
  BY <1>1, LowerInvariant, PTL

-----------------------------------------------------------------------------
(* How a function ends                                                     *)

(* The stack of the emitter is a block or nothing, a return, and then      *)
(* expressions: a return is never inside of one.                           *)
BodyDepth == IF stack[1].kind = "BLOCK" THEN 2 ELSE 1

BodyShape ==
  stack # << >> => \A k \in 1 .. Len(stack) : /\ stack[k].kind = "RETURN" <=> k = BodyDepth
                                              /\ stack[k].kind = "BLOCK" <=> k < BodyDepth

(* The last token of a function came from a return statement, and has kept *)
(* the null of its second slot: it is no operator and mentions the null id.*)
EndsInReturn(w) ==
  w.len > 0 => /\ toks[w.pos + w.len].type \in {"RETURN", "NONE"}
               /\ toks[w.pos + w.len].args[1] = ID_NULL

(* While a return is evaluated the function that is being emitted need not *)
(* end in one.                                                             *)
Returning == stack # << >> /\ Len(stack) >= BodyDepth

FunctionsEnd ==
  \A f \in 1 .. Len(funcs) : EndsInReturn(funcs[f]) \/ (f = Len(funcs) /\ Returning)

(* No operand is the value of a return statement.                          *)
IsReturn(f, id) == \E q \in Window(funcs[f]) : toks[q].type = "RETURN" /\ toks[q].res = id

NoReturnUsed ==
  \A f \in 1 .. Len(funcs) : \A p \in Window(funcs[f]) : \A s \in Slots :
    ~IsReturn(f, toks[p].args[s])

(* Nor will one be: what children of an expression returned is none.       *)
NoReturnHeard ==
  \A k \in 1 .. Len(stack) : k >= BodyDepth =>
    \A d \in 1 .. Len(stack[k].done) : ~IsReturn(Len(funcs), stack[k].done[d])

ReturnsInv ==
  /\ FunctionsEnd /\ NoReturnUsed
  /\ phase = "emit" => BodyShape /\ NoReturnHeard

-----------------------------------------------------------------------------
(* Emission                                                                *)

(* What a pushed token does to the windows, and that no token has its      *)
(* result for an operand.                                                  *)
LEMMA PushPlace ==
  ASSUME NodesFit, EmitInv, EmitInv', stack # << >>, NEW t \in Tokens, PushToken(t)
  PROVE  LET n == Len(funcs)
             e == Len(toks) + 1
         IN /\ Len(funcs') = n /\ n \in 1 .. n /\ e \in Nat
            /\ \A f \in 1 .. n : f # n => funcs'[f] = funcs[f]
            /\ Window(funcs'[n]) = Window(funcs[n]) \cup {e} /\ toks'[e] = t
            /\ \A f \in 1 .. n : \A p \in Window(funcs[f]) :
                 toks'[p] = toks[p] /\ p \in Nat /\ p < e /\ toks[p] \in Tokens
            /\ funcs'[n].pos + funcs'[n].len = e
            /\ \A p \in Window(funcs'[n]) : \A s \in Slots : toks'[p].args[s] # t.res
            /\ t.res \in Ids
<1> DEFINE n == Len(funcs)
           e == Len(toks) + 1
           c == cur.len
<1>1. /\ EmitTypeOK /\ WindowsInside /\ WindowsTile /\ funcs # << >>
      /\ c + Len(stack) <= nodes /\ c \in Nat /\ nodes \in Nat /\ nodes <= MaxNodes
      /\ Len(stack) \in Nat /\ Len(stack) # 0
  BY TopFacts, EmptySeq DEF EmitInv
<1>2. c + 1 < LenMod
  <2> HIDE DEF c
  <2>1. QED
    BY <1>1, ConstantTypes DEF NodesFit
<1>3. /\ Len(toks') = e /\ toks'[e] = t
      /\ \A p \in 1 .. Len(toks) : toks'[p] = toks[p]
      /\ Len(funcs') = n
      /\ \A f \in 1 .. n : funcs'[f].pos = funcs[f].pos
      /\ \A f \in 1 .. n : f # n => funcs'[f] = funcs[f]
      /\ funcs'[n].len = funcs[n].len + 1
  BY <1>1, <1>2, PushShape DEF EmitTypeOK, cur
<1>4. /\ n \in 1 .. n /\ Len(toks) \in Nat
      /\ funcs[n].pos + funcs[n].len = Len(toks)
      /\ funcs[n].pos \in Nat /\ funcs[n].len \in Nat
      /\ \A f \in 1 .. n :
           /\ Window(funcs[f]) \subseteq 1 .. Len(toks)
           /\ \A p \in Window(funcs[f]) : toks[p] \in Tokens
  BY <1>1, CurrentWindow DEF cur
<1>5. Window(funcs'[n]) = Window(funcs[n]) \cup {e} /\ funcs'[n].pos + funcs'[n].len = e
  <2>1. /\ funcs'[n].pos = funcs[n].pos /\ funcs'[n].len = funcs[n].len + 1
        /\ e = funcs[n].pos + funcs[n].len + 1
    BY <1>3, <1>4
  <2>2. QED
    BY <2>1, <1>4, WindowGrows
<1>6. ASSUME NEW f \in 1 .. n, NEW p \in Window(funcs[f])
      PROVE  toks'[p] = toks[p] /\ p \in Nat /\ p < e /\ toks[p] \in Tokens
  <2>1. p \in 1 .. Len(toks) /\ Len(toks) \in Nat /\ toks[p] \in Tokens
    BY <1>4
  <2>2. p \in Nat /\ p < e
    BY <2>1
  <2>3. QED
    BY <2>1, <2>2, <1>3
<1>7. t.res \in Ids /\ t.res # ID_NULL /\ t.res \notin ParamIds
  <2>1. t.res >= FirstTemporal
    BY <1>3, <1>4, <1>5 DEF EmitInv, SingleAssignment
  <2>2. t.res \in Ids
    BY DEF Tokens
  <2>3. QED
    BY <2>1, <2>2, ConstantTypes DEF ParamIds, ID_PARAM, Ids
<1>8. ASSUME NEW p \in Window(funcs'[n]), NEW s \in Slots, toks'[p].args[s] = t.res
      PROVE  FALSE
  <2>1. PICK q \in Window(funcs'[n]) : q < p /\ toks'[q].res = t.res
    BY <1>3, <1>4, <1>7, <1>8 DEF EmitInv, DefinedBeforeUse
  <2>2. q = e
    BY <2>1, <1>3, <1>4, <1>5 DEF EmitInv, SingleAssignment
  <2>3. e \in Nat /\ (p = e \/ (p \in Nat /\ p < e)) /\ e < p
    <3>1. e < p
      BY <2>1, <2>2
    <3>2. p = e \/ p \in Window(funcs[n])
      BY <1>5
    <3>3. p \in Window(funcs[n]) => p \in Nat /\ p < e
      <4>1. n \in 1 .. n
        BY <1>4
      <4> QED BY <4>1, <1>6
    <3>4. e \in Nat
      BY <1>4
    <3> QED BY <3>1, <3>2, <3>3, <3>4
  <2>4. QED
    BY <2>3
<1>9. QED
  BY <1>3, <1>4, <1>5, <1>6, <1>7, <1>8

(* No operand becomes the value of a return, as long as the new token's    *)
(* are none.                                                               *)
LEMMA PushReturns ==
  ASSUME NodesFit, EmitInv, EmitInv', stack # << >>, NEW t \in Tokens, PushToken(t),
         NoReturnUsed, \A s \in Slots : ~IsReturn(Len(funcs), t.args[s])
  PROVE  /\ NoReturnUsed' /\ Len(funcs') = Len(funcs)
         /\ t.type # "RETURN" => /\ ~IsReturn(Len(funcs), t.res)'
                                /\ \A x \in Ids : IsReturn(Len(funcs), x)' => IsReturn(Len(funcs), x)
<1> DEFINE n == Len(funcs)
           e == Len(toks) + 1
<1>1. /\ Len(funcs') = n /\ n \in 1 .. n /\ e \in Nat
      /\ \A f \in 1 .. n : f # n => funcs'[f] = funcs[f]
      /\ Window(funcs'[n]) = Window(funcs[n]) \cup {e} /\ toks'[e] = t
      /\ \A f \in 1 .. n : \A p \in Window(funcs[f]) : toks'[p] = toks[p]
      /\ \A p \in Window(funcs'[n]) : \A s \in Slots : toks'[p].args[s] # t.res
      /\ t.res \in Ids
  BY PushPlace
<1>2. ASSUME NEW f \in 1 .. n, NEW p \in Window(funcs'[f]), NEW s \in Slots,
             NEW q \in Window(funcs'[f]), toks'[q].type = "RETURN",
             toks'[q].res = toks'[p].args[s]
      PROVE  FALSE
  <2>1. CASE f # n
    BY <2>1, <1>1, <1>2 DEF NoReturnUsed, IsReturn
  <2>2. CASE f = n
    <3>1. q # e
      BY <2>2, <1>1, <1>2
    <3>2. q \in Window(funcs[n]) /\ toks'[q] = toks[q]
      BY <2>2, <3>1, <1>1
    <3>3. CASE p = e
      BY <3>2, <3>3, <2>2, <1>1, <1>2 DEF IsReturn
    <3>4. CASE p # e
      BY <3>2, <3>4, <2>2, <1>1, <1>2 DEF NoReturnUsed, IsReturn
    <3>5. QED
      BY <3>3, <3>4
  <2>3. QED
    BY <2>1, <2>2
<1>3. NoReturnUsed'
  BY <1>1, <1>2 DEF NoReturnUsed, IsReturn
<1>4. ASSUME t.type # "RETURN", NEW x \in Ids, NEW q \in Window(funcs'[n]),
             toks'[q].type = "RETURN", toks'[q].res = x
      PROVE  q \in Window(funcs[n]) /\ toks[q].type = "RETURN" /\ toks[q].res = x
  BY <1>1, <1>4
<1>5. ASSUME t.type # "RETURN", NEW q \in Window(funcs'[n]),
             toks'[q].type = "RETURN", toks'[q].res = t.res
      PROVE  FALSE
  <2>1. e \in Window(funcs'[n]) /\ toks'[e].res = toks'[q].res
    BY <1>1, <1>5
  <2>2. q = e
    BY <2>1, <1>1 DEF EmitInv, SingleAssignment
  <2>3. QED
    BY <2>2, <1>1, <1>5
<1>6. QED
  BY <1>1, <1>3, <1>4, <1>5 DEF IsReturn

(* A node ends; S is the stack that its caller heads.                      *)
LEMMA Answered ==
  ASSUME EmitTypeOK, stack # << >>, BodyShape, NoReturnHeard,
         NEW S \in Seq(Frames), Len(S) <= Len(stack), \A k \in 1 .. Len(S) : S[k] = stack[k],
         NEW id \in Ids, stack' = Deliver(S, id), Len(funcs') = Len(funcs),
         Len(S) >= BodyDepth =>
           /\ ~IsReturn(Len(funcs), id)'
           /\ \A x \in Ids : IsReturn(Len(funcs), x)' => IsReturn(Len(funcs), x)
  PROVE  /\ BodyShape' /\ NoReturnHeard'
         /\ Len(stack') = Len(S)
         /\ stack' # << >> => BodyDepth' = BodyDepth
<1>1. /\ stack' \in Seq(Frames) /\ Len(stack') = Len(S) /\ Len(S) \in Nat
      /\ \A k \in 1 .. Len(S) :
           /\ stack'[k].kind = S[k].kind
           /\ k # Len(S) => stack'[k].done = S[k].done
           /\ k = Len(S) => stack'[k].done = Append(S[k].done, id)
  BY DeliverType, LenProperties
<1>2. /\ Len(stack) \in Nat
      /\ \A k \in 1 .. Len(S) : k \in 1 .. Len(stack) /\ stack[k] \in Frames
  BY <1>1, LenProperties, ElementOfSeq DEF EmitTypeOK
<1>3. stack' # << >> => BodyDepth' = BodyDepth /\ Len(S) >= 1
  <2> SUFFICES ASSUME stack' # << >> PROVE BodyDepth' = BodyDepth /\ Len(S) >= 1
    OBVIOUS
  <2>1. Len(S) >= 1
    BY <1>1, EmptySeq
  <2>2. stack'[1].kind = stack[1].kind
    BY <2>1, <1>1
  <2>3. QED
    BY <2>1, <2>2 DEF BodyDepth
<1>4. BodyShape'
  <2> SUFFICES ASSUME stack' # << >>, NEW k \in 1 .. Len(S)
               PROVE  /\ stack'[k].kind = "RETURN" <=> k = BodyDepth'
                      /\ stack'[k].kind = "BLOCK" <=> k < BodyDepth'
    BY <1>1 DEF BodyShape
  <2>1. stack'[k].kind = stack[k].kind /\ BodyDepth' = BodyDepth /\ k \in 1 .. Len(stack)
    BY <1>1, <1>2, <1>3
  <2>2. QED
    BY <2>1 DEF BodyShape
<1>5. NoReturnHeard'
  <2> SUFFICES ASSUME NEW k \in 1 .. Len(S), k >= BodyDepth', NEW d \in 1 .. Len(stack'[k].done)
               PROVE  ~IsReturn(Len(funcs), stack[k].done[d])'
    BY <1>1 DEF NoReturnHeard
  <2>1. stack' # << >> /\ BodyDepth' = BodyDepth /\ BodyDepth \in Nat
    BY <1>1, <1>3, EmptySeq DEF BodyDepth
  <2>2. k \in 1 .. Len(stack) /\ k >= BodyDepth /\ stack[k] \in Frames /\ Len(S) >= BodyDepth
    BY <2>1, <1>1, <1>2
  <2>3. stack[k].done \in Seq(Ids)
    BY <2>2 DEF Frames
  <2>4. \A i \in 1 .. Len(stack[k].done) :
          stack[k].done[i] \in Ids /\ ~IsReturn(Len(funcs), stack[k].done[i])
    BY <2>2, <2>3, ElementOfSeq DEF NoReturnHeard
  <2>5. stack'[k].done[d] = id \/ \E i \in 1 .. Len(stack[k].done) : stack'[k].done[d] = stack[k].done[i]
    <3>1. CASE k # Len(S)
      BY <3>1, <1>1
    <3>2. CASE k = Len(S)
      <4>1. stack'[k].done = Append(stack[k].done, id)
        BY <3>2, <1>1
      <4>2. QED
        BY <4>1, <2>3, AppendProperties, LenProperties
    <3>3. QED
      BY <3>1, <3>2
  <2>6. \A z \in Ids : z = id \/ ~IsReturn(Len(funcs), z) => ~IsReturn(Len(funcs), z)'
    BY <2>2
  <2>7. PICK z : z = stack'[k].done[d]
    OBVIOUS
  <2>8. z \in Ids /\ (z = id \/ ~IsReturn(Len(funcs), z))
    BY <2>4, <2>5, <2>7
  <2>9. ~IsReturn(Len(funcs), z)'
    BY <2>6, <2>8
  <2>10. QED
    BY <2>7, <2>9 DEF IsReturn
<1>6. QED
  BY <1>1, <1>3, <1>4, <1>5

(* A window whose last token is still there, or eliminated, ends as before.*)
LEMMA EndsKept ==
  ASSUME EmitInv, NEW f \in 1 .. Len(funcs), funcs'[f] = funcs[f], EndsInReturn(funcs[f]),
         \A p \in Window(funcs[f]) : /\ toks'[p].type \in {toks[p].type, "NONE"}
                                     /\ toks[p].args[1] = ID_NULL => toks'[p].args[1] = ID_NULL
  PROVE  EndsInReturn(funcs[f])'
<1> DEFINE w == funcs[f]
<1>1. w.pos \in Nat /\ w.len \in Nat
  <2>1. w \in Windows
    BY ElementOfSeq DEF EmitInv, EmitTypeOK
  <2>2. QED
    BY <2>1, ConstantTypes DEF Windows
<1>2. w.len > 0 => w.pos + w.len \in Window(w)
  BY <1>1 DEF Window
<1>3. QED
  BY <1>2 DEF EndsInReturn

(* The function that grows ends in the return that is pushed, or goes on.  *)
LEMMA PushEnds ==
  ASSUME NodesFit, EmitInv, EmitInv', stack # << >>, NEW t \in Tokens, PushToken(t),
         FunctionsEnd, (t.type = "RETURN" /\ t.args[1] = ID_NULL) \/ Returning'
  PROVE  FunctionsEnd'
<1> DEFINE n == Len(funcs)
           e == Len(toks) + 1
<1>1. /\ Len(funcs') = n /\ n \in 1 .. n
      /\ \A f \in 1 .. n : f # n => funcs'[f] = funcs[f]
      /\ \A f \in 1 .. n : \A p \in Window(funcs[f]) : toks'[p] = toks[p]
      /\ funcs'[n].pos + funcs'[n].len = e /\ toks'[e] = t
  BY PushPlace
<1>2. ASSUME NEW f \in 1 .. n, f # n PROVE EndsInReturn(funcs[f])'
  <2>1. EndsInReturn(funcs[f])
    BY <1>2 DEF FunctionsEnd
  <2>2. QED
    BY <2>1, <1>1, <1>2, EndsKept
<1>3. EndsInReturn(funcs[n])' \/ Returning'
  <2>1. CASE t.type = "RETURN" /\ t.args[1] = ID_NULL
    <3>1. toks'[funcs'[n].pos + funcs'[n].len] = t
      BY <1>1
    <3>2. QED
      BY <3>1, <2>1, <1>1 DEF EndsInReturn
  <2>2. QED
    BY <2>1
<1>4. QED
  BY <1>1, <1>2, <1>3 DEF FunctionsEnd

(* Neither the null id nor a parameter is the value of a return.           *)
LEMMA NotReturned ==
  ASSUME EmitInv, NEW f \in 1 .. Len(funcs), NEW id, id = ID_NULL \/ id \in ParamIds
  PROVE  ~IsReturn(f, id)
  BY ResultIsTemporal DEF IsReturn

(* The kinds inside of an expression.                                      *)
LEMMA InteriorKinds ==
  /\ \A kind \in Interior : kind # "RETURN" /\ kind # "BLOCK"
  /\ "RETURN" \notin BinOps /\ "IF" \notin BinOps /\ "BLOCK" \notin BinOps /\ "RETURN" # "IDENTITY"
  /\ "NONE" \notin BinOps /\ "IDENTITY" \notin BinOps
  BY BinOpsAssumption, SyntaxAssumption DEF Interior, TokenTypes

(* Where the emitter is in the body.                                       *)
LEMMA TopPlace ==
  ASSUME EmitTypeOK, BodyShape, stack # << >>
  PROVE  /\ Len(stack) \in Nat /\ Len(stack) >= 1 /\ BodyDepth \in {1, 2}
         /\ top.kind = "BLOCK" => Len(stack) = 1 /\ BodyDepth = 2
         /\ top.kind = "RETURN" => Len(stack) = BodyDepth
         /\ top.kind \notin {"RETURN", "BLOCK"} => Len(stack) > BodyDepth
<1>1. Len(stack) \in Nat /\ Len(stack) >= 1
  BY LenProperties, EmptySeq DEF EmitTypeOK
<1>2. BodyDepth \in {1, 2}
  BY DEF BodyDepth
<1>3. /\ top.kind = "RETURN" <=> Len(stack) = BodyDepth
      /\ top.kind = "BLOCK" <=> Len(stack) < BodyDepth
  BY <1>1 DEF BodyShape, top
<1>4. QED
  BY <1>1, <1>2, <1>3, SMTT(30)

(* A step that pushes no token, and goes on with what it was evaluating.   *)
LEMMA QuietReturns ==
  ASSUME toks' = toks, funcs' = funcs, FunctionsEnd, NoReturnUsed, Returning => Returning'
  PROVE  /\ FunctionsEnd' /\ NoReturnUsed'
         /\ \A f, x : IsReturn(f, x)' <=> IsReturn(f, x)
  BY DEF FunctionsEnd, NoReturnUsed, EndsInReturn, IsReturn

(* One step per action of the emitter.                                     *)
LEMMA ReturnsEmitStep ==
  ASSUME NodesFit, EmitInv, ReturnsInv, EmitNext
  PROVE  ReturnsInv'
<1> DEFINE n == Len(funcs)
<1>t. /\ EmitTypeOK /\ EmitInv' /\ phase = "emit" /\ FunctionsEnd /\ NoReturnUsed
      /\ BodyShape /\ NoReturnHeard /\ ID_NULL \in Ids /\ n \in Nat /\ stack \in Seq(Frames)
      /\ funcs \in Seq(Windows)
  BY EmitInvStep, EmitPhase, NullIsId, LenProperties DEF EmitInv, ReturnsInv, EmitTypeOK
<1>0. /\ stack # << >> => n \in 1 .. n /\ funcs # << >>
      /\ stack = << >> => ~Returning
  BY <1>t, EmptySeq DEF EmitTypeOK, Returning
<1>1. ASSUME NEW kind \in Bodies, FromAstVar(kind) PROVE ReturnsInv'
  <2> DEFINE w == [pos |-> Len(toks), len |-> 0]
             fr == [kind |-> kind, res |-> FirstTemporal, done |-> << >>]
  <2>1. /\ funcs' = Append(funcs, w) /\ toks' = toks /\ stack' = << fr >> /\ phase' = phase
        /\ stack = << >> /\ w \in Windows /\ Window(w) = {} /\ w.len = 0
    BY <1>1, <1>t, LenProperties, ConstantTypes DEF FromAstVar, EmitTypeOK, Windows, Window
  <2>2. fr.kind = kind /\ fr.done = << >>
    OBVIOUS
  <2> HIDE DEF w, fr
  <2>3. /\ Len(funcs') = n + 1 /\ funcs'[n + 1] = w /\ \A f \in 1 .. n : funcs'[f] = funcs[f]
        /\ \A f \in 1 .. n + 1 : f \in 1 .. n \/ f = n + 1
    BY <2>1, <1>t, AppendProperties
  <2>4. FunctionsEnd'
    BY <2>1, <2>3, <1>0, <1>t DEF FunctionsEnd, EndsInReturn
  <2>5. NoReturnUsed'
    BY <2>1, <2>3, <1>t DEF NoReturnUsed, IsReturn
  <2>6. Len(stack') = 1 /\ stack'[1] = fr /\ Len(fr.done) = 0
    BY <2>1, <2>2, EmptySeq
  <2>7. BodyShape' /\ NoReturnHeard'
    BY <2>2, <2>6 DEF BodyShape, NoReturnHeard, BodyDepth, Bodies
  <2>8. QED
    BY <2>4, <2>5, <2>7 DEF ReturnsInv
<1>2. ASSUME NEW kind \in {"RETURN"} \cup Interior, Enter(kind) PROVE ReturnsInv'
  <2>1. /\ stack # << >> /\ toks' = toks /\ funcs' = funcs
        /\ \/ kind = "RETURN" /\ top.kind = "BLOCK"
           \/ kind \in Interior /\ top.kind # "BLOCK"
    BY <1>2, InteriorKinds DEF Enter, ExpectsReturn, ExpectsExpr
  <2> DEFINE fr == Frame(kind)
  <2>2. fr.kind = kind /\ fr.done = << >> /\ stack' = Append(stack, fr)
    BY <1>2 DEF Frame, Enter
  <2> HIDE DEF fr
  <2>3. /\ Len(stack) \in Nat /\ Len(stack) >= 1 /\ BodyDepth \in {1, 2}
        /\ top.kind = "BLOCK" => Len(stack) = 1 /\ BodyDepth = 2
        /\ top.kind # "BLOCK" => Len(stack) >= BodyDepth
    BY <2>1, <1>t, TopPlace
  <2>4. /\ Len(stack') = Len(stack) + 1 /\ \A k \in 1 .. Len(stack) : stack'[k] = stack[k]
        /\ stack'[Len(stack) + 1] = fr /\ stack' # << >>
    BY <2>2, <2>3, <1>t, EmptySeq
  <2>5. BodyDepth' = BodyDepth
    BY <2>3, <2>4 DEF BodyDepth
  <2>6. Returning'
    BY <2>1, <2>3, <2>4, <2>5 DEF Returning
  <2>7. FunctionsEnd' /\ NoReturnUsed' /\ \A f, x : IsReturn(f, x)' <=> IsReturn(f, x)
    BY <2>1, <2>6, <1>t, QuietReturns
  <2>8. \A k \in 1 .. Len(stack') : k \in 1 .. Len(stack) \/ k = Len(stack) + 1
    BY <2>3, <2>4
  <2>9. BodyShape'
    <3> SUFFICES ASSUME NEW k \in 1 .. Len(stack')
                 PROVE  /\ stack'[k].kind = "RETURN" <=> k = BodyDepth
                        /\ stack'[k].kind = "BLOCK" <=> k < BodyDepth
      BY <2>5 DEF BodyShape
    <3>1. CASE k \in 1 .. Len(stack)
      BY <3>1, <2>4, <1>t DEF BodyShape
    <3>2. CASE k = Len(stack) + 1
      BY <3>2, <2>1, <2>2, <2>3, <2>4, InteriorKinds
    <3>3. QED
      BY <3>1, <3>2, <2>8
  <2>10. NoReturnHeard'
    <3> SUFFICES ASSUME NEW k \in 1 .. Len(stack'), k >= BodyDepth, NEW d \in 1 .. Len(stack'[k].done)
                 PROVE  ~IsReturn(n, stack'[k].done[d])
      BY <2>1, <2>5 DEF NoReturnHeard, IsReturn
    <3>1. CASE k \in 1 .. Len(stack)
      BY <3>1, <2>4, <1>t DEF NoReturnHeard
    <3>2. CASE k = Len(stack) + 1
      BY <3>2, <2>2, <2>4, EmptySeq
    <3>3. QED
      BY <3>1, <3>2, <2>8
  <2>11. QED
    BY <2>7, <2>9, <2>10 DEF ReturnsInv
<1>3. ASSUME NEW m \in 0 .. NParams - 1, RefVar(m) PROVE ReturnsInv'
  <2> DEFINE u == [type |-> "IDENTITY", res |-> nextId, args |-> Args(ID_PARAM(m), ID_NULL)]
  <2>a. /\ u \in Tokens /\ u.res = nextId /\ u.type = "IDENTITY" /\ nextId \in Ids
        /\ \A s \in Slots : u.args[s] \in ParamIds \/ u.args[s] = ID_NULL
    <3>1. ID_PARAM(m) \in Ids /\ ID_PARAM(m) \in ParamIds /\ nextId \in Ids
      BY <1>t, ParamIdType DEF EmitTypeOK
    <3>2. QED
      BY <3>1, <1>t, TokenType, ArgsType DEF TokenTypes
  <2>b. stack # << >> /\ PushToken(u) /\ stack' = Deliver(stack, u.res) /\ top.kind # "BLOCK"
    BY <1>3 DEF RefVar, Reply, ExpectsExpr
  <2> HIDE DEF u
  <2>c. PICK t \in Tokens : t = u
    BY <2>a
  <2>1. stack # << >> /\ PushToken(t) /\ stack' = Deliver(stack, t.res) /\ top.kind # "BLOCK"
    BY <2>b, <2>c
  <2>2. /\ t \in Tokens /\ t.type = "IDENTITY" /\ t.res \in Ids
        /\ \A s \in Slots : t.args[s] \in ParamIds \/ t.args[s] = ID_NULL
    BY <2>a, <2>c
  <2>3. \A s \in Slots : ~IsReturn(n, t.args[s])
    BY <2>1, <2>2, <1>0, NotReturned
  <2>4. /\ NoReturnUsed' /\ Len(funcs') = n /\ ~IsReturn(n, t.res)'
        /\ \A x \in Ids : IsReturn(n, x)' => IsReturn(n, x)
    BY <2>1, <2>2, <2>3, <1>t, PushReturns
  <2>5. Len(stack) \in Nat /\ Len(stack) >= BodyDepth /\ BodyDepth \in {1, 2}
    BY <2>1, <1>t, TopPlace
  <2>6. /\ BodyShape' /\ NoReturnHeard' /\ Len(stack') = Len(stack)
        /\ stack' # << >> => BodyDepth' = BodyDepth
    <3>1. Len(stack) <= Len(stack) /\ \A k \in 1 .. Len(stack) : stack[k] = stack[k]
      BY <2>5
    <3>2. QED
      BY <3>1, <2>1, <2>2, <2>4, <1>t, Answered
  <2>7. Returning'
    BY <2>5, <2>6, EmptySeq DEF Returning
  <2>8. FunctionsEnd'
    BY <2>1, <2>2, <2>7, <1>t, PushEnds
  <2>9. QED
    BY <2>4, <2>6, <2>8 DEF ReturnsInv
<1>4. CASE RefUnknown
  <2>1. toks' = toks /\ funcs' = funcs /\ stack' = stack /\ phase' = "aborted"
    BY <1>4 DEF RefUnknown
  <2>2. QED
    BY <2>1, <1>t, QuietReturns DEF ReturnsInv, Returning, BodyDepth
<1>5. ASSUME NEW kind \in Syntax, Tokenless(kind) PROVE ReturnsInv'
  <2>1. /\ stack # << >> /\ stack' = Deliver(stack, ID_NULL) /\ top.kind # "BLOCK"
        /\ toks' = toks /\ funcs' = funcs /\ Len(funcs') = n
    BY <1>5 DEF Tokenless, Reply, ExpectsExpr
  <2>2. Len(stack) \in Nat /\ Len(stack) >= BodyDepth /\ BodyDepth \in {1, 2}
    BY <2>1, <1>t, TopPlace
  <2>3. ~IsReturn(n, ID_NULL)' /\ \A x \in Ids : IsReturn(n, x)' => IsReturn(n, x)
    <3>1. ~IsReturn(n, ID_NULL)
      BY <2>1, <1>0, NotReturned
    <3>2. QED
      BY <3>1, <2>1 DEF IsReturn
  <2>4. /\ BodyShape' /\ NoReturnHeard' /\ Len(stack') = Len(stack)
        /\ stack' # << >> => BodyDepth' = BodyDepth
    <3>1. Len(stack) <= Len(stack) /\ \A k \in 1 .. Len(stack) : stack[k] = stack[k]
      BY <2>2
    <3> DEFINE id == ID_NULL
    <3>2. stack' = Deliver(stack, id) /\ id \in Ids /\ ~IsReturn(n, id)'
      BY <2>1, <2>3, <1>t
    <3> HIDE DEF id
    <3>3. QED
      BY <3>1, <3>2, <2>1, <2>3, <1>t, Answered
  <2>5. Returning'
    BY <2>2, <2>4, EmptySeq DEF Returning
  <2>6. QED
    BY <2>1, <2>4, <2>5, <1>t, QuietReturns DEF ReturnsInv
<1>6. CASE FinishBinop
  <2> DEFINE u == [type |-> top.kind, res |-> top.res, args |-> Args(top.done[1], top.done[2])]
             S == Front(stack)
  <2>1. /\ stack # << >> /\ Len(top.done) = 2 /\ top.kind \in BinOps /\ PushToken(u)
        /\ stack' = Deliver(S, u.res) /\ 1 \in 1 .. Len(top.done) /\ 2 \in 1 .. Len(top.done)
    BY <1>6, BinOpsAssumption DEF FinishBinop, Complete, Arity, Leave
  <2>2. /\ Len(stack) \in Nat /\ BodyDepth \in {1, 2} /\ Len(stack) > BodyDepth
        /\ Len(stack) \in 1 .. Len(stack)
    BY <2>1, <1>t, TopPlace, InteriorKinds
  <2>3. /\ top.done[1] \in Ids /\ top.done[2] \in Ids /\ top.res \in Ids
        /\ S \in Seq(Frames) /\ Len(S) = Len(stack) - 1 /\ Len(S) <= Len(stack)
        /\ \A k \in 1 .. Len(S) : S[k] = stack[k]
    BY <2>1, <2>2, <1>t, TopFacts
  <2>4. ~IsReturn(n, top.done[1]) /\ ~IsReturn(n, top.done[2]) /\ ~IsReturn(n, ID_NULL)
    BY <2>1, <2>2, <1>t, <1>0, NotReturned DEF NoReturnHeard, top
  <2>5. /\ u \in Tokens /\ u.res = top.res /\ u.type = top.kind /\ u.type # "RETURN"
        /\ \A s \in Slots : u.args[s] \in {top.done[1], top.done[2], ID_NULL}
    BY <2>1, <2>3, TokenType, ArgsType, InteriorKinds DEF TokenTypes
  <2> HIDE DEF u, S
  <2>c. PICK t \in Tokens : t = u
    BY <2>5
  <2>d. PushToken(t) /\ stack' = Deliver(S, t.res) /\ t.type = top.kind /\ t.res \in Ids
    BY <2>1, <2>3, <2>5, <2>c
  <2>6. /\ NoReturnUsed' /\ Len(funcs') = n /\ ~IsReturn(n, t.res)'
        /\ \A x \in Ids : IsReturn(n, x)' => IsReturn(n, x)
    <3>1. \A s \in Slots : ~IsReturn(n, t.args[s])
      BY <2>4, <2>5, <2>c
    <3>2. QED
      BY <3>1, <2>1, <2>5, <2>d, <1>t, PushReturns
  <2>7. /\ BodyShape' /\ NoReturnHeard' /\ Len(stack') = Len(S)
        /\ stack' # << >> => BodyDepth' = BodyDepth
    BY <2>1, <2>3, <2>6, <2>d, <1>t, Answered
  <2>8. Returning'
    BY <2>2, <2>3, <2>7, EmptySeq DEF Returning
  <2>9. FunctionsEnd'
    BY <2>1, <2>5, <2>8, <2>d, <1>t, PushEnds
  <2>10. QED
    BY <2>6, <2>7, <2>9 DEF ReturnsInv
<1>7. CASE FinishCond
  <2>1. toks' = toks /\ funcs' = funcs /\ stack' = stack /\ phase' = "aborted"
    BY <1>7 DEF FinishCond
  <2>2. QED
    BY <2>1, <1>t, QuietReturns DEF ReturnsInv, Returning, BodyDepth
<1>8. CASE FinishIf \/ FinishBlock
  <2> DEFINE S == Front(stack)
  <2>1. /\ stack # << >> /\ stack' = Deliver(S, ID_NULL) /\ toks' = toks /\ funcs' = funcs
        /\ Len(funcs') = n /\ top.kind \in {"IF", "BLOCK"}
    BY <1>8 DEF FinishIf, FinishBlock, Complete, Leave
  <2>p. /\ Len(stack) \in Nat /\ BodyDepth \in {1, 2} /\ Len(stack) >= 1
        /\ top.kind = "BLOCK" => Len(stack) = 1 /\ BodyDepth = 2
        /\ top.kind \notin {"RETURN", "BLOCK"} => Len(stack) > BodyDepth
    BY <2>1, <1>t, TopPlace
  <2>q. top.kind = "IF" => Len(stack) > BodyDepth
    BY <2>p
  <2>r. top.kind = "BLOCK" => Len(stack) < BodyDepth
    BY <2>p
  <2>2. /\ Len(stack) \in Nat /\ BodyDepth \in {1, 2} /\ Len(stack) >= 1
        /\ top.kind = "IF" => Len(stack) > BodyDepth
        /\ top.kind = "BLOCK" => Len(stack) < BodyDepth
    BY <2>p, <2>q, <2>r
  <2>3. /\ S \in Seq(Frames) /\ Len(S) = Len(stack) - 1 /\ Len(S) <= Len(stack)
        /\ \A k \in 1 .. Len(S) : S[k] = stack[k]
    BY <2>1, <2>2, <1>t, TopFacts
  <2>4. ~IsReturn(n, ID_NULL)' /\ \A x \in Ids : IsReturn(n, x)' => IsReturn(n, x)
    <3>1. ~IsReturn(n, ID_NULL)
      BY <2>1, <1>0, NotReturned
    <3>2. QED
      BY <3>1, <2>1 DEF IsReturn
  <2> HIDE DEF S
  <2>5. /\ BodyShape' /\ NoReturnHeard' /\ Len(stack') = Len(S)
        /\ stack' # << >> => BodyDepth' = BodyDepth
    <3> DEFINE id == ID_NULL
    <3>1. stack' = Deliver(S, id) /\ id \in Ids /\ ~IsReturn(n, id)'
      BY <2>1, <2>4, <1>t
    <3> HIDE DEF id
    <3>2. QED
      BY <3>1, <2>1, <2>3, <2>4, <1>t, Answered
  <2>6. Returning => Returning'
    BY <2>1, <2>2, <2>3, <2>5, EmptySeq DEF Returning
  <2>7. QED
    BY <2>1, <2>5, <2>6, <1>t, QuietReturns DEF ReturnsInv
<1>9. CASE FinishReturn
  <2> DEFINE u == [type |-> "RETURN", res |-> top.res, args |-> Args(top.done[1], ID_NULL)]
             S == Front(stack)
  <2>1. /\ stack # << >> /\ Len(top.done) = 1 /\ top.kind = "RETURN" /\ PushToken(u)
        /\ stack' = Deliver(S, u.res) /\ 1 \in 1 .. Len(top.done)
    BY <1>9 DEF FinishReturn, Complete, Arity, Leave
  <2>2. /\ Len(stack) \in Nat /\ BodyDepth \in {1, 2} /\ Len(stack) = BodyDepth
        /\ Len(stack) \in 1 .. Len(stack)
    BY <2>1, <1>t, TopPlace
  <2>3. /\ top.done[1] \in Ids /\ top.res \in Ids
        /\ S \in Seq(Frames) /\ Len(S) = Len(stack) - 1 /\ Len(S) <= Len(stack)
        /\ \A k \in 1 .. Len(S) : S[k] = stack[k]
    BY <2>1, <2>2, <1>t, TopFacts
  <2>4. ~IsReturn(n, top.done[1]) /\ ~IsReturn(n, ID_NULL)
    BY <2>1, <2>2, <1>t, <1>0, NotReturned DEF NoReturnHeard, top
  <2>5. /\ u \in Tokens /\ u.res = top.res /\ u.type = "RETURN"
        /\ \A s \in Slots : u.args[s] \in {top.done[1], ID_NULL}
        /\ u.args[1] = ID_NULL
    <3>1. Args(top.done[1], ID_NULL)[1] = ID_NULL
      BY ConstantTypes DEF Slots, Args
    <3>2. u \in Tokens /\ u.args = Args(top.done[1], ID_NULL) /\ u.res = top.res /\ u.type = "RETURN"
      BY <2>1, <2>3, <1>t, TokenType DEF TokenTypes
    <3>3. \A s \in Slots : Args(top.done[1], ID_NULL)[s] \in {top.done[1], ID_NULL}
      BY <2>3, <1>t, ArgsType
    <3>4. QED
      BY <3>1, <3>2, <3>3
  <2> HIDE DEF u, S
  <2>c. PICK t \in Tokens : t = u
    BY <2>5
  <2>d. PushToken(t) /\ stack' = Deliver(S, t.res) /\ t.type = "RETURN" /\ t.res \in Ids
    BY <2>1, <2>3, <2>5, <2>c
  <2>6. NoReturnUsed' /\ Len(funcs') = n
    <3>1. \A s \in Slots : ~IsReturn(n, t.args[s])
      BY <2>4, <2>5, <2>c
    <3>2. QED
      BY <3>1, <2>1, <2>5, <2>d, <1>t, PushReturns
  <2>7. BodyShape' /\ NoReturnHeard'
    <3>1. ~(Len(S) >= BodyDepth)
      BY <2>2, <2>3
    <3>2. QED
      BY <3>1, <2>1, <2>3, <2>6, <2>d, <1>t, Answered
  <2>8. FunctionsEnd'
    BY <2>1, <2>5, <2>c, <2>d, <1>t, PushEnds
  <2>9. QED
    BY <2>6, <2>7, <2>8 DEF ReturnsInv
<1>10. CASE FromAstDone
  <2>1. toks' = toks /\ funcs' = funcs /\ stack' = stack /\ phase' = "optimise"
    BY <1>10 DEF FromAstDone
  <2>2. QED
    BY <2>1, <1>t, QuietReturns DEF ReturnsInv, Returning, BodyDepth
<1>11. CASE FromAstObject
  <2>1. toks' = toks /\ funcs' = funcs /\ stack' = stack /\ phase' = "aborted"
    BY <1>11 DEF FromAstObject
  <2>2. QED
    BY <2>1, <1>t, QuietReturns DEF ReturnsInv, Returning, BodyDepth
<1>12. QED
  BY <1>1, <1>2, <1>3, <1>4, <1>5, <1>6, <1>7, <1>8, <1>9, <1>10, <1>11 DEF EmitNext

-----------------------------------------------------------------------------
(* Optimisation                                                            *)

(* Renaming: whoever used the result that goes may use what replaces it.   *)
LEMMA RewriteReturns ==
  ASSUME EmitInv, WindowsOrdered, FunctionsEnd, NoReturnUsed, UNCHANGED <<funcs, stack>>,
         fn \in 1 .. Len(funcs), NEW k \in Nat, k < func.len,
         NEW from \in Ids, NEW to \in Ids, from # ID_NULL, Rewrite(k, from, to),
         ~IsReturn(fn, from) => ~IsReturn(fn, to)
  PROVE  FunctionsEnd' /\ NoReturnUsed'
<1>1. \A p \in 1 .. Len(toks) :
        /\ toks'[p].res = toks[p].res
        /\ toks'[p].type \in {toks[p].type, "NONE"}
        /\ \A s \in Slots :
             toks'[p].args[s] = IF At(k) < p /\ p \in Window(func) /\ toks[p].args[s] = from
                                  THEN to ELSE toks[p].args[s]
  BY RewriteShape
<1>2. \A f \in 1 .. Len(funcs) : \A p \in Window(funcs[f]) : p \in 1 .. Len(toks) /\ toks[p] \in Tokens
  BY InWindow
<1>3. ASSUME NEW f \in 1 .. Len(funcs), NEW p \in Window(funcs[f])
      PROVE  /\ toks'[p].type \in {toks[p].type, "NONE"}
             /\ toks[p].args[1] = ID_NULL => toks'[p].args[1] = ID_NULL
  <2>1. p \in 1 .. Len(toks) /\ 1 \in Slots
    BY <1>2, TokenIds
  <2>2. QED
    BY <2>1, <1>1
<1>4. FunctionsEnd'
  <2>1. Returning' <=> Returning
    BY DEF Returning, BodyDepth
  <2>2. \A f \in 1 .. Len(funcs) : EndsInReturn(funcs[f]) => EndsInReturn(funcs[f])'
    BY <1>3, EndsKept
  <2>3. QED
    BY <2>1, <2>2 DEF FunctionsEnd
<1>5. NoReturnUsed'
  <2> SUFFICES ASSUME NEW f \in 1 .. Len(funcs), NEW p \in Window(funcs[f]), NEW s \in Slots,
                      NEW q \in Window(funcs[f]), toks'[q].type = "RETURN",
                      toks'[q].res = toks'[p].args[s]
               PROVE  FALSE
    BY DEF NoReturnUsed, IsReturn
  <2>1. p \in 1 .. Len(toks) /\ q \in 1 .. Len(toks)
    BY <1>2
  <2>2. toks[q].type = "RETURN" /\ toks[q].res = toks'[p].args[s]
    BY <2>1, <1>1
  <2>3. CASE toks'[p].args[s] = toks[p].args[s]
    BY <2>2, <2>3 DEF NoReturnUsed, IsReturn
  <2>4. CASE p \in Window(func) /\ toks[p].args[s] = from /\ toks'[p].args[s] = to
    <3>1. f = fn
      BY <2>4, WindowsApart DEF func
    <3>2. ~IsReturn(fn, to)
      BY <2>4, <3>1 DEF NoReturnUsed
    <3>3. QED
      BY <2>2, <2>4, <3>1, <3>2 DEF IsReturn
  <2>5. QED
    BY <2>1, <2>3, <2>4, <1>1
<1>6. QED
  BY <1>4, <1>5

(* The identity pass renames to an operand, the reused pass to a result of *)
(* the same type as the one that goes.                                     *)
LEMMA ReturnsOptimiseStep ==
  ASSUME OptInv, ReturnsInv, EliminateIdentity \/ MergeReused
  PROVE  ReturnsInv'
<1>1. /\ phase = "optimise" /\ phase' # "emit" /\ fn <= Len(funcs) /\ oi < func.len
      /\ UNCHANGED <<funcs, stack>>
  BY DEF EliminateIdentity, MergeReused, Working
<1>t. /\ fn \in 1 .. Len(funcs) /\ oi \in Nat /\ oj \in Nat /\ EmitInv /\ WindowsOrdered
      /\ FunctionsEnd /\ NoReturnUsed /\ func = funcs[fn]
  BY <1>1, OptTypes DEF OptInv, ReturnsInv, func
<1>2. \A k \in Nat : k < func.len => At(k) \in Window(funcs[fn]) /\ toks[At(k)] \in Tokens
                                     /\ toks[At(k)].res \in Ids /\ toks[At(k)].res # ID_NULL
  BY <1>t, WindowPlace, ResultIsTemporal
<1>3. CASE toks' = toks
  BY <1>1, <1>3, <1>t DEF ReturnsInv, FunctionsEnd, NoReturnUsed, EndsInReturn, IsReturn, Returning,
                          BodyDepth
<1>4. CASE EliminateIdentity /\ toks' # toks
  <2>1. Rewrite(oi, itok.res, itok.args[0])
    BY <1>4 DEF EliminateIdentity, Rewrite
  <2>2. itok \in Tokens /\ itok.res \in Ids /\ itok.res # ID_NULL /\ itok.args[0] \in Ids
    BY <1>1, <1>2, <1>t, TokenIds DEF itok
  <2>3. ~IsReturn(fn, itok.args[0])
    BY <1>1, <1>2, <1>t, TokenIds DEF NoReturnUsed, itok
  <2>4. FunctionsEnd' /\ NoReturnUsed'
    BY <2>1, <2>2, <2>3, <1>1, <1>t, RewriteReturns
  <2>5. QED
    BY <2>4, <1>1 DEF ReturnsInv
<1>5. CASE MergeReused
  <2>1. Rewrite(oj, jtok.res, itok.res) /\ oj < func.len /\ itok.type = jtok.type
    BY <1>5 DEF MergeReused, Rewrite, SameToken
  <2>2. itok.res \in Ids /\ jtok.res \in Ids /\ jtok.res # ID_NULL
    BY <2>1, <1>1, <1>2, <1>t DEF itok, jtok
  <2>3. ~IsReturn(fn, jtok.res) => ~IsReturn(fn, itok.res)
    <3> SUFFICES ASSUME ~IsReturn(fn, jtok.res), NEW q \in Window(funcs[fn]),
                        toks[q].type = "RETURN", toks[q].res = itok.res
                 PROVE  FALSE
      BY DEF IsReturn
    <3>1. q = At(oi)
      BY <1>1, <1>2, <1>t, OneResult DEF itok
    <3>2. jtok.type = "RETURN"
      BY <3>1, <2>1 DEF itok
    <3>3. QED
      BY <3>2, <2>1, <1>2, <1>t DEF IsReturn, jtok
  <2>4. FunctionsEnd' /\ NoReturnUsed'
    BY <2>1, <2>2, <2>3, <1>1, <1>t, RewriteReturns
  <2>5. QED
    BY <2>4, <1>1 DEF ReturnsInv
<1>6. QED
  BY <1>3, <1>4, <1>5

-----------------------------------------------------------------------------
(* The invariant holds                                                     *)

(* Steps that touch neither the tokens nor the recursion keep what is      *)
(* known of the returns; so does leaving emission.                         *)
LEMMA ReturnsKept ==
  ASSUME ReturnsInv, UNCHANGED <<toks, funcs, stack>>, phase' = phase \/ phase' # "emit"
  PROVE  ReturnsInv'
  BY DEF ReturnsInv, FunctionsEnd, NoReturnUsed, EndsInReturn, IsReturn, Returning, BodyDepth,
         BodyShape, NoReturnHeard

AbortInv == LowerInv /\ ReturnsInv

(* The invariant of the aborts holds when the compiler begins.             *)
LEMMA AbortInvInit == LowerInit => AbortInv
<1> SUFFICES ASSUME LowerInit PROVE AbortInv
  OBVIOUS
<1>1. LowerInv
  BY LowerInitInv
<1>2. Len(funcs) = 0 /\ stack = << >> /\ Len(stack) = 0
  BY EmptySeq DEF LowerInit, OptimiseInit, EmitInit
<1>3. QED
  BY <1>1, <1>2 DEF AbortInv, ReturnsInv, FunctionsEnd, NoReturnUsed, BodyShape, NoReturnHeard

(* Every step of the compiler, from emission to lowering, keeps it.        *)
LEMMA AbortInvNext ==
  ASSUME NodesFit, AbortInv, LowerNext
  PROVE  AbortInv'
<1>1. LowerInv'
  BY LowerInvNext DEF AbortInv
<1>2. EmitInv /\ OptInv /\ ReturnsInv
  BY DEF AbortInv, LowerInv, OptInv
<1>3. CASE LowerStep
  <2>1. UNCHANGED <<toks, funcs, stack>> /\ (phase' = phase \/ phase' # "emit")
    BY <1>3 DEF LowerStep, LowerFunc, LowerBinop, LowerReturn, LowerNothing, LowerDone, Lowering,
                optVars, emitVars
  <2>2. QED
    BY <2>1, <1>1, <1>2, ReturnsKept DEF AbortInv
<1>4. CASE EmitNext
  BY <1>1, <1>2, <1>4, ReturnsEmitStep DEF AbortInv
<1>5. CASE OptimiseStep
  <2>1. CASE EliminateIdentity \/ MergeReused
    BY <2>1, <1>1, <1>2, ReturnsOptimiseStep DEF AbortInv
  <2>2. CASE KeepToken \/ IdentityDone \/ KeepBoth \/ NextCandidate \/ ReusedDone \/ OptimiseDone
    <3>1. UNCHANGED <<toks, funcs, stack>> /\ (phase' = phase \/ phase' # "emit")
      BY <2>2 DEF KeepToken, IdentityDone, KeepBoth, NextCandidate, ReusedDone, OptimiseDone, emitVars
    <3>2. QED
      BY <3>1, <1>1, <1>2, ReturnsKept DEF AbortInv
  <2>3. QED
    BY <1>5, <2>1, <2>2 DEF OptimiseStep
<1>6. QED
  BY <1>3, <1>4, <1>5 DEF LowerNext, OptimiseNext

(* So it holds in every state of the back end.                             *)
LEMMA AbortInvariant ==
  ASSUME NodesFit
  PROVE  LowerSpec => []AbortInv
<1>1. ASSUME AbortInv, UNCHANGED lowerVars PROVE AbortInv'
  <2>1. UNCHANGED <<toks, funcs, stack>> /\ phase' = phase
    BY <1>1 DEF lowerVars, optVars, emitVars
  <2>2. QED
    BY <2>1, <1>1, LowerInvStutter, ReturnsKept DEF AbortInv
<1>2. AbortInv /\ [LowerNext]_lowerVars => AbortInv'
  BY <1>1, AbortInvNext
<1>3. QED
  BY <1>2, AbortInvInit, PTL DEF LowerSpec

-----------------------------------------------------------------------------
(* What lowering an operation finds                                        *)

(* An operation is not the last token of its function, and the last one    *)
(* mentions the null id.                                                   *)
LEMMA NotTheLast ==
  ASSUME AbortInv, phase = "lower", lf > 0, li < lfunc.len, tok.type \in BinOps
  PROVE  li + 1 < lfunc.len /\ ~IsLastUse(toks, lfunc, li + 1, ID_NULL)
<1>1. /\ lf \in 1 .. Len(funcs) /\ lfunc = funcs[lf] /\ li \in Nat /\ lfunc.len \in Nat
      /\ lfunc.pos \in Nat /\ tok = toks[lfunc.pos + 1 + li] /\ tok \in Tokens
  BY TokPlace DEF AbortInv, NextTok
<1>2. ~Returning
  BY DEF AbortInv, LowerInv, OptInv, PassPlace, Returning
<1>3. EndsInReturn(lfunc)
  BY <1>1, <1>2 DEF AbortInv, ReturnsInv, FunctionsEnd
<1> DEFINE l == lfunc.pos + lfunc.len
<1>4. toks[l].type \in {"RETURN", "NONE"} /\ toks[l].args[1] = ID_NULL
  BY <1>1, <1>3 DEF EndsInReturn
<1>5. toks[l].type \notin BinOps
  BY <1>4, InteriorKinds
<1>6. lfunc.pos + 1 + li # l
  <2> DEFINE i == lfunc.pos + 1 + li
  <2>1. tok = toks[i]
    BY <1>1
  <2> HIDE DEF i, l
  <2>2. i # l
    BY <2>1, <1>5
  <2>3. QED
    BY <2>2 DEF i
<1>7. li + 1 < lfunc.len
  <2> DEFINE p == lfunc.pos
             m == lfunc.len
  <2>1. p \in Nat /\ m \in Nat /\ li \in Nat /\ li < m /\ p + 1 + li # p + m
    BY <1>1, <1>6
  <2> HIDE DEF p, m
  <2>2. li + 1 < m
    BY <2>1
  <2>3. QED
    BY <2>2 DEF m
<1>8. lfunc.len - 1 \in li + 1 .. lfunc.len - 1 /\ lfunc.pos + 1 + (lfunc.len - 1) = l
  BY <1>1, <1>7
<1>9. IsUsedIn(toks[l], ID_NULL)
  BY <1>1, <1>4, TokenIds DEF IsUsedIn
<1>10. QED
  BY <1>7, <1>8, <1>9 DEF IsLastUse

(* No register holds a parameter that was not passed in one.               *)
LEMMA UnpassedHeldNowhere ==
  ASSUME LowerInv, lf > 0, li < lfunc.len, NEW id \in Ids, Unpassed(id)
  PROVE  Holding(RegAlloc(tok.res), id) = {}
<1>1. /\ lf \in 1 .. Len(funcs) /\ lfunc = funcs[lf] /\ NextTok \in Window(lfunc)
      /\ tok = toks[NextTok] /\ tok.res \in Ids /\ EmitInv
  BY TokPlace DEF LowerInv, OptInv
<1>2. /\ NA \in Nat /\ FirstTemporal \in Nat /\ id \in Nat /\ NA + 2 <= id /\ id < FirstTemporal
  BY RegisterOrder, ConstantTypes DEF Unpassed, ID_PARAM, Ids
<1>3. \A q \in Window(lfunc) : toks[q].res # id
  <2>1. \A q \in Window(lfunc) : toks[q].res >= FirstTemporal /\ toks[q].res \in Ids
    BY <1>1, ResultIsTemporal DEF EmitInv, SingleAssignment
  <2>2. QED
    BY <2>1, <1>2, ConstantTypes DEF Ids
<1>4. \A r \in DOMAIN regInfo : regInfo[r] # id
  BY <1>2, <1>3 DEF LowerInv, HeldIsDefined, Passed, ID_PARAM, Defined
<1>5. nReg \in Nat /\ nReg >= SPILL /\ regInfo \in [0 .. nReg - 1 -> Ids]
      /\ DOMAIN regInfo = 0 .. nReg - 1
  BY DEF LowerInv, LowerTypeOK
<1> DEFINE held == RegAlloc(tok.res)
<1>6. /\ DOMAIN held = 0 .. Grown - 1 /\ held[FindFree] = tok.res
      /\ \A r \in 0 .. Grown - 1 : r = FindFree \/ r \in 0 .. nReg - 1
      /\ \A r \in 0 .. nReg - 1 : r # FindFree => held[r] = regInfo[r]
  BY <1>1, <1>5, RegAllocFacts
<1> HIDE DEF held
<1>7. \A r \in DOMAIN held : held[r] # id
  BY <1>1, <1>3, <1>4, <1>5, <1>6
<1>8. QED
  BY <1>7 DEF Holding, held

(* Any other operand of an operation is in a register: the null id in one  *)
(* that never holds anything, a parameter in its own, and else it is the   *)
(* result of an operation that was lowered before.                         *)
LEMMA OperandHeld ==
  ASSUME AbortInv, phase = "lower", lf > 0, li < lfunc.len, tok.type \in BinOps,
         NEW s \in Slots, ~Unpassed(tok.args[s])
  PROVE  Holding(RegAlloc(tok.res), tok.args[s]) # {}
<1> DEFINE id == tok.args[s]
           held == RegAlloc(tok.res)
<1>1. /\ lf \in 1 .. Len(funcs) /\ lfunc = funcs[lf] /\ NextTok \in Window(lfunc)
      /\ tok = toks[NextTok] /\ tok \in Tokens /\ tok.res \in Ids /\ id \in Ids /\ EmitInv
      /\ lf \in Nat
  BY TokPlace, TokenIds DEF AbortInv, LowerInv, OptInv
<1>2. nReg \in Nat /\ nReg >= SPILL /\ regInfo \in [0 .. nReg - 1 -> Ids]
      /\ DOMAIN regInfo = 0 .. nReg - 1
  BY DEF AbortInv, LowerInv, LowerTypeOK
<1>3. /\ DOMAIN held = 0 .. Grown - 1
      /\ \A r \in 0 .. nReg - 1 : r \in 0 .. Grown - 1 /\ (r # FindFree => held[r] = regInfo[r])
  BY <1>1, <1>2, RegAllocFacts
<1>4. /\ FindFree < nReg => regInfo[FindFree] = ID_NULL
      /\ (T0 <= FindFree /\ FindFree < T7) \/ FindFree >= SPILL
      /\ FindFree \in Nat
  BY <1>2, FindFreeFacts
<1>5. \A r \in 0 .. nReg - 1 : r # FindFree /\ regInfo[r] = id => held[r] = id /\ r \in DOMAIN held
  BY <1>3
<1>6. CASE id = ID_NULL
  <2>1. RA \in 0 .. nReg - 1 /\ RA # FindFree
    BY <1>2, <1>4, RegisterOrder
  <2>2. regInfo[RA] = id
    BY <1>6 DEF AbortInv, LowerInv
  <2>3. held[RA] = id /\ RA \in DOMAIN held
    BY <2>1, <2>2, <1>5
  <2>4. QED
    BY <2>3 DEF Holding
<1>7. CASE id \in ParamIds
  <2>1. PICK m \in 0 .. NParams - 1 : id = m + 2
    BY <1>7 DEF ParamIds, ID_PARAM
  <2>2. m \in 0 .. NA - 1
    BY <2>1, ConstantTypes, RegisterOrder DEF Unpassed, ID_PARAM
  <2>3. regInfo[A0 + m] = id
    BY <2>1, <2>2 DEF AbortInv, LowerInv, ArgumentsHeld, ID_PARAM
  <2>4. A0 + m \in 0 .. nReg - 1 /\ A0 + m # FindFree
    BY <2>2, <1>2, <1>4, RegisterOrder
  <2>5. held[A0 + m] = id /\ A0 + m \in DOMAIN held
    BY <2>3, <2>4, <1>5
  <2>6. QED
    BY <2>5 DEF Holding
<1>8. CASE id # ID_NULL /\ id \notin ParamIds
  <2>1. tok.type # "NONE"
    BY InteriorKinds
  <2>2. PICK q \in Live(lf) : q < NextTok /\ toks[q].res = id
    BY <2>1, <1>1, <1>8 DEF AbortInv, LowerInv, OptInv, NoDanglingOperand, Live
  <2>3. q \in Window(lfunc) /\ toks[q].type # "NONE" /\ toks[q] \in Tokens
    BY <2>2, <1>1, InWindow DEF Live
  <2>4. toks[q].type # "IDENTITY"
    <3>1. lf < fn
      <4>1. fn > Len(funcs) /\ fn \in Nat /\ Len(funcs) \in Nat
        BY OptTypes DEF AbortInv, LowerInv, LowerPlace
      <4>2. QED
        BY <4>1, <1>1
    <3>2. QED
      BY <3>1, <2>3, <1>1 DEF AbortInv, LowerInv, OptInv, NoIdentityBehind, NoIdentityLeft
  <2>5. toks[q].type # "RETURN"
    BY <2>2, <2>3, <1>1 DEF AbortInv, ReturnsInv, NoReturnUsed, IsReturn
  <2>6. toks[q].type \in BinOps
    BY <2>3, <2>4, <2>5 DEF Tokens, TokenTypes
  <2>7. PICK r \in 0 .. nReg - 1 : regInfo[r] = id
    BY <2>2, <2>3, <2>6, <1>2 DEF AbortInv, LowerInv, ResultsHeld
  <2>8. r # FindFree
    BY <2>7, <1>2, <1>4, <1>8
  <2>9. held[r] = id /\ r \in DOMAIN held
    BY <2>7, <2>8, <1>5
  <2>10. QED
    BY <2>9 DEF Holding
<1>9. QED
  BY <1>6, <1>7, <1>8

(* cc_asm_generic_binop aborts on a parameter without register, and else   *)
(* for want of a real register only.                                       *)
LEMMA BinopAborts ==
  ASSUME AbortInv, LowerBinop
  PROVE  LET unpassed == \E s \in {0, 1} : Unpassed(tok.args[s]) IN
           /\ unpassed => phase' = "aborted"
           /\ phase' = "aborted" => unpassed \/ nReg' > SPILL
<1> DEFINE a0 == tok.args[0]
           a1 == tok.args[1]
           held == RegAlloc(tok.res)
           r0 == FindUsed(held, a0)
           r1 == FindUsed(held, a1)
           last0 == IsLastUse(toks, lfunc, li + 1, a0)
           last1 == IsLastUse(toks, lfunc, li + 1, a1)
           freed0 == IF last0 THEN RegFree(held, r0) ELSE held
           named == {FindFree, r0, r1} \subseteq 0 .. SPILL - 1
           found == Holding(held, a0) # {} /\ Holding(held, a1) # {}
           sound == /\ Holding(held, a0) # {} /\ Holding(held, a1) # {}
                    /\ li + 1 < lfunc.len
                    /\ last0 => held[r0] # ID_NULL
                    /\ last1 => freed0[r1] # ID_NULL
<1>1. /\ ~sound => phase' = "aborted"
      /\ sound => phase' \in (IF named THEN {"lower"} ELSE {"lower", "aborted"}) /\ nReg' = Grown
  BY DEF LowerBinop
<1>2. /\ LowerInv /\ phase = "lower" /\ tok.type \in BinOps /\ lf > 0 /\ li < lfunc.len
  BY LoweringPlace DEF LowerBinop, Lowering, AbortInv
<1>3. tok \in Tokens /\ a0 \in Ids /\ a1 \in Ids /\ 0 \in Slots /\ 1 \in Slots /\ tok.res \in Ids
  BY <1>2, TokPlace, TokenIds
<1>4. li + 1 < lfunc.len /\ (last0 => a0 # ID_NULL) /\ (last1 => a1 # ID_NULL)
  BY <1>2, NotTheLast
<1>5. /\ Unpassed(a0) => Holding(held, a0) = {}
      /\ Unpassed(a1) => Holding(held, a1) = {}
  BY <1>2, <1>3, UnpassedHeldNowhere
<1>6. /\ ~Unpassed(a0) => Holding(held, a0) # {}
      /\ ~Unpassed(a1) => Holding(held, a1) # {}
  BY <1>2, <1>3, OperandHeld
<1>7. DOMAIN held = 0 .. Grown - 1 /\ Grown \in Nat /\ FindFree \in 0 .. Grown - 1
  <2>1. nReg \in Nat /\ nReg >= SPILL /\ regInfo \in [0 .. nReg - 1 -> Ids]
    BY <1>2 DEF LowerInv, LowerTypeOK
  <2>2. QED
    BY <2>1, <1>3, RegAllocFacts, FindFreeFacts
<1>8. found => r0 \in Holding(held, a0) /\ r1 \in Holding(held, a1)
  <2>1. ASSUME NEW id \in Ids, Holding(held, id) # {}
        PROVE  FindUsed(held, id) \in Holding(held, id)
    <3>1. Holding(held, id) \subseteq Nat
      BY <1>7 DEF Holding
    <3>2. First(Holding(held, id)) \in Holding(held, id)
      BY <3>1, <2>1, FirstIsIn
    <3>3. QED
      BY <3>2 DEF FindUsed
  <2>2. QED
    BY <2>1, <1>3
<1>9. found => /\ r0 \in 0 .. Grown - 1 /\ held[r0] = a0
               /\ r1 \in 0 .. Grown - 1 /\ held[r1] = a1
  BY <1>7, <1>8 DEF Holding
<1>10. found => freed0 = held
  <2>1. found => r0 \in Int
    BY <1>7, <1>9
  <2> HIDE DEF held, r0, last0, found
  <2>2. QED
    BY <2>1, NeverFreed
<1>11. found => sound
  <2> HIDE DEF held, r0, r1, last0, last1, freed0, a0, a1
  <2>1. QED
    BY <1>4, <1>9, <1>10
<1>12. found /\ ~named => Grown > SPILL
  <2>1. SPILL \in Nat
    BY RegisterOrder
  <2> HIDE DEF held, r0, r1, found
  <2>2. QED
    BY <2>1, <1>7, <1>9
<1>13. sound => found
  OBVIOUS
<1>14. found <=> ~(Unpassed(a0) \/ Unpassed(a1))
  <2> HIDE DEF held, a0, a1
  <2>1. QED
    BY <1>5, <1>6
<1> HIDE DEF sound, named, found
<1>15. (\E s \in {0, 1} : Unpassed(tok.args[s])) <=> ~found
  BY <1>14
<1>16. found => phase' # "aborted" \/ nReg' > SPILL
  BY <1>1, <1>11, <1>12
<1>17. ~found => phase' = "aborted"
  BY <1>1, <1>13
<1>18. QED
  BY <1>15, <1>16, <1>17

(* Every operation of a program that fits is followed by a token, which is *)
(* what the assertion of cc_ssa_is_last_use asks for.                      *)
THEOREM LowerTokenFollows ==
  ASSUME NodesFit
  PROVE  LowerSpec => []TokenFollows
<1>1. AbortInv => TokenFollows
  BY LoweringPlace, NotTheLast DEF TokenFollows, AbortInv
<1>2. QED
  BY <1>1, AbortInvariant, PTL

(* For every program that fits and every number of registers the lowering  *)
(* of an operation aborts when an operand is a parameter beyond the A      *)
(* registers, and otherwise only once it uses virtual registers: every     *)
(* other operand is found and neither assertion fails.                     *)
THEOREM LowerAbortsForWant ==
  ASSUME NodesFit
  PROVE  LowerSpec => AbortsForWantOnly
<1> DEFINE Aborts ==
      Lowering(BinOps) =>
        LET unpassed == \E s \in {0, 1} : Unpassed(tok.args[s]) IN
          /\ unpassed => phase' = "aborted"
          /\ phase' = "aborted" => unpassed \/ nReg' > SPILL
<1>1. ASSUME AbortInv, LowerNext PROVE Aborts
  <2> SUFFICES ASSUME Lowering(BinOps) PROVE Aborts
    OBVIOUS
  <2>1. LowerBinop
    <3>1. phase = "lower" /\ ~FunctionLowered /\ tok.type \notin {"RETURN", "NONE"}
      BY InteriorKinds DEF Lowering
    <3>2. QED
      BY <1>1, <3>1 DEF LowerNext, LowerStep, LowerFunc, LowerReturn, LowerNothing, LowerDone,
           Lowering, OptimiseNext, OptimiseStep, EmitNext, EliminateIdentity, KeepToken,
           IdentityDone, MergeReused, KeepBoth, NextCandidate, ReusedDone, OptimiseDone, Working
  <2>2. QED
    BY <1>1, <2>1, BinopAborts
<1>2. AbortInv /\ [LowerNext]_lowerVars => [Aborts]_lowerVars
  BY <1>1
<1>3. QED
  BY <1>2, AbortInvariant, PTL DEF LowerSpec, AbortsForWantOnly

===============================================================================
