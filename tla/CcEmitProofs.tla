----------------------------- MODULE CcEmitProofs ----------------------------
(***************************************************************************)
(* Proofs about SSA emission, for every grammar of operators, every number *)
(* of parameters and every size of program: its types, windows and ids,    *)
(* and that the tokens mean what the syntax tree means.                    *)
(***************************************************************************)
EXTENDS CcEmit, SequenceTheorems, TLAPS

USE DEF ID_NULL

(* The constants that number ids are naturals.                             *)
LEMMA ConstantTypes ==
  /\ NParams \in Nat /\ MaxArgs \in Nat /\ IdMod \in Nat /\ LenMod \in Nat
  /\ FirstTemporal \in Nat /\ MaxNodes \in Nat /\ MaxFuncs \in Nat
  /\ MaxArgs >= 2 /\ LenMod > 0 /\ FirstTemporal < IdMod
  /\ NParams + 2 <= FirstTemporal
  BY NParamsAssumption, MaxArgsAssumption, ModAssumption, BoundsAssumption,
     FirstTemporalAssumption

(* An operand list made of two ids has the type of a token's args.         *)
LEMMA ArgsType ==
  ASSUME NEW a \in Ids, NEW b \in Ids
  PROVE  /\ Args(a, b) \in [Slots -> Ids]
         /\ \A k \in Slots : Args(a, b)[k] \in {a, b, ID_NULL}
  BY ConstantTypes DEF Args, Slots, Ids

(* Parameters have ids, between RETVAL and the first temporal.             *)
LEMMA ParamIdType ==
  ASSUME NEW n \in 0 .. NParams - 1
  PROVE  ID_PARAM(n) \in Ids /\ ID_PARAM(n) \in ParamIds /\ ID_PARAM(n) < FirstTemporal
  BY ConstantTypes DEF ID_PARAM, ParamIds, Ids

-----------------------------------------------------------------------------
(* The stack of activations *)

(* Leaving an activation leaves the frames below it.                       *)
LEMMA FrontType ==
  ASSUME NEW S, NEW s \in Seq(S), s # << >>
  PROVE  /\ Front(s) \in Seq(S)
         /\ Len(Front(s)) = Len(s) - 1
         /\ \A k \in 1 .. Len(Front(s)) : Front(s)[k] = s[k]
<1>1. Len(s) \in Nat \ {0}
  BY EmptySeq
<1>2. \A i \in 1 .. Len(s) - 1 : s[i] \in S
  BY ElementOfSeq, <1>1
<1> DEFINE n == Len(s) - 1
<1>3. n \in Nat /\ 1 \in Int
  BY <1>1
<1>4. /\ SubSeq(s, 1, n) \in Seq(S)
      /\ Len(SubSeq(s, 1, n)) = IF 1 <= n THEN n - 1 + 1 ELSE 0
      /\ \A i \in 1 .. n - 1 + 1 : SubSeq(s, 1, n)[i] = s[1 + i - 1]
  <2> HIDE DEF n
  <2> QED BY <1>2, <1>3, SubSeqProperties DEF n
<1>5. Front(s) = SubSeq(s, 1, n)
  BY DEF Front
<1> HIDE DEF n
<1>6. Len(Front(s)) = n
  BY <1>3, <1>4, <1>5
<1>7. ASSUME NEW k \in 1 .. n
      PROVE  Front(s)[k] = s[k]
  <2>1. k \in 1 .. n - 1 + 1 /\ 1 + k - 1 = k
    BY <1>3
  <2>2. QED
    BY <2>1, <1>4, <1>5
<1>8. QED
  BY <1>4, <1>5, <1>6, <1>7 DEF n

(* A frame that has received one more id is a frame.                       *)
LEMMA FrameGrows ==
  ASSUME NEW fr \in Frames, NEW id \in Ids
  PROVE  LET g == [fr EXCEPT !.done = Append(@, id)] IN
           /\ g \in Frames /\ g.kind = fr.kind /\ g.res = fr.res
           /\ g.done = Append(fr.done, id)
  BY AppendProperties DEF Frames

(* Delivering an id appends it to what the innermost caller has received.  *)
LEMMA DeliverType ==
  ASSUME NEW s \in Seq(Frames), NEW id \in Ids
  PROVE  /\ Deliver(s, id) \in Seq(Frames)
         /\ Len(Deliver(s, id)) = Len(s)
         /\ \A k \in 1 .. Len(s) :
              /\ Deliver(s, id)[k].res = s[k].res /\ Deliver(s, id)[k].kind = s[k].kind
              /\ k # Len(s) => Deliver(s, id)[k].done = s[k].done
              /\ k = Len(s) => Deliver(s, id)[k].done = Append(s[k].done, id)
<1>1. CASE s = << >>
  BY <1>1, EmptySeq DEF Deliver
<1>2. CASE s # << >>
  <2>1. Len(s) \in 1 .. Len(s)
    BY <1>2, EmptySeq
  <2>2. s[Len(s)] \in Frames
    BY <2>1, ElementOfSeq
  <2> DEFINE g == [s[Len(s)] EXCEPT !.done = Append(@, id)]
  <2>3. /\ g \in Frames /\ g.kind = s[Len(s)].kind /\ g.res = s[Len(s)].res
        /\ g.done = Append(s[Len(s)].done, id)
    BY <2>2, FrameGrows
  <2>4. Deliver(s, id) = [s EXCEPT ![Len(s)] = g]
    BY <1>2 DEF Deliver
  <2> HIDE DEF g
  <2>5. QED
    BY <2>1, <2>3, <2>4, ExceptSeq
<1>3. QED
  BY <1>1, <1>2
-----------------------------------------------------------------------------
(* Pushing a token *)

(* What cc_ssa_push_token does to the array and to the last window, as long*)
(* as the window's length does not wrap.                                   *)
cur == funcs[Len(funcs)]

WindowsInside == \A f \in 1 .. Len(funcs) : funcs[f].pos + funcs[f].len <= Len(toks)

(* cc_ssa_push_token adds one token at the end, leaves the others alone    *)
(* and lengthens the window of the last function, as long as the length    *)
(* has a value left.                                                       *)
LEMMA PushShape ==
  ASSUME toks \in Seq(Tokens), funcs \in Seq(Windows), funcs # << >>,
         NEW t \in Tokens, PushToken(t)
  PROVE  /\ toks' \in Seq(Tokens) /\ Len(toks') = Len(toks) + 1
         /\ \A p \in 1 .. Len(toks) : toks'[p] = toks[p]
         /\ toks'[Len(toks) + 1] = t
         /\ funcs' \in Seq(Windows) /\ Len(funcs') = Len(funcs)
         /\ \A f \in 1 .. Len(funcs) :
              /\ funcs'[f].pos = funcs[f].pos
              /\ f # Len(funcs) => funcs'[f] = funcs[f]
         /\ cur.len + 1 < LenMod => funcs'[Len(funcs)].len = cur.len + 1
<1>1. /\ toks' \in Seq(Tokens) /\ Len(toks') = Len(toks) + 1
      /\ \A p \in 1 .. Len(toks) : toks'[p] = toks[p]
      /\ toks'[Len(toks) + 1] = t
  BY AppendProperties DEF PushToken
<1> DEFINE n == Len(funcs)
           w == [funcs[n] EXCEPT !.len = (@ + 1) % LenMod]
<1>2. n \in 1 .. n
  BY EmptySeq
<1>3. funcs[n] \in Windows
  BY <1>2, ElementOfSeq
<1>4. /\ w \in Windows /\ w.pos = funcs[n].pos
      /\ funcs[n].len + 1 < LenMod => w.len = funcs[n].len + 1
  <2>1. funcs[n].len \in 0 .. LenMod - 1
    BY <1>3 DEF Windows
  <2>2. /\ (funcs[n].len + 1) % LenMod \in 0 .. LenMod - 1
        /\ funcs[n].len + 1 < LenMod => (funcs[n].len + 1) % LenMod = funcs[n].len + 1
    <3> DEFINE x == funcs[n].len + 1
    <3>1. x \in Nat /\ LenMod \in Nat \ {0}
      BY <2>1, ConstantTypes
    <3> HIDE DEF x
    <3>2. x % LenMod \in 0 .. LenMod - 1 /\ (x < LenMod => x % LenMod = x)
      BY <3>1
    <3>3. QED
      BY <3>2 DEF x
  <2>3. /\ w.len = (funcs[n].len + 1) % LenMod
        /\ w = [pos |-> funcs[n].pos, len |-> w.len]
    BY <1>3 DEF Windows
  <2>4. QED
    BY <1>3, <2>2, <2>3 DEF Windows
<1>5. funcs' = [funcs EXCEPT ![n] = w]
  BY DEF PushToken
<1> HIDE DEF w
<1>6. /\ funcs' \in Seq(Windows) /\ Len(funcs') = n
      /\ \A f \in 1 .. n : funcs'[f] = IF f = n THEN w ELSE funcs[f]
  BY <1>2, <1>4, <1>5, ExceptSeq
<1>7. QED
  BY <1>1, <1>2, <1>4, <1>6 DEF cur

-----------------------------------------------------------------------------
(* Type correctness *)

(* While the recursion is not at its end its innermost activation is a     *)
(* frame, and what its children returned are ids.                          *)
LEMMA TopType ==
  ASSUME EmitTypeOK, stack # << >>
  PROVE  /\ top \in Frames /\ Len(stack) \in 1 .. Len(stack)
         /\ Front(stack) \in Seq(Frames)
         /\ \A k \in 1 .. Len(top.done) : top.done[k] \in Ids
<1>1. stack \in Seq(Frames) /\ Len(stack) \in 1 .. Len(stack)
  BY EmptySeq DEF EmitTypeOK
<1>2. top \in Frames
  BY <1>1, ElementOfSeq DEF top
<1>3. top.done \in Seq(Ids)
  BY <1>2 DEF Frames
<1>4. \A k \in 1 .. Len(top.done) : top.done[k] \in Ids
  BY <1>3, ElementOfSeq
<1>5. QED
  BY <1>1, <1>2, <1>4, FrontType

(* The id counter stays within its bits, and the node count within its     *)
(* bound.                                                                  *)
LEMMA DrawIdType ==
  ASSUME EmitTypeOK, DrawId
  PROVE  nextId' \in Ids /\ nodes' \in 0 .. MaxNodes
  BY ConstantTypes DEF EmitTypeOK, DrawId, Ids

(* A token made of ids is a token, with zero in the operands that it has   *)
(* no use for.                                                             *)
LEMMA TokenType ==
  ASSUME NEW ty \in TokenTypes, NEW id \in Ids, NEW a \in Ids, NEW b \in Ids
  PROVE  [type |-> ty, res |-> id, args |-> Args(a, b)] \in Tokens
  BY ArgsType DEF Tokens

(* The null id is one of the values of an id's bits.                       *)
LEMMA NullIsId == ID_NULL \in Ids
  BY ConstantTypes DEF Ids

(* The emitter's state has its types before the first function.            *)
LEMMA EmitTypeInit == EmitInit => EmitTypeOK
<1>1. << >> \in Seq(Tokens) /\ << >> \in Seq(Windows) /\ << >> \in Seq(Frames)
  BY EmptySeq
<1>2. QED
  BY <1>1, ConstantTypes DEF EmitInit, EmitTypeOK, Phases, Ids

(* Each of the emitter's actions keeps every variable in its type.         *)
LEMMA EmitTypeStep == EmitTypeOK /\ EmitNext => EmitTypeOK'
<1> SUFFICES ASSUME EmitTypeOK, EmitNext PROVE EmitTypeOK'
  OBVIOUS
<1> USE NullIsId
<1>1. ASSUME NEW kind \in Bodies, FromAstVar(kind) PROVE EmitTypeOK'
  <2>1. [pos |-> Len(toks), len |-> 0] \in Windows
    BY ConstantTypes DEF EmitTypeOK, Windows
  <2>2. [kind |-> kind, res |-> FirstTemporal, done |-> << >>] \in Frames
    BY ConstantTypes, EmptySeq DEF Frames, Bodies, Ids
  <2>3. funcs' \in Seq(Windows) /\ funcs' # << >>
    BY <1>1, <2>1, AppendProperties DEF FromAstVar, EmitTypeOK
  <2>4. stack' \in Seq(Frames)
    BY <1>1, <2>2 DEF FromAstVar
  <2>5. nextId' \in Ids /\ nodes' \in 0 .. MaxNodes
    BY <1>1, ConstantTypes DEF FromAstVar, Ids
  <2>6. QED
    BY <1>1, <2>3, <2>4, <2>5 DEF FromAstVar, EmitTypeOK
<1>2. ASSUME NEW kind \in {"RETURN"} \cup Interior, Enter(kind) PROVE EmitTypeOK'
  <2>1. Frame(kind) \in Frames
    BY EmptySeq DEF Frame, Frames, EmitTypeOK
  <2>2. QED
    BY <1>2, <2>1, DrawIdType, AppendProperties DEF Enter, EmitTypeOK
<1>3. ASSUME NEW n \in 0 .. NParams - 1, RefVar(n) PROVE EmitTypeOK'
  <2> DEFINE t == [type |-> "IDENTITY", res |-> nextId, args |-> Args(ID_PARAM(n), ID_NULL)]
  <2>1. t \in Tokens
    BY TokenType, ParamIdType DEF EmitTypeOK, TokenTypes
  <2>2. PushToken(t) /\ funcs # << >>
    BY <1>3 DEF RefVar, EmitTypeOK
  <2> HIDE DEF t
  <2>3. toks' \in Seq(Tokens) /\ funcs' \in Seq(Windows) /\ Len(funcs') = Len(funcs)
    BY <2>1, <2>2, PushShape DEF EmitTypeOK
  <2>4. stack' \in Seq(Frames)
    BY <1>3, DeliverType DEF RefVar, Reply, EmitTypeOK
  <2>5. QED
    BY <1>3, <2>2, <2>3, <2>4, DrawIdType, EmptySeq DEF RefVar, EmitTypeOK
<1>4. CASE RefUnknown
  BY <1>4, DrawIdType DEF RefUnknown, EmitTypeOK, Phases
<1>5. ASSUME NEW kind \in Syntax, Tokenless(kind) PROVE EmitTypeOK'
  <2>1. stack' \in Seq(Frames)
    BY <1>5, DeliverType DEF Tokenless, Reply, EmitTypeOK
  <2>2. QED
    BY <1>5, <2>1, DrawIdType DEF Tokenless, EmitTypeOK
<1>6. CASE FinishBinop
  <2> DEFINE t == [type |-> top.kind, res |-> top.res, args |-> Args(top.done[1], top.done[2])]
  <2>1. stack # << >> /\ funcs # << >> /\ Len(top.done) = 2 /\ top.kind \in BinOps
    BY <1>6, BinOpsAssumption DEF FinishBinop, Complete, Arity, EmitTypeOK
  <2>2. top.res \in Ids /\ top.done[1] \in Ids /\ top.done[2] \in Ids
    BY <2>1, TopType DEF Frames
  <2>3. t \in Tokens
    BY <2>1, <2>2, TokenType DEF TokenTypes
  <2>4. PushToken(t) /\ stack' = Deliver(Front(stack), top.res)
    BY <1>6 DEF FinishBinop, Leave
  <2> HIDE DEF t
  <2>5. toks' \in Seq(Tokens) /\ funcs' \in Seq(Windows) /\ Len(funcs') = Len(funcs)
    BY <2>1, <2>3, <2>4, PushShape DEF EmitTypeOK
  <2>6. stack' \in Seq(Frames)
    BY <2>1, <2>2, <2>4, TopType, DeliverType
  <2>7. QED
    BY <1>6, <2>1, <2>5, <2>6, EmptySeq DEF FinishBinop, EmitTypeOK
<1>7. CASE FinishCond
  BY <1>7 DEF FinishCond, EmitTypeOK, Phases
<1>8. CASE FinishIf
  <2>1. stack' \in Seq(Frames) /\ stack # << >>
    BY <1>8, TopType, DeliverType DEF FinishIf, Complete, Leave
  <2>2. QED
    BY <1>8, <2>1 DEF FinishIf, EmitTypeOK
<1>9. CASE FinishReturn
  <2> DEFINE t == [type |-> "RETURN", res |-> top.res, args |-> Args(top.done[1], ID_NULL)]
  <2>1. stack # << >> /\ funcs # << >> /\ Len(top.done) = 1
    BY <1>9 DEF FinishReturn, Complete, Arity, EmitTypeOK
  <2>2. top.res \in Ids /\ top.done[1] \in Ids
    BY <2>1, TopType DEF Frames
  <2>3. t \in Tokens
    BY <2>1, <2>2, TokenType DEF TokenTypes
  <2>4. PushToken(t) /\ stack' = Deliver(Front(stack), top.res)
    BY <1>9 DEF FinishReturn, Leave
  <2> HIDE DEF t
  <2>5. toks' \in Seq(Tokens) /\ funcs' \in Seq(Windows) /\ Len(funcs') = Len(funcs)
    BY <2>1, <2>3, <2>4, PushShape DEF EmitTypeOK
  <2>6. stack' \in Seq(Frames)
    BY <2>1, <2>2, <2>4, TopType, DeliverType
  <2>7. QED
    BY <1>9, <2>1, <2>5, <2>6, EmptySeq DEF FinishReturn, EmitTypeOK
<1>10. CASE FinishBlock
  <2>1. stack' \in Seq(Frames) /\ stack # << >>
    BY <1>10, TopType, DeliverType DEF FinishBlock, Leave
  <2>2. QED
    BY <1>10, <2>1 DEF FinishBlock, EmitTypeOK
<1>11. CASE FromAstDone
  BY <1>11 DEF FromAstDone, EmitTypeOK, Phases
<1>12. CASE FromAstObject
  BY <1>12 DEF FromAstObject, EmitTypeOK, Phases
<1>13. QED
  BY <1>1, <1>2, <1>3, <1>4, <1>5, <1>6, <1>7, <1>8, <1>9, <1>10, <1>11,
     <1>12 DEF EmitNext

(* Every reachable state of the emitter is well typed.                     *)
THEOREM EmitTypeCorrect == EmitSpec => []EmitTypeOK
<1>1. EmitTypeOK /\ UNCHANGED emitVars => EmitTypeOK'
  BY DEF EmitTypeOK, emitVars
<1>2. QED
  BY <1>1, EmitTypeInit, EmitTypeStep, PTL DEF EmitSpec

-----------------------------------------------------------------------------
(* Definitions before uses *)

(* The strengthening.  Inside a function: the next id is fresh, because it *)
(* counts the nodes; an activation holds an id that no token defines yet   *)
(* and no other activation holds; what the children returned is defined.   *)
(* The token count lags the node count by the activations still open,      *)
(* which is why a window of MaxNodes tokens at most never wraps.           *)
DefinedNow(id) == id = ID_NULL \/ \E p \in Window(cur) : toks[p].res = id

FrameFresh(k) ==
  /\ FirstTemporal <= stack[k].res /\ stack[k].res < nextId
  /\ \A p \in Window(cur) : toks[p].res # stack[k].res
  /\ \A d \in 1 .. Len(stack[k].done) : DefinedNow(stack[k].done[d])

IdsFresh ==
  stack # << >> =>
    /\ nextId = FirstTemporal + nodes
    /\ cur.len + Len(stack) <= nodes
    /\ \A p \in Window(cur) : toks[p].res < nextId
    /\ \A k \in 1 .. Len(stack) : FrameFresh(k)
    /\ \A k, l \in 1 .. Len(stack) : stack[k].res = stack[l].res => k = l

NoStray == funcs = << >> => Len(toks) = 0

EmitInv ==
  /\ EmitTypeOK
  /\ WindowsInside /\ WindowsTile /\ NoStray
  /\ SingleAssignment /\ DefinedBeforeUse /\ IdsFresh

(* Facts about the window being filled.                                    *)
LEMMA CurrentWindow ==
  ASSUME EmitTypeOK, WindowsInside, WindowsTile, funcs # << >>
  PROVE  /\ Len(funcs) \in 1 .. Len(funcs) /\ Len(toks) \in Nat
         /\ cur.pos + cur.len = Len(toks)
         /\ \A f \in 1 .. Len(funcs) :
              /\ funcs[f].pos \in Nat /\ funcs[f].len \in Nat
              /\ Window(funcs[f]) \subseteq 1 .. Len(toks)
              /\ \A p \in Window(funcs[f]) : toks[p] \in Tokens
<1>1. Len(funcs) \in 1 .. Len(funcs) /\ Len(toks) \in Nat
  BY EmptySeq, LenProperties DEF EmitTypeOK
<1>2. ASSUME NEW f \in 1 .. Len(funcs)
      PROVE  funcs[f].pos \in Nat /\ funcs[f].len \in Nat
  <2>1. funcs[f] \in Windows
    BY ElementOfSeq DEF EmitTypeOK
  <2>2. QED
    BY <2>1, ConstantTypes DEF Windows
<1>3. ASSUME NEW f \in 1 .. Len(funcs)
      PROVE  Window(funcs[f]) \subseteq 1 .. Len(toks)
  <2>1. funcs[f].pos + funcs[f].len <= Len(toks)
    BY DEF WindowsInside
  <2>2. funcs[f].pos \in Nat /\ funcs[f].len \in Nat
    BY <1>2
  <2>3. QED
    BY <2>1, <2>2, <1>1 DEF Window
<1>4. \A f \in 1 .. Len(funcs) : \A p \in Window(funcs[f]) : toks[p] \in Tokens
  BY <1>3, ElementOfSeq DEF EmitTypeOK
<1>5. cur.pos + cur.len = Len(toks)
  BY <1>1 DEF WindowsTile, cur
<1>6. QED
  BY <1>1, <1>2, <1>3, <1>4, <1>5 DEF cur

(* The tokens of the window being filled have natural numbers for ids.     *)
LEMMA CurrentResult ==
  ASSUME EmitTypeOK, WindowsInside, WindowsTile, funcs # << >>, NEW p \in Window(cur)
  PROVE  toks[p] \in Tokens /\ toks[p].res \in Ids /\ toks[p].res \in Nat
<1>1. toks[p] \in Tokens
  BY CurrentWindow DEF cur
<1>2. toks[p].res \in Ids
  BY <1>1 DEF Tokens
<1>3. QED
  BY <1>1, <1>2, ConstantTypes DEF Ids

(* A window that is one longer has one position more.                      *)
LEMMA WindowGrows ==
  ASSUME NEW w, NEW v, w.pos \in Nat, w.len \in Nat, v.pos = w.pos, v.len = w.len + 1
  PROVE  Window(v) = Window(w) \cup {w.pos + w.len + 1}
<1> DEFINE a == w.pos
           l == w.len
<1>1. Window(w) = a + 1 .. a + l /\ Window(v) = a + 1 .. a + (l + 1)
  BY DEF Window
<1>2. a \in Nat /\ l \in Nat
  OBVIOUS
<1> HIDE DEF a, l
<1>3. a + 1 .. a + (l + 1) = (a + 1 .. a + l) \cup {a + l + 1}
  BY <1>2
<1>4. QED
  BY <1>1, <1>3 DEF a, l

(* Pushing a token with a new result and defined operands.                 *)
LEMMA PushKeeps ==
  ASSUME EmitTypeOK, WindowsInside, WindowsTile, SingleAssignment, DefinedBeforeUse,
         funcs # << >>, NEW t \in Tokens, PushToken(t),
         cur.len + 1 < LenMod, t.res >= FirstTemporal,
         \A p \in Window(cur) : toks[p].res # t.res,
         \A k \in Slots : t.args[k] \in ParamIds \/ DefinedNow(t.args[k])
  PROVE  /\ WindowsInside' /\ WindowsTile' /\ SingleAssignment' /\ DefinedBeforeUse'
         /\ cur'.len = cur.len + 1
         /\ Window(cur)' = Window(cur) \cup {Len(toks) + 1}
         /\ \A p \in Window(cur) : toks'[p] = toks[p]
         /\ toks'[Len(toks) + 1] = t
<1> DEFINE n == Len(funcs)
           e == Len(toks) + 1
<1>1. /\ toks' \in Seq(Tokens) /\ Len(toks') = e /\ toks'[e] = t
      /\ \A p \in 1 .. Len(toks) : toks'[p] = toks[p]
      /\ Len(funcs') = n
      /\ \A f \in 1 .. n : funcs'[f].pos = funcs[f].pos
      /\ \A f \in 1 .. n : f # n => funcs'[f] = funcs[f]
      /\ funcs'[n].len = funcs[n].len + 1
  BY PushShape DEF EmitTypeOK, cur
<1>2. /\ n \in 1 .. n /\ Len(toks) \in Nat
      /\ funcs[n].pos + funcs[n].len = Len(toks)
      /\ \A f \in 1 .. n :
           /\ funcs[f].pos \in Nat /\ funcs[f].len \in Nat
           /\ Window(funcs[f]) \subseteq 1 .. Len(toks)
           /\ \A p \in Window(funcs[f]) : toks[p] \in Tokens
  BY CurrentWindow DEF cur
<1>3. Window(funcs'[n]) = Window(funcs[n]) \cup {e}
  <2>1. /\ funcs'[n].pos = funcs[n].pos /\ funcs'[n].len = funcs[n].len + 1
        /\ funcs[n].pos \in Nat /\ funcs[n].len \in Nat
        /\ e = funcs[n].pos + funcs[n].len + 1
    BY <1>1, <1>2
  <2>2. QED
    BY <2>1, WindowGrows
<1>4. \A f \in 1 .. n : f # n => Window(funcs'[f]) = Window(funcs[f])
  BY <1>1
<1>5. ASSUME NEW f \in 1 .. n, NEW p \in Window(funcs[f])
      PROVE  toks'[p] = toks[p] /\ p \in 1 .. Len(toks) /\ p < e
  <2>1. p \in 1 .. Len(toks) /\ Len(toks) \in Nat
    BY <1>2
  <2>2. QED
    BY <2>1, <1>1
<1>6. WindowsInside'
  <2> SUFFICES ASSUME NEW f \in 1 .. n
               PROVE  funcs'[f].pos + funcs'[f].len <= e
    BY <1>1 DEF WindowsInside
  <2>1. CASE f = n
    BY <2>1, <1>1, <1>2
  <2>2. CASE f # n
    BY <2>2, <1>1, <1>2 DEF WindowsInside
  <2>3. QED
    BY <2>1, <2>2
<1>7. WindowsTile'
  <2>1. funcs'[1].pos = 0
    BY <1>1, <1>2 DEF WindowsTile
  <2>2. ASSUME NEW f \in 1 .. n
        PROVE  funcs'[f].pos + funcs'[f].len = IF f = n THEN e ELSE funcs'[f + 1].pos
    <3>1. CASE f = n
      BY <3>1, <1>1, <1>2
    <3>2. CASE f # n
      <4>1. f + 1 \in 1 .. n
        BY <3>2, <1>2
      <4>2. QED
        BY <3>2, <4>1, <1>1, <1>2 DEF WindowsTile
    <3>3. QED
      BY <3>1, <3>2
  <2>3. QED
    BY <2>1, <2>2, <1>1 DEF WindowsTile
<1>8. SingleAssignment'
  <2> SUFFICES ASSUME NEW f \in 1 .. n, NEW p \in Window(funcs'[f])
               PROVE  /\ toks'[p].res >= FirstTemporal
                      /\ \A q \in Window(funcs'[f]) : toks'[p].res = toks'[q].res => p = q
    BY <1>1 DEF SingleAssignment
  <2>1. CASE f # n
    BY <2>1, <1>4, <1>5 DEF SingleAssignment
  <2>2. CASE f = n
    <3>1. \A q \in Window(funcs[n]) :
            toks'[q] = toks[q] /\ toks[q].res # t.res /\ toks[q].res >= FirstTemporal
      BY <1>2, <1>5 DEF SingleAssignment, cur
    <3>2. Window(funcs'[f]) = Window(funcs[n]) \cup {e} /\ toks'[e].res = t.res
      BY <2>2, <1>1, <1>3
    <3>3. \A q, u \in Window(funcs[n]) : toks[q].res = toks[u].res => q = u
      BY <1>2 DEF SingleAssignment
    <3>4. QED
      BY <3>1, <3>2, <3>3
  <2>3. QED
    BY <2>1, <2>2
<1>9. DefinedBeforeUse'
  <2> SUFFICES ASSUME NEW f \in 1 .. n, NEW p \in Window(funcs'[f]), NEW k \in Slots
               PROVE  \/ toks'[p].args[k] = ID_NULL
                      \/ toks'[p].args[k] \in ParamIds
                      \/ \E q \in Window(funcs'[f]) : q < p /\ toks'[q].res = toks'[p].args[k]
    BY <1>1 DEF DefinedBeforeUse
  <2>1. CASE p \in Window(funcs[f])
    <3>1. Window(funcs[f]) \subseteq Window(funcs'[f])
      BY <1>3, <1>4
    <3>2. QED
      BY <2>1, <3>1, <1>5 DEF DefinedBeforeUse
  <2>2. CASE f = n /\ p = e
    BY <2>2, <1>1, <1>2, <1>3, <1>5 DEF DefinedNow, cur
  <2>3. QED
    BY <2>1, <2>2, <1>3, <1>4
<1>10. QED
  BY <1>1, <1>2, <1>3, <1>5, <1>6, <1>7, <1>8, <1>9 DEF cur

(* The end of a node: its caller receives an id that is null or defined.   *)
LEMMA ReplyKeepsFresh ==
  ASSUME EmitTypeOK, EmitTypeOK', WindowsInside, WindowsTile, IdsFresh, stack # << >>,
         NEW S \in Seq(Frames), NEW id \in Ids,
         Len(S) <= Len(stack), \A k \in 1 .. Len(S) : S[k] = stack[k],
         stack' = Deliver(S, id),
         Window(cur) \subseteq Window(cur)',
         \A p \in Window(cur) : toks'[p] = toks[p],
         \A p \in Window(cur)' \ Window(cur) :
           toks'[p].res < nextId' /\ \A k \in 1 .. Len(S) : toks'[p].res # S[k].res,
         DefinedNow(id)',
         nextId <= nextId', nextId' = FirstTemporal + nodes',
         cur'.len + Len(S) <= nodes'
  PROVE  IdsFresh'
<1>1. /\ Len(S) \in Nat /\ Len(stack') = Len(S)
      /\ \A k \in 1 .. Len(S) : stack'[k].res = S[k].res
      /\ \A k \in 1 .. Len(S) : k # Len(S) => stack'[k].done = S[k].done
      /\ \A k \in 1 .. Len(S) : k = Len(S) => stack'[k].done = Append(S[k].done, id)
  BY DeliverType, LenProperties
<1>2. /\ nextId \in Int /\ nextId' \in Int /\ Len(stack) \in Nat
      /\ \A k \in 1 .. Len(S) : k \in 1 .. Len(stack) /\ stack[k] \in Frames
  BY <1>1, LenProperties, ElementOfSeq DEF EmitTypeOK, Ids
<1>3. \A k \in 1 .. Len(S) : FrameFresh(k)
  BY <1>2 DEF IdsFresh
<1>4. ASSUME NEW x \in Ids, DefinedNow(x)
      PROVE  DefinedNow(x)'
  BY <1>4 DEF DefinedNow
<1>5. ASSUME NEW k \in 1 .. Len(S)
      PROVE  FrameFresh(k)'
  <2>1. stack'[k].res = stack[k].res /\ stack[k] \in Frames
    BY <1>1, <1>2
  <2>2. FirstTemporal <= stack'[k].res /\ stack'[k].res < nextId'
    BY <2>1, <1>2, <1>3, ConstantTypes, SMTT(30) DEF FrameFresh, Frames, Ids
  <2>3. \A p \in Window(cur)' : toks'[p].res # stack'[k].res
    BY <2>1, <1>3 DEF FrameFresh
  <2>4. ASSUME NEW d \in 1 .. Len(stack'[k].done)
        PROVE  DefinedNow(stack[k].done[d])'
    <3>1. stack[k].done \in Seq(Ids)
      BY <2>1 DEF Frames
    <3>2. CASE k # Len(S)
      <4>1. stack'[k].done = stack[k].done
        BY <3>2, <1>1
      <4>2. stack[k].done[d] \in Ids /\ DefinedNow(stack[k].done[d])
        BY <4>1, <3>1, <1>3, ElementOfSeq DEF FrameFresh
      <4>3. QED
        BY <4>1, <4>2, <1>4
    <3>3. CASE k = Len(S)
      <4>1. stack'[k].done = Append(stack[k].done, id)
        BY <3>3, <1>1
      <4>2. /\ Len(stack[k].done) \in Nat
            /\ Len(stack'[k].done) = Len(stack[k].done) + 1
            /\ \A i \in 1 .. Len(stack[k].done) : stack'[k].done[i] = stack[k].done[i]
            /\ stack'[k].done[Len(stack[k].done) + 1] = id
        BY <4>1, <3>1, AppendProperties, LenProperties
      <4>3. CASE d \in 1 .. Len(stack[k].done)
        <5>1. stack[k].done[d] \in Ids /\ DefinedNow(stack[k].done[d])
          BY <4>3, <3>1, <1>3, ElementOfSeq DEF FrameFresh
        <5>2. DefinedNow(stack[k].done[d])'
          <6> DEFINE x == stack[k].done[d]
          <6>1. DefinedNow(x) /\ x \in Ids /\ stack'[k].done[d] = x
            BY <5>1, <4>2, <4>3
          <6>2. QED
            BY <6>1, <1>4 DEF DefinedNow
        <5>3. QED
          BY <5>2
      <4>4. CASE d = Len(stack[k].done) + 1
        BY <4>2, <4>4
      <4>5. QED
        BY <4>2, <4>3, <4>4
    <3>4. QED
      BY <3>2, <3>3
  <2>5. QED
    BY <2>2, <2>3, <2>4 DEF FrameFresh
<1>6. ASSUME NEW k \in 1 .. Len(S), NEW l \in 1 .. Len(S), stack'[k].res = stack'[l].res
      PROVE  k = l
  <2>1. stack[k].res = stack[l].res /\ k \in 1 .. Len(stack) /\ l \in 1 .. Len(stack)
    BY <1>1, <1>2, <1>6
  <2>2. QED
    BY <2>1 DEF IdsFresh
<1>7. ASSUME NEW p \in Window(cur)'
      PROVE  toks'[p].res < nextId'
  <2>1. CASE p \notin Window(cur)
    BY <2>1
  <2>2. CASE p \in Window(cur)
    <3>1. toks[p].res < nextId /\ toks'[p] = toks[p]
      BY <2>2 DEF IdsFresh
    <3>2. toks[p].res \in Nat
      BY <2>2, CurrentResult DEF EmitTypeOK
    <3>3. QED
      BY <3>1, <3>2, <1>2
  <2>3. QED
    BY <2>1, <2>2
<1>8. QED
  BY <1>1, <1>5, <1>6, <1>7 DEF IdsFresh

(* In a function that fits, an id is drawn without wrapping.               *)
LEMMA DrawIdNoWrap ==
  ASSUME NodesFit, EmitTypeOK, DrawId, nextId = FirstTemporal + nodes
  PROVE  /\ nodes \in Nat /\ nodes' = nodes + 1 /\ nodes' <= MaxNodes
         /\ nextId' = nextId + 1
<1> DEFINE x == nextId + 1
<1>1. /\ nodes \in Nat /\ nodes' = nodes + 1 /\ nodes' <= MaxNodes
      /\ x \in Nat /\ x < IdMod
  BY ConstantTypes DEF EmitTypeOK, DrawId, NodesFit
<1>2. nextId' = x % IdMod
  BY DEF DrawId
<1> HIDE DEF x
<1>3. x % IdMod = x
  BY <1>1, ConstantTypes
<1>4. QED
  BY <1>1, <1>2, <1>3 DEF x

(* A step that leaves the tokens, the stack and the counters as they are.  *)
LEMMA SameState ==
  ASSUME EmitInv, EmitTypeOK', stack' = stack, nextId' = nextId, nodes' = nodes,
         funcs' = funcs, toks' = toks
  PROVE  EmitInv'
<1>1. cur' = cur /\ Window(cur)' = Window(cur)
  BY DEF cur, Window
<1>2. ASSUME NEW k PROVE FrameFresh(k)' <=> FrameFresh(k)
  BY <1>1 DEF FrameFresh, DefinedNow
<1>3. IdsFresh'
  BY <1>1, <1>2 DEF EmitInv, IdsFresh
<1>4. WindowsInside' /\ WindowsTile' /\ NoStray' /\ SingleAssignment' /\ DefinedBeforeUse'
  BY DEF EmitInv, WindowsInside, WindowsTile, NoStray, SingleAssignment, DefinedBeforeUse
<1>5. QED
  BY <1>3, <1>4 DEF EmitInv

(* A node is entered: the activation that is pushed holds the id drawn.    *)
LEMMA EnterKeepsFresh ==
  ASSUME NodesFit, EmitInv, NEW kind, Enter(kind)
  PROVE  IdsFresh'
<1>1. /\ stack \in Seq(Frames) /\ stack # << >> /\ Len(stack) \in Nat
      /\ nodes \in Nat /\ nodes' = nodes + 1 /\ nodes' <= MaxNodes
      /\ nextId = FirstTemporal + nodes
      /\ cur.len \in Nat /\ cur.len + Len(stack) <= nodes
  BY CurrentWindow, LenProperties, ConstantTypes
  DEF EmitInv, EmitTypeOK, IdsFresh, Enter, DrawId, cur
<1>2. nextId' = nextId + 1 /\ nextId \in Nat
  BY <1>1, DrawIdNoWrap, ConstantTypes DEF EmitInv, Enter
<1> DEFINE fr == Frame(kind)
<1>3. fr.res = nextId /\ fr.done = << >>
  BY DEF Frame
<1>4. stack' = Append(stack, fr) /\ toks' = toks /\ funcs' = funcs
  BY DEF Enter
<1> HIDE DEF fr
<1>5. /\ Len(stack') = Len(stack) + 1
      /\ \A k \in 1 .. Len(stack) : stack'[k] = stack[k]
      /\ stack'[Len(stack) + 1] = fr
  BY <1>1, <1>4
<1>6. ASSUME NEW k \in 1 .. Len(stack)
      PROVE  FrameFresh(k) /\ stack[k].res \in Nat
  <2>1. stack[k] \in Frames
    BY <1>1, ElementOfSeq
  <2>2. stack[k].res \in Nat
    BY <2>1, ConstantTypes DEF Frames, Ids
  <2>3. QED
    BY <1>1, <2>2 DEF EmitInv, IdsFresh
<1>6a. ASSUME NEW p \in Window(cur)
      PROVE  toks[p].res \in Nat /\ toks[p].res < nextId
  <2>1. funcs # << >> /\ EmitTypeOK /\ WindowsInside /\ WindowsTile /\ IdsFresh
    BY <1>1 DEF EmitInv, EmitTypeOK
  <2>2. QED
    BY <2>1, <1>1, CurrentResult DEF IdsFresh
<1>7. ASSUME NEW k \in 1 .. Len(stack')
      PROVE  FrameFresh(k)'
  <2>1. CASE k \in 1 .. Len(stack)
    <3>1. FrameFresh(k) /\ stack'[k] = stack[k] /\ stack[k].res \in Nat
      BY <2>1, <1>5, <1>6
    <3>2. stack[k].res < nextId'
      BY <3>1, <1>2 DEF FrameFresh
    <3>3. QED
      BY <3>1, <3>2, <1>4 DEF FrameFresh, DefinedNow, cur
  <2>2. CASE k = Len(stack) + 1
    <3>1. \A p \in Window(cur) : toks[p].res # nextId
      BY <1>2, <1>6a
    <3>2. Len(stack'[k].done) = 0 /\ stack'[k].res = nextId
      BY <2>2, <1>3, <1>5, EmptySeq
    <3>3. QED
      BY <3>1, <3>2, <1>1, <1>2, <1>4, ConstantTypes DEF FrameFresh, cur
  <2>3. QED
    BY <2>1, <2>2, <1>1, <1>5
<1>8. ASSUME NEW k \in 1 .. Len(stack'), NEW l \in 1 .. Len(stack'),
             stack'[k].res = stack'[l].res
      PROVE  k = l
  <2>1. \A m \in 1 .. Len(stack) : stack[m].res \in Nat /\ stack[m].res < nextId
    BY <1>6 DEF FrameFresh
  <2>2. CASE k \in 1 .. Len(stack) /\ l \in 1 .. Len(stack)
    BY <2>2, <1>1, <1>5, <1>8 DEF EmitInv, IdsFresh
  <2>3. CASE k = Len(stack) + 1 /\ l \in 1 .. Len(stack)
    BY <2>3, <2>1, <1>2, <1>3, <1>5, <1>8
  <2>4. CASE l = Len(stack) + 1 /\ k \in 1 .. Len(stack)
    BY <2>4, <2>1, <1>2, <1>3, <1>5, <1>8
  <2>5. CASE k = Len(stack) + 1 /\ l = Len(stack) + 1
    BY <2>5
  <2>6. QED
    BY <2>2, <2>3, <2>4, <2>5, <1>1, <1>5
<1>10. cur' = cur /\ nextId' = FirstTemporal + nodes' /\ cur.len + Len(stack') <= nodes'
  BY <1>1, <1>2, <1>4, <1>5, ConstantTypes DEF cur
<1>11. \A p \in Window(cur) : toks[p].res < nextId + 1
  BY <1>2, <1>6a
<1>12. QED
  BY <1>2, <1>4, <1>7, <1>8, <1>10, <1>11 DEF IdsFresh

(* A function is opened: its window is empty and starts at the array's end.*)
LEMMA FromAstVarKeeps ==
  ASSUME NodesFit, EmitInv, NEW kind, FromAstVar(kind)
  PROVE  /\ WindowsInside' /\ WindowsTile' /\ SingleAssignment'
         /\ DefinedBeforeUse' /\ IdsFresh'
<1> DEFINE n == Len(funcs)
           w == [pos |-> Len(toks), len |-> 0]
<1>1. /\ n \in Nat /\ Len(toks) \in Nat /\ w \in Windows
      /\ funcs' = Append(funcs, w) /\ toks' = toks
  BY LenProperties, ConstantTypes DEF EmitInv, EmitTypeOK, FromAstVar, Windows
<1>2. /\ Len(funcs') = n + 1 /\ funcs'[n + 1] = w
      /\ \A f \in 1 .. n : funcs'[f] = funcs[f]
  BY <1>1, AppendProperties DEF EmitInv, EmitTypeOK
<1>3. Window(w) = {} /\ w.pos = Len(toks) /\ w.len = 0
  BY <1>1 DEF Window
<1> HIDE DEF w
<1>4. /\ \A f \in 1 .. n : funcs[f].pos + funcs[f].len <= Len(toks)
      /\ n > 0 => funcs[n].pos + funcs[n].len = Len(toks) /\ funcs[1].pos = 0
      /\ n = 0 => Len(toks) = 0
  <2>1. CASE n = 0
    <3>1. funcs = << >>
      BY <2>1, EmptySeq DEF EmitInv, EmitTypeOK
    <3>2. QED
      BY <2>1, <3>1 DEF EmitInv, NoStray
  <2>2. CASE n > 0
    <3>1. funcs # << >> /\ n \in 1 .. n
      BY <2>2, <1>1, EmptySeq
    <3>2. QED
      BY <2>2, <3>1 DEF EmitInv, WindowsInside, WindowsTile
  <2>3. QED
    BY <2>1, <2>2, <1>1
<1>5. WindowsInside'
  BY <1>1, <1>2, <1>3, <1>4 DEF WindowsInside
<1>6. WindowsTile'
  <2>1. funcs'[1].pos = 0
    BY <1>1, <1>2, <1>3, <1>4
  <2>2. ASSUME NEW f \in 1 .. n + 1
        PROVE  funcs'[f].pos + funcs'[f].len =
                 IF f = n + 1 THEN Len(toks) ELSE funcs'[f + 1].pos
    <3>1. CASE f = n + 1
      BY <3>1, <1>1, <1>2, <1>3
    <3>2. CASE f = n
      BY <3>2, <1>1, <1>2, <1>3, <1>4
    <3>3. CASE f \in 1 .. n - 1
      BY <3>3, <1>1, <1>2 DEF EmitInv, WindowsTile
    <3>4. QED
      BY <3>1, <3>2, <3>3, <1>1
  <2>3. QED
    BY <2>1, <2>2, <1>1, <1>2 DEF WindowsTile
<1>7. \A f \in 1 .. n + 1 : f = n + 1 \/ f \in 1 .. n
  BY <1>1
<1>8. SingleAssignment'
  BY <1>1, <1>2, <1>3, <1>7 DEF EmitInv, SingleAssignment
<1>9. DefinedBeforeUse'
  BY <1>1, <1>2, <1>3, <1>7 DEF EmitInv, DefinedBeforeUse
<1>10. IdsFresh'
  <2> DEFINE fr == [kind |-> kind, res |-> FirstTemporal, done |-> << >>]
  <2>1. stack' = << fr >> /\ nodes' = 1 /\ nextId' = FirstTemporal + 1
    <3> DEFINE x == FirstTemporal + 1
    <3>1. x \in Nat /\ x < IdMod /\ nextId' = x % IdMod
      BY ConstantTypes DEF FromAstVar, NodesFit
    <3> HIDE DEF x
    <3>2. x % IdMod = x
      BY <3>1, ConstantTypes
    <3>3. QED
      BY <3>1, <3>2 DEF FromAstVar, x
  <2>2. cur' = w
    BY <1>2 DEF cur
  <2>3. Len(stack') = 1 /\ stack'[1].res = FirstTemporal /\ Len(stack'[1].done) = 0
    BY <2>1, EmptySeq
  <2>4. FrameFresh(1)'
    BY <2>1, <2>2, <2>3, <1>3, ConstantTypes DEF FrameFresh
  <2>5. QED
    BY <2>1, <2>2, <2>3, <2>4, <1>3 DEF IdsFresh
<1>11. QED
  BY <1>5, <1>6, <1>8, <1>9, <1>10

(* The emitter's invariant holds before the first function.                *)
LEMMA EmitInvInit == EmitInit => EmitInv
<1> SUFFICES ASSUME EmitInit PROVE EmitInv
  OBVIOUS
<1>1. EmitTypeOK
  BY EmitTypeInit
<1>2. funcs = << >> /\ toks = << >> /\ stack = << >> /\ Len(funcs) = 0 /\ Len(toks) = 0
  BY EmptySeq DEF EmitInit
<1>3. QED
  BY <1>1, <1>2
  DEF EmitInv, WindowsInside, WindowsTile, NoStray, SingleAssignment, DefinedBeforeUse, IdsFresh

(* A token is pushed for a node that ends; S is the stack its caller heads.*)
LEMMA PushStep ==
  ASSUME NodesFit, EmitInv, EmitTypeOK', stack # << >>,
         NEW t \in Tokens, PushToken(t),
         NEW S \in Seq(Frames), Len(S) <= Len(stack),
         \A k \in 1 .. Len(S) : S[k] = stack[k] /\ S[k].res # t.res,
         stack' = Deliver(S, t.res),
         FirstTemporal <= t.res, t.res < nextId',
         \A p \in Window(cur) : toks[p].res # t.res,
         \A k \in Slots : t.args[k] \in ParamIds \/ DefinedNow(t.args[k]),
         nextId <= nextId', nextId' = FirstTemporal + nodes', nodes' <= MaxNodes,
         cur.len + 1 + Len(S) <= nodes'
  PROVE  EmitInv'
<1>1. funcs # << >> /\ EmitTypeOK /\ WindowsInside /\ WindowsTile /\ IdsFresh
  BY DEF EmitInv, EmitTypeOK
<1>2. cur.len \in Nat /\ Len(S) \in Nat /\ nodes' \in Nat /\ t.res \in Ids /\ t.res \in Int
  BY <1>1, CurrentWindow, LenProperties, ConstantTypes DEF cur, EmitTypeOK, Tokens, Ids
<1>3. cur.len + 1 < LenMod
  BY <1>2, ConstantTypes DEF NodesFit
<1>4. /\ WindowsInside' /\ WindowsTile' /\ SingleAssignment' /\ DefinedBeforeUse'
      /\ Window(cur)' = Window(cur) \cup {Len(toks) + 1}
      /\ toks'[Len(toks) + 1] = t /\ cur'.len = cur.len + 1
      /\ \A p \in Window(cur) : toks'[p] = toks[p]
  BY <1>1, <1>2, <1>3, PushKeeps DEF EmitInv
<1>5. NoStray'
  <2>1. Len(funcs') = Len(funcs) /\ Len(funcs) # 0 /\ funcs' \in Seq(Windows)
    BY <1>1, PushShape, EmptySeq DEF EmitTypeOK
  <2>2. QED
    BY <2>1, EmptySeq DEF NoStray
<1>6. DefinedNow(t.res)'
  BY <1>4 DEF DefinedNow
<1>7. \A p \in Window(cur)' \ Window(cur) :
        toks'[p].res < nextId' /\ \A k \in 1 .. Len(S) : toks'[p].res # S[k].res
  BY <1>4
<1>8. cur'.len + Len(S) <= nodes'
  BY <1>2, <1>4
<1>9. IdsFresh'
  <2> DEFINE id == t.res
  <2>1. id \in Ids /\ stack' = Deliver(S, id) /\ DefinedNow(id)'
    BY <1>2, <1>6
  <2>2. \A k \in 1 .. Len(S) : S[k] = stack[k]
    OBVIOUS
  <2>3. Window(cur) \subseteq Window(cur)'
    BY <1>4
  <2> HIDE DEF id
  <2>4. QED
    BY <1>1, <1>4, <1>7, <1>8, <2>1, <2>2, <2>3, ReplyKeepsFresh
<1>10. QED
  BY <1>4, <1>5, <1>9 DEF EmitInv

(* A node that leaves no token ends: its caller receives the null id.      *)
LEMMA QuietStep ==
  ASSUME NodesFit, EmitInv, EmitTypeOK', stack # << >>,
         toks' = toks, funcs' = funcs,
         NEW S \in Seq(Frames), Len(S) <= Len(stack),
         \A k \in 1 .. Len(S) : S[k] = stack[k],
         stack' = Deliver(S, ID_NULL),
         nextId <= nextId', nextId' = FirstTemporal + nodes',
         cur.len + Len(S) <= nodes'
  PROVE  EmitInv'
<1>1. EmitTypeOK /\ WindowsInside /\ WindowsTile /\ IdsFresh
  BY DEF EmitInv
<1>2. cur' = cur /\ Window(cur)' = Window(cur)
  BY DEF cur, Window
<1>3. DefinedNow(ID_NULL)'
  BY DEF DefinedNow
<1>4. IdsFresh'
  <2> DEFINE id == ID_NULL
  <2>1. id \in Ids /\ stack' = Deliver(S, id) /\ DefinedNow(id)'
    BY <1>3, NullIsId
  <2> HIDE DEF id
  <2>2. QED
    BY <1>1, <1>2, <2>1, ReplyKeepsFresh
<1>5. WindowsInside' /\ WindowsTile' /\ NoStray' /\ SingleAssignment' /\ DefinedBeforeUse'
  BY DEF EmitInv, WindowsInside, WindowsTile, NoStray, SingleAssignment, DefinedBeforeUse
<1>6. QED
  BY <1>4, <1>5 DEF EmitInv

(* What the invariant says of the innermost activation.                    *)
LEMMA TopFacts ==
  ASSUME EmitInv, stack # << >>
  PROVE  /\ funcs # << >> /\ stack \in Seq(Frames) /\ top \in Frames
         /\ nextId = FirstTemporal + nodes /\ cur.len + Len(stack) <= nodes
         /\ nodes \in Nat /\ nodes <= MaxNodes /\ cur.len \in Nat /\ Len(stack) \in Nat
         /\ FirstTemporal <= top.res /\ top.res < nextId
         /\ top.res \in Ids /\ top.res \in Int
         /\ \A p \in Window(cur) : toks[p].res # top.res
         /\ \A k \in 1 .. Len(top.done) : DefinedNow(top.done[k]) /\ top.done[k] \in Ids
         /\ Front(stack) \in Seq(Frames) /\ Len(Front(stack)) = Len(stack) - 1
         /\ \A k \in 1 .. Len(Front(stack)) :
              Front(stack)[k] = stack[k] /\ Front(stack)[k].res # top.res
<1>1. /\ EmitTypeOK /\ WindowsInside /\ WindowsTile /\ IdsFresh
      /\ funcs # << >> /\ stack \in Seq(Frames) /\ nodes \in Nat /\ nodes <= MaxNodes
  BY ConstantTypes DEF EmitInv, EmitTypeOK
<1>2. /\ top \in Frames /\ Len(stack) \in 1 .. Len(stack) /\ Front(stack) \in Seq(Frames)
      /\ \A k \in 1 .. Len(top.done) : top.done[k] \in Ids
  BY <1>1, TopType
<1>3. /\ Len(stack) \in Nat /\ Len(Front(stack)) = Len(stack) - 1
      /\ \A k \in 1 .. Len(Front(stack)) : Front(stack)[k] = stack[k]
  BY <1>1, FrontType, LenProperties
<1>4. cur.len \in Nat
  BY <1>1, CurrentWindow DEF cur
<1>5. FrameFresh(Len(stack))
  BY <1>1, <1>2 DEF IdsFresh
<1>6. \A k \in 1 .. Len(Front(stack)) : Front(stack)[k].res # top.res
  <2> SUFFICES ASSUME NEW k \in 1 .. Len(Front(stack)), stack[k].res = top.res
               PROVE  FALSE
    BY <1>3
  <2>1. k \in 1 .. Len(stack) /\ k # Len(stack)
    BY <1>3
  <2>2. QED
    BY <2>1, <1>1, <1>2 DEF IdsFresh, top
<1>7. top.res \in Ids /\ top.res \in Int
  BY <1>2, ConstantTypes DEF Frames, Ids
<1>8. nextId = FirstTemporal + nodes /\ cur.len + Len(stack) <= nodes
  BY <1>1 DEF IdsFresh
<1>9. /\ FirstTemporal <= top.res /\ top.res < nextId
      /\ \A p \in Window(cur) : toks[p].res # top.res
      /\ \A k \in 1 .. Len(top.done) : DefinedNow(top.done[k])
  BY <1>5 DEF FrameFresh, top
<1>10. QED
  BY <1>1, <1>2, <1>3, <1>4, <1>6, <1>7, <1>8, <1>9

(* When the topmost activation leaves, there is room for its token.        *)
LEMMA TopCounts ==
  ASSUME EmitInv, stack # << >>
  PROVE  /\ nextId \in Int /\ cur.len + 1 + Len(Front(stack)) <= nodes
         /\ cur.len + Len(Front(stack)) <= nodes /\ Len(Front(stack)) <= Len(stack)
<1> DEFINE l == Len(stack)
           m == Len(Front(stack))
           c == cur.len
<1>1. /\ l \in Nat /\ m = l - 1 /\ c \in Nat /\ nodes \in Nat /\ c + l <= nodes
      /\ nextId = FirstTemporal + nodes
  BY TopFacts
<1> HIDE DEF l, m, c
<1>2. /\ nextId \in Int /\ c + 1 + m <= nodes /\ c + m <= nodes /\ m <= l
  BY <1>1, ConstantTypes
<1>3. QED
  BY <1>2 DEF l, m, c

(* Each of the emitter's actions preserves the strengthened invariant.     *)
LEMMA EmitInvStep == NodesFit /\ EmitInv /\ EmitNext => EmitInv'
<1> SUFFICES ASSUME NodesFit, EmitInv, EmitNext PROVE EmitInv'
  OBVIOUS
<1> USE NullIsId
<1>t. EmitTypeOK /\ EmitTypeOK'
  BY EmitTypeStep DEF EmitInv
<1>1. ASSUME NEW kind \in Bodies, FromAstVar(kind) PROVE EmitInv'
  <2>1. NoStray'
    <3>1. /\ funcs \in Seq(Windows) /\ [pos |-> Len(toks), len |-> 0] \in Windows
          /\ funcs' = Append(funcs, [pos |-> Len(toks), len |-> 0])
      BY <1>1, <1>t, ConstantTypes, LenProperties DEF FromAstVar, EmitTypeOK, Windows
    <3>2. QED
      BY <3>1, AppendProperties DEF NoStray
  <2>2. QED
    BY <1>1, <1>t, <2>1, FromAstVarKeeps DEF EmitInv
<1>2. ASSUME NEW kind \in {"RETURN"} \cup Interior, Enter(kind) PROVE EmitInv'
  <2>1. toks' = toks /\ funcs' = funcs
    BY <1>2 DEF Enter
  <2>2. WindowsInside' /\ WindowsTile' /\ NoStray' /\ SingleAssignment' /\ DefinedBeforeUse'
    BY <2>1 DEF EmitInv, WindowsInside, WindowsTile, NoStray, SingleAssignment, DefinedBeforeUse
  <2>3. QED
    BY <1>2, <1>t, <2>2, EnterKeepsFresh DEF EmitInv
<1>3. ASSUME NEW n \in 0 .. NParams - 1, RefVar(n) PROVE EmitInv'
  <2> DEFINE t == [type |-> "IDENTITY", res |-> nextId, args |-> Args(ID_PARAM(n), ID_NULL)]
  <2>1. stack # << >> /\ DrawId /\ PushToken(t) /\ stack' = Deliver(stack, nextId)
    BY <1>3 DEF RefVar, Reply
  <2>2. t \in Tokens /\ t.res = nextId /\ \A k \in Slots : t.args[k] \in ParamIds \/ t.args[k] = ID_NULL
    <3>1. ID_PARAM(n) \in Ids /\ ID_PARAM(n) \in ParamIds /\ nextId \in Ids
      BY <1>t, ParamIdType DEF EmitTypeOK
    <3>2. QED
      BY <3>1, TokenType, ArgsType DEF TokenTypes
  <2> HIDE DEF t
  <2>3. /\ nextId' = nextId + 1 /\ nodes' = nodes + 1 /\ nodes' <= MaxNodes
        /\ nextId = FirstTemporal + nodes /\ nodes \in Nat /\ nextId \in Nat
        /\ cur.len + Len(stack) <= nodes /\ cur.len \in Nat /\ Len(stack) \in Nat
        /\ stack \in Seq(Frames)
    BY <2>1, <1>t, TopFacts, DrawIdNoWrap, ConstantTypes
  <2>4. /\ FirstTemporal <= t.res /\ t.res < nextId' /\ nextId <= nextId'
        /\ nextId' = FirstTemporal + nodes' /\ cur.len + 1 + Len(stack) <= nodes'
    BY <2>2, <2>3, ConstantTypes
  <2>5. \A p \in Window(cur) : toks[p].res # t.res
    BY <2>1, <2>2, <2>3 DEF EmitInv, IdsFresh
  <2>6. \A k \in 1 .. Len(stack) : stack[k].res # t.res
    BY <2>1, <2>2, <2>3 DEF EmitInv, IdsFresh, FrameFresh
  <2>7. \A k \in Slots : t.args[k] \in ParamIds \/ DefinedNow(t.args[k])
    BY <2>2 DEF DefinedNow
  <2>8. stack' = Deliver(stack, t.res) /\ t \in Tokens /\ PushToken(t) /\ stack # << >>
    BY <2>1, <2>2
  <2>9. stack \in Seq(Frames) /\ Len(stack) <= Len(stack)
        /\ \A k \in 1 .. Len(stack) : stack[k] = stack[k] /\ stack[k].res # t.res
    BY <2>3, <2>6
  <2>10. QED
    BY <1>t, <2>3, <2>4, <2>5, <2>7, <2>8, <2>9, PushStep
<1>4. CASE RefUnknown
  <2>1. /\ toks' = toks /\ funcs' = funcs /\ stack' = stack /\ DrawId /\ stack # << >>
    BY <1>4 DEF RefUnknown
  <2>2. /\ nextId' = nextId + 1 /\ nodes' = nodes + 1
        /\ nextId = FirstTemporal + nodes /\ nodes \in Nat /\ nextId \in Int
        /\ cur.len + Len(stack) <= nodes /\ cur.len \in Nat /\ Len(stack) \in Nat
    BY <2>1, <1>t, TopFacts, DrawIdNoWrap, ConstantTypes
  <2>3. /\ WindowsInside' /\ WindowsTile' /\ NoStray' /\ SingleAssignment' /\ DefinedBeforeUse'
    BY <2>1 DEF EmitInv, WindowsInside, WindowsTile, NoStray, SingleAssignment, DefinedBeforeUse
  <2>4. \A x \in Int : x < nextId => x < nextId'
    BY <2>2
  <2>5. /\ \A p \in Window(cur) : toks[p].res \in Int
        /\ \A k \in 1 .. Len(stack) : stack[k].res \in Int
    <3>1. \A p \in Window(cur) : toks[p].res \in Int
      BY <2>1, <1>t, CurrentWindow DEF EmitInv, EmitTypeOK, cur, Tokens, Ids
    <3>2. ASSUME NEW k \in 1 .. Len(stack) PROVE stack[k].res \in Int
      <4>1. stack[k] \in Frames
        BY <1>t, ElementOfSeq DEF EmitTypeOK
      <4>2. QED
        BY <4>1, ConstantTypes DEF Frames, Ids
    <3>3. QED
      BY <3>1, <3>2
  <2>6. /\ nextId' = FirstTemporal + nodes' /\ cur.len + Len(stack) <= nodes'
    BY <2>2, ConstantTypes
  <2>7. IdsFresh'
    BY <2>1, <2>4, <2>5, <2>6 DEF EmitInv, IdsFresh, FrameFresh, DefinedNow, cur
  <2>8. QED
    BY <1>t, <2>3, <2>7 DEF EmitInv
<1>5. ASSUME NEW kind \in Syntax, Tokenless(kind) PROVE EmitInv'
  <2>1. /\ toks' = toks /\ funcs' = funcs /\ stack' = Deliver(stack, ID_NULL)
        /\ DrawId /\ stack # << >>
    BY <1>5 DEF Tokenless, Reply
  <2>2. /\ nextId' = nextId + 1 /\ nodes' = nodes + 1 /\ nextId = FirstTemporal + nodes
        /\ nodes \in Nat /\ cur.len + Len(stack) <= nodes /\ cur.len \in Nat
        /\ Len(stack) \in Nat /\ nextId \in Int /\ stack \in Seq(Frames)
    BY <2>1, <1>t, TopFacts, DrawIdNoWrap, ConstantTypes
  <2>3. /\ nextId <= nextId' /\ nextId' = FirstTemporal + nodes'
        /\ cur.len + Len(stack) <= nodes'
    BY <2>2, ConstantTypes
  <2>4. QED
    BY <1>t, <2>1, <2>2, <2>3, QuietStep
<1>6. CASE FinishBinop
  <2> DEFINE t == [type |-> top.kind, res |-> top.res, args |-> Args(top.done[1], top.done[2])]
  <2>1. /\ stack # << >> /\ Len(top.done) = 2 /\ top.kind \in BinOps /\ PushToken(t)
        /\ stack' = Deliver(Front(stack), top.res) /\ nextId' = nextId /\ nodes' = nodes
    BY <1>6, BinOpsAssumption DEF FinishBinop, Complete, Arity, Leave
  <2>2. /\ top.done[1] \in Ids /\ top.done[2] \in Ids /\ top.res \in Ids
        /\ DefinedNow(top.done[1]) /\ DefinedNow(top.done[2])
    BY <2>1, TopFacts
  <2>a. /\ Args(top.done[1], top.done[2]) \in [Slots -> Ids]
        /\ \A k \in Slots : Args(top.done[1], top.done[2])[k]
                              \in {top.done[1], top.done[2], ID_NULL}
    BY <2>2, ArgsType
  <2>b. t \in Tokens /\ t.res = top.res /\ t.args = Args(top.done[1], top.done[2])
    BY <2>1, <2>2, TokenType DEF TokenTypes
  <2>c. DefinedNow(ID_NULL)
    BY DEF DefinedNow
  <2>3. t \in Tokens /\ t.res = top.res /\ \A k \in Slots : DefinedNow(t.args[k])
    BY <2>2, <2>a, <2>b, <2>c
  <2> HIDE DEF t
  <2>4. /\ nextId \in Int /\ cur.len + 1 + Len(Front(stack)) <= nodes'
        /\ Len(Front(stack)) <= Len(stack)
    BY <2>1, TopCounts
  <2>5. /\ Front(stack) \in Seq(Frames)
        /\ \A k \in 1 .. Len(Front(stack)) :
             Front(stack)[k] = stack[k] /\ Front(stack)[k].res # t.res
        /\ stack' = Deliver(Front(stack), t.res)
        /\ FirstTemporal <= t.res /\ t.res < nextId'
        /\ \A p \in Window(cur) : toks[p].res # t.res
        /\ nextId' = FirstTemporal + nodes' /\ nodes' <= MaxNodes
    BY <2>1, <2>3, TopFacts
  <2>6. QED
    BY <1>t, <2>1, <2>3, <2>4, <2>5, PushStep
<1>7. CASE FinishCond
  BY <1>7, <1>t, SameState DEF FinishCond
<1>8. CASE FinishIf
  <2>1. /\ toks' = toks /\ funcs' = funcs /\ stack' = Deliver(Front(stack), ID_NULL)
        /\ nextId' = nextId /\ nodes' = nodes /\ stack # << >>
    BY <1>8 DEF FinishIf, Complete, Leave
  <2>2. nextId \in Int /\ cur.len + Len(Front(stack)) <= nodes /\ Len(Front(stack)) <= Len(stack)
    BY <2>1, TopCounts
  <2>3. QED
    BY <1>t, <2>1, <2>2, TopFacts, QuietStep
<1>9. CASE FinishReturn
  <2> DEFINE t == [type |-> "RETURN", res |-> top.res, args |-> Args(top.done[1], ID_NULL)]
  <2>1. /\ stack # << >> /\ Len(top.done) = 1 /\ PushToken(t)
        /\ stack' = Deliver(Front(stack), top.res) /\ nextId' = nextId /\ nodes' = nodes
    BY <1>9 DEF FinishReturn, Complete, Arity, Leave
  <2>2. top.done[1] \in Ids /\ top.res \in Ids /\ DefinedNow(top.done[1])
    BY <2>1, TopFacts
  <2>3. t \in Tokens /\ t.res = top.res /\ \A k \in Slots : DefinedNow(t.args[k])
    BY <2>1, <2>2, TokenType, ArgsType DEF TokenTypes, DefinedNow
  <2> HIDE DEF t
  <2>4. /\ nextId \in Int /\ cur.len + 1 + Len(Front(stack)) <= nodes'
        /\ Len(Front(stack)) <= Len(stack)
    BY <2>1, TopCounts
  <2>5. /\ Front(stack) \in Seq(Frames)
        /\ \A k \in 1 .. Len(Front(stack)) :
             Front(stack)[k] = stack[k] /\ Front(stack)[k].res # t.res
        /\ stack' = Deliver(Front(stack), t.res)
        /\ FirstTemporal <= t.res /\ t.res < nextId'
        /\ \A p \in Window(cur) : toks[p].res # t.res
        /\ nextId' = FirstTemporal + nodes' /\ nodes' <= MaxNodes
    BY <2>1, <2>3, TopFacts
  <2>6. QED
    BY <1>t, <2>1, <2>3, <2>4, <2>5, PushStep
<1>10. CASE FinishBlock
  <2>1. /\ toks' = toks /\ funcs' = funcs /\ stack' = Deliver(Front(stack), ID_NULL)
        /\ nextId' = nextId /\ nodes' = nodes /\ stack # << >>
    BY <1>10 DEF FinishBlock, Leave
  <2>2. nextId \in Int /\ cur.len + Len(Front(stack)) <= nodes /\ Len(Front(stack)) <= Len(stack)
    BY <2>1, TopCounts
  <2>3. QED
    BY <1>t, <2>1, <2>2, TopFacts, QuietStep
<1>11. CASE FromAstDone
  BY <1>11, <1>t, SameState DEF FromAstDone
<1>12. CASE FromAstObject
  BY <1>12, <1>t, SameState DEF FromAstObject
<1>13. QED
  BY <1>1, <1>2, <1>3, <1>4, <1>5, <1>6, <1>7, <1>8, <1>9, <1>10, <1>11,
     <1>12 DEF EmitNext

(* A step that leaves the emitter's variables alone.                       *)
LEMMA EmitInvStutter ==
  ASSUME EmitInv, UNCHANGED emitVars
  PROVE  EmitInv'
<1>1. /\ phase' = phase /\ toks' = toks /\ funcs' = funcs /\ nextId' = nextId
      /\ nodes' = nodes /\ stack' = stack
  BY DEF emitVars
<1>2. EmitTypeOK'
  BY <1>1 DEF EmitInv, EmitTypeOK
<1>3. QED
  BY <1>1, <1>2, SameState

(* The emitter's invariant holds always, if no counter wraps.              *)
LEMMA EmitInvariant ==
  ASSUME NodesFit
  PROVE  EmitSpec => []EmitInv
<1>1. EmitInv /\ [EmitNext]_emitVars => EmitInv'
  BY EmitInvStutter, EmitInvStep
<1>2. QED
  BY <1>1, EmitInvInit, PTL DEF EmitSpec

(* Functions of at most MaxNodes nodes own disjoint stretches of the array *)
(* that cover it: cc_ssa_from_ast_var and cc_ssa_push_token.               *)
THEOREM EmitWindowsTile ==
  ASSUME NodesFit
  PROVE  EmitSpec => []WindowsTile
<1>1. EmitInv => WindowsTile
  BY DEF EmitInv
<1>2. QED
  BY <1>1, EmitInvariant, PTL

(* In such functions every id is assigned by one token at most, whatever   *)
(* the shape of the expressions.                                           *)
THEOREM EmitAssignsOnce ==
  ASSUME NodesFit
  PROVE  EmitSpec => []SingleAssignment
<1>1. EmitInv => SingleAssignment
  BY DEF EmitInv
<1>2. QED
  BY <1>1, EmitInvariant, PTL

(* In such functions no token reads an id before the token that defines it.*)
THEOREM EmitDefinesBeforeUse ==
  ASSUME NodesFit
  PROVE  EmitSpec => []DefinedBeforeUse
<1>1. EmitInv => DefinedBeforeUse
  BY DEF EmitInv
<1>2. QED
  BY <1>1, EmitInvariant, PTL

-----------------------------------------------------------------------------
(* What the tokens mean                                                    *)

(* Meanings are not typed: a term is whatever Apply makes of other terms.  *)
(* So of the histories only their shape is known.                          *)
IsSeq(s) == s \in Seq({s[i] : i \in DOMAIN s})

(* What a sequence of typed elements is, whatever the type.                *)
LEMMA SeqOfElements ==
  ASSUME NEW S, NEW s \in Seq(S)
  PROVE  IsSeq(s)
<1> DEFINE R == {s[i] : i \in DOMAIN s}
           n == Len(s)
<1>1. n \in Nat /\ s \in [1 .. n -> S] /\ DOMAIN s = 1 .. n
  BY LenProperties
<1>2. s \in [1 .. n -> R]
  BY <1>1
<1> HIDE DEF n, R
<1>3. s \in Seq(R)
  BY <1>1, <1>2, SeqDef
<1>4. QED
  BY <1>3 DEF IsSeq, R

(* Appending and replacing keep a sequence a sequence.                     *)
LEMMA SeqAppend ==
  ASSUME NEW s, IsSeq(s), NEW e
  PROVE  /\ IsSeq(Append(s, e)) /\ Len(Append(s, e)) = Len(s) + 1 /\ Len(s) \in Nat
         /\ \A i \in 1 .. Len(s) : Append(s, e)[i] = s[i]
         /\ Append(s, e)[Len(s) + 1] = e
<1> DEFINE S == {s[i] : i \in DOMAIN s} \cup {e}
<1>1. s \in Seq(S)
  BY SeqMonotonic DEF IsSeq
<1>2. e \in S
  OBVIOUS
<1> HIDE DEF S
<1>3. Append(s, e) \in Seq(S) /\ Len(s) \in Nat
  BY <1>1, <1>2, AppendProperties, LenProperties
<1>4. IsSeq(Append(s, e))
  BY <1>3, SeqOfElements
<1>5. QED
  BY <1>1, <1>2, <1>3, <1>4, AppendProperties

(* A function on 1 .. n is a sequence of n elements, without a set that    *)
(* they are from: terms are in no set.                                     *)
LEMMA SeqFunction ==
  ASSUME NEW n \in Nat, NEW u, u = [i \in 1 .. n |-> u[i]]
  PROVE  IsSeq(u) /\ Len(u) = n
<1> DEFINE R == {u[i] : i \in DOMAIN u}
<1>1. u \in [1 .. n -> R] /\ DOMAIN u = 1 .. n
  OBVIOUS
<1> HIDE DEF R
<1>2. u \in Seq(R)
  BY <1>1, SeqDef
<1>3. Len(u) = n
  BY <1>1, <1>2, LenProperties
<1>4. QED
  BY <1>2, <1>3 DEF IsSeq, R

(* Such a sequence is a function on the numbers up to its length.          *)
LEMMA SeqDomain ==
  ASSUME NEW s, IsSeq(s)
  PROVE  DOMAIN s = 1 .. Len(s) /\ Len(s) \in Nat /\ s = [i \in 1 .. Len(s) |-> s[i]]
<1> DEFINE S == {s[i] : i \in DOMAIN s}
<1>1. s \in Seq(S)
  BY DEF IsSeq
<1> HIDE DEF S
<1>2. QED
  BY <1>1, LenProperties

(* Its front drops the last element and keeps the others.                  *)
LEMMA SeqFront ==
  ASSUME NEW s, IsSeq(s), s # << >>
  PROVE  /\ IsSeq(Front(s)) /\ Len(Front(s)) = Len(s) - 1 /\ Len(s) \in Nat
         /\ \A i \in 1 .. Len(Front(s)) : Front(s)[i] = s[i]
<1> DEFINE S == {s[i] : i \in DOMAIN s}
<1>1. s \in Seq(S)
  BY DEF IsSeq
<1> HIDE DEF S
<1>2. QED
  BY <1>1, FrontType, SeqOfElements, LenProperties

(* The empty sequence is one of them.                                      *)
LEMMA SeqEmpty == IsSeq(<< >>) /\ Len(<< >>) = 0
  BY EmptySeq, SeqOfElements

(* What is not empty has a last element.                                   *)
LEMMA SeqNotEmpty ==
  ASSUME NEW s, IsSeq(s)
  PROVE  Len(s) \in Nat /\ (s # << >> <=> Len(s) \in 1 .. Len(s))
<1> DEFINE S == {s[i] : i \in DOMAIN s}
<1>1. s \in Seq(S)
  BY DEF IsSeq
<1> HIDE DEF S
<1>2. QED
  BY <1>1, EmptySeq, LenProperties

(* A term told to the innermost caller is appended to what it has heard.   *)
LEMMA HearShape ==
  ASSUME NEW h, IsSeq(h), \A k \in 1 .. Len(h) : IsSeq(h[k]), NEW term
  PROVE  /\ IsSeq(Hear(h, term)) /\ Len(Hear(h, term)) = Len(h)
         /\ \A k \in 1 .. Len(h) :
              /\ IsSeq(Hear(h, term)[k])
              /\ k # Len(h) => Hear(h, term)[k] = h[k]
              /\ k = Len(h) => Hear(h, term)[k] = Append(h[k], term)
<1>1. CASE h = << >>
  BY <1>1, SeqEmpty DEF Hear
<1>2. CASE h # << >>
  <2>1. Len(h) \in 1 .. Len(h)
    BY <1>2, SeqNotEmpty
  <2> DEFINE e == Append(h[Len(h)], term)
  <2>2. Hear(h, term) = [h EXCEPT ![Len(h)] = e] /\ IsSeq(e)
    BY <1>2, <2>1, SeqAppend DEF Hear
  <2>3. e = Append(h[Len(h)], term)
    OBVIOUS
  <2> HIDE DEF e
  <2> DEFINE n == Len(h)
             u == Hear(h, term)
  <2>4. n \in Nat /\ u = [k \in 1 .. n |-> IF k = n THEN e ELSE h[k]]
    BY <2>1, <2>2, SeqDomain
  <2>5. u = [k \in 1 .. n |-> u[k]]
    BY <2>4
  <2>6. IsSeq(u) /\ Len(u) = n
    <3> HIDE DEF n, u
    <3> QED BY <2>4, <2>5, SeqFunction
  <2>7. QED
    BY <2>2, <2>3, <2>4, <2>6
<1>3. QED
  BY <1>1, <1>2

-----------------------------------------------------------------------------
(* The strengthening: every id that a frame of the recursion has been given*)
(* stands for the term that its child reported, the parameters stand for   *)
(* themselves, and every token denotes what its node means.                *)
now == src[Len(src)]

Known(id, term) == id # ID_NULL => now[id] = term

HeardMatches ==
  /\ IsSeq(heard) /\ Len(heard) = Len(stack)
  /\ \A k \in 1 .. Len(stack) :
       /\ IsSeq(heard[k]) /\ Len(heard[k]) = Len(stack[k].done)
       /\ \A d \in 1 .. Len(stack[k].done) : Known(stack[k].done[d], heard[k][d])

SourcesMatch ==
  /\ IsSeq(src) /\ Len(src) = Len(funcs)
  /\ \A f \in 1 .. Len(src) :
       /\ DOMAIN src[f] = Ids
       /\ \A n \in 0 .. NParams - 1 : src[f][ID_PARAM(n)] = ParamTerm(n)

Faithful(t, m) ==
  (\A k \in UsedSlots(t) : t.args[k] # ID_NULL) => m[t.res] = Denotes(t, m)

AllTranslate ==
  \A f \in 1 .. Len(funcs) : \A p \in Window(funcs[f]) : Faithful(toks[p], src[f])

MeaningInv == EmitInv /\ HeardMatches /\ SourcesMatch /\ AllTranslate

(* Giving an id its meaning changes that id of the current function alone. *)
LEMMA MeansShape ==
  ASSUME SourcesMatch, funcs # << >>, EmitTypeOK, NEW id \in Ids, NEW term, Means(id, term)
  PROVE  /\ IsSeq(src') /\ Len(src') = Len(src) /\ Len(src) \in 1 .. Len(src)
         /\ \A f \in 1 .. Len(src) : f # Len(src) => src'[f] = src[f]
         /\ DOMAIN now' = Ids
         /\ \A x \in Ids : now'[x] = IF x = id THEN term ELSE now[x]
<1> DEFINE n == Len(src)
           u == src'
<1>1. n \in Nat /\ DOMAIN src = 1 .. n /\ n \in 1 .. n
  BY SeqDomain, EmptySeq DEF SourcesMatch, EmitTypeOK
<1>2. u = [f \in 1 .. n |-> IF f = n THEN [src[n] EXCEPT ![id] = term] ELSE src[f]]
  BY <1>1 DEF Means
<1>3. u = [f \in 1 .. n |-> u[f]]
  BY <1>2
<1>4. IsSeq(u) /\ Len(u) = n
  <2> HIDE DEF u, n
  <2> QED BY <1>1, <1>3, SeqFunction
<1>5. DOMAIN src[n] = Ids
  BY <1>1 DEF SourcesMatch
<1>6. now' = [src[n] EXCEPT ![id] = term]
  BY <1>1, <1>2, <1>4 DEF now
<1>7. QED
  BY <1>1, <1>2, <1>4, <1>5, <1>6 DEF now

(* The ids that a token names are ids.                                     *)
LEMMA TokenIds ==
  ASSUME NEW t \in Tokens
  PROVE  /\ t.res \in Ids /\ 0 \in Slots /\ 1 \in Slots
         /\ \A k \in Slots : t.args[k] \in Ids
  BY ConstantTypes DEF Tokens, Slots

(* A token denotes the same under meanings that agree on its operands.     *)
LEMMA SameMeaning ==
  ASSUME NEW t \in Tokens, NEW m, NEW w, \A k \in Slots : m[t.args[k]] = w[t.args[k]]
  PROVE  Denotes(t, m) = Denotes(t, w)
<1>1. m[t.args[0]] = w[t.args[0]] /\ m[t.args[1]] = w[t.args[1]]
  BY TokenIds
<1>2. QED
  BY <1>1 DEF Denotes

(* A token is pushed whose result is new and whose meaning is its node's.  *)
LEMMA PushMeans ==
  ASSUME MeaningInv, EmitInv', funcs # << >>, NEW t \in Tokens, PushToken(t),
         cur.len + 1 < LenMod, FirstTemporal <= t.res,
         \A p \in Window(cur) : toks[p].res # t.res,
         \A k \in Slots : t.args[k] \in ParamIds \/ DefinedNow(t.args[k]),
         NEW term, Means(t.res, term),
         (\A k \in UsedSlots(t) : t.args[k] # ID_NULL) => term = Denotes(t, now)
  PROVE  /\ SourcesMatch' /\ AllTranslate'
         /\ \A x \in Ids : x # t.res => now'[x] = now[x]
         /\ now'[t.res] = term
<1> DEFINE n == Len(funcs)
           e == Len(toks) + 1
<1>1. /\ EmitTypeOK /\ WindowsInside /\ WindowsTile /\ SingleAssignment /\ DefinedBeforeUse
      /\ SourcesMatch /\ Len(src) = n /\ t.res \in Ids /\ t.res \in Int
  BY ConstantTypes DEF MeaningInv, EmitInv, SourcesMatch, Tokens, Ids
<1>2. /\ IsSeq(src') /\ Len(src') = n /\ n \in 1 .. n
      /\ \A f \in 1 .. n : f # n => src'[f] = src[f]
      /\ DOMAIN now' = Ids
      /\ \A x \in Ids : now'[x] = IF x = t.res THEN term ELSE now[x]
  BY <1>1, MeansShape
<1>3. now = src[n] /\ now' = src'[n] /\ cur = funcs[n]
  BY <1>1, <1>2 DEF now, cur
<1>4. /\ Window(cur)' = Window(cur) \cup {e} /\ toks'[e] = t
      /\ \A p \in Window(cur) : toks'[p] = toks[p]
  BY <1>1, PushKeeps
<1>5. /\ Len(funcs') = n /\ \A f \in 1 .. n : f # n => funcs'[f] = funcs[f]
      /\ \A p \in 1 .. Len(toks) : toks'[p] = toks[p]
  BY <1>1, PushShape DEF EmitTypeOK
<1>6. \A f \in 1 .. n :
        Window(funcs[f]) \subseteq 1 .. Len(toks) /\ \A p \in Window(funcs[f]) : toks[p] \in Tokens
  BY <1>1, CurrentWindow
<1>7. SourcesMatch'
  <2> SUFFICES ASSUME NEW f \in 1 .. n
               PROVE  /\ DOMAIN src'[f] = Ids
                      /\ \A i \in 0 .. NParams - 1 : src'[f][ID_PARAM(i)] = ParamTerm(i)
    BY <1>2, <1>5 DEF SourcesMatch
  <2>1. CASE f # n
    BY <2>1, <1>1, <1>2 DEF SourcesMatch
  <2>2. CASE f = n
    <3>1. ASSUME NEW i \in 0 .. NParams - 1
          PROVE  now'[ID_PARAM(i)] = ParamTerm(i)
      <4>1. ID_PARAM(i) \in Ids /\ ID_PARAM(i) # t.res
        BY ParamIdType, <1>1, ConstantTypes DEF Ids
      <4>2. now[ID_PARAM(i)] = ParamTerm(i)
        BY <1>1, <1>2, <1>3 DEF SourcesMatch
      <4>3. QED
        BY <4>1, <4>2, <1>2
    <3>2. QED
      BY <2>2, <3>1, <1>2, <1>3
  <2>3. QED
    BY <2>1, <2>2
<1>8. ASSUME NEW id \in Ids, id \in ParamIds \/ DefinedNow(id)
      PROVE  id # t.res
  <2>1. CASE id \in ParamIds
    <3>1. PICK i \in 0 .. NParams - 1 : id = ID_PARAM(i)
      BY <2>1 DEF ParamIds
    <3>2. QED
      BY <3>1, ParamIdType, <1>1, ConstantTypes DEF Ids
  <2>2. CASE DefinedNow(id)
    <3>1. t.res # ID_NULL
      BY <1>1, ConstantTypes
    <3>2. QED
      BY <2>2, <3>1 DEF DefinedNow
  <2>3. QED
    BY <2>1, <2>2, <1>8
<1>9. ASSUME NEW p \in Window(funcs[n])
      PROVE  Faithful(toks'[p], now')
  <2>1. toks'[p] = toks[p] /\ toks[p] \in Tokens /\ toks[p].res \in Ids /\ toks[p].res # t.res
    BY <1>3, <1>4, <1>6 DEF Tokens
  <2>2. ASSUME NEW k \in Slots
        PROVE  now'[toks[p].args[k]] = now[toks[p].args[k]]
    <3>1. toks[p].args[k] \in Ids
      BY <2>1, TokenIds
    <3>2. toks[p].args[k] \in ParamIds \/ DefinedNow(toks[p].args[k])
      BY <1>1, <1>2, <1>3 DEF DefinedBeforeUse, DefinedNow
    <3>3. QED
      BY <3>1, <3>2, <1>2, <1>8
  <2>3. Denotes(toks[p], now') = Denotes(toks[p], now)
    BY <2>1, <2>2, SameMeaning
  <2>4. now'[toks[p].res] = now[toks[p].res]
    BY <2>1, <1>2
  <2>5. (\A k \in UsedSlots(toks[p]) : toks[p].args[k] # ID_NULL)
          => now[toks[p].res] = Denotes(toks[p], now)
    BY <1>2, <1>3 DEF MeaningInv, AllTranslate, Faithful
  <2>6. QED
    BY <2>1, <2>3, <2>4, <2>5 DEF Faithful
<1>10. Faithful(toks'[e], now')
  <2>1. ASSUME NEW k \in Slots
        PROVE  now'[t.args[k]] = now[t.args[k]]
    <3>1. t.args[k] \in Ids
      BY TokenIds
    <3>2. QED
      BY <3>1, <1>2, <1>8
  <2>2. Denotes(t, now') = Denotes(t, now)
    BY <2>1, SameMeaning
  <2>3. now'[t.res] = term
    BY <1>1, <1>2
  <2>4. QED
    BY <2>2, <2>3, <1>4 DEF Faithful
<1>11. ASSUME NEW f \in 1 .. n, f # n, NEW p \in Window(funcs[f])
       PROVE  Faithful(toks'[p], src'[f])
  <2>1. toks'[p] = toks[p] /\ src'[f] = src[f]
    BY <1>2, <1>5, <1>6, <1>11
  <2>2. QED
    BY <2>1 DEF MeaningInv, AllTranslate
<1>12. AllTranslate'
  BY <1>3, <1>4, <1>5, <1>9, <1>10, <1>11 DEF AllTranslate, cur
<1>13. QED
  BY <1>1, <1>2, <1>7, <1>12

(* A node ends: S is what is left of the stack and H of the histories, and *)
(* the id and the term are given to the frame on top of both.              *)
LEMMA ReplyMatches ==
  ASSUME EmitTypeOK, HeardMatches,
         NEW S \in Seq(Frames), Len(S) <= Len(stack), \A k \in 1 .. Len(S) : S[k] = stack[k],
         NEW H, IsSeq(H), Len(H) = Len(S), \A k \in 1 .. Len(S) : H[k] = heard[k],
         NEW id \in Ids, NEW term,
         stack' = Deliver(S, id), heard' = Hear(H, term),
         \A k \in 1 .. Len(S) : \A d \in 1 .. Len(stack[k].done) :
           LET x == stack[k].done[d] IN x # ID_NULL => now'[x] = now[x],
         id # ID_NULL => now'[id] = term
  PROVE  HeardMatches'
<1>1. /\ Len(S) \in Nat /\ Len(stack) \in Nat /\ Len(stack') = Len(S)
      /\ \A k \in 1 .. Len(S) :
           /\ k \in 1 .. Len(stack) /\ stack[k] \in Frames /\ S[k] = stack[k]
           /\ k # Len(S) => stack'[k].done = S[k].done
           /\ k = Len(S) => stack'[k].done = Append(S[k].done, id)
  <2>1. Len(S) \in Nat /\ Len(stack) \in Nat
    BY LenProperties DEF EmitTypeOK
  <2>2. \A k \in 1 .. Len(S) : k \in 1 .. Len(stack) /\ stack[k] \in Frames
    BY <2>1, ElementOfSeq
  <2>3. QED
    BY <2>1, <2>2, DeliverType
<1>2. \A k \in 1 .. Len(H) : IsSeq(H[k])
  BY <1>1 DEF HeardMatches
<1>3. /\ IsSeq(heard') /\ Len(heard') = Len(S)
      /\ \A k \in 1 .. Len(S) :
           /\ IsSeq(heard'[k])
           /\ k # Len(S) => heard'[k] = heard[k]
           /\ k = Len(S) => heard'[k] = Append(heard[k], term)
  BY <1>2, HearShape
<1>4. ASSUME NEW k \in 1 .. Len(S)
      PROVE  /\ Len(heard'[k]) = Len(stack'[k].done)
             /\ \A d \in 1 .. Len(stack'[k].done) :
                  stack'[k].done[d] # ID_NULL => now'[stack'[k].done[d]] = heard'[k][d]
  <2> DEFINE D == stack[k].done
             A == heard[k]
  <2>1. /\ IsSeq(A) /\ Len(A) = Len(D) /\ D \in Seq(Ids)
        /\ \A d \in 1 .. Len(D) : D[d] # ID_NULL => now'[D[d]] = A[d]
    BY <1>1 DEF HeardMatches, Known, Frames
  <2>2. CASE k # Len(S)
    <3>1. stack'[k].done = D /\ heard'[k] = A
      BY <2>2, <1>1, <1>3
    <3> HIDE DEF D, A
    <3>2. QED
      BY <2>1, <3>1
  <2>3. CASE k = Len(S)
    <3>1. stack'[k].done = Append(D, id) /\ heard'[k] = Append(A, term)
      BY <2>3, <1>1, <1>3
    <3> HIDE DEF D, A
    <3>2. /\ Len(D) \in Nat /\ Len(Append(D, id)) = Len(D) + 1
          /\ \A d \in 1 .. Len(D) : Append(D, id)[d] = D[d]
          /\ Append(D, id)[Len(D) + 1] = id
      BY <2>1, AppendProperties, LenProperties
    <3>3. /\ Len(Append(A, term)) = Len(D) + 1
          /\ \A d \in 1 .. Len(D) : Append(A, term)[d] = A[d]
          /\ Append(A, term)[Len(D) + 1] = term
      BY <2>1, SeqAppend
    <3>4. \A d \in 1 .. Len(D) + 1 : d \in 1 .. Len(D) \/ d = Len(D) + 1
      BY <3>2
    <3>5. QED
      BY <2>1, <3>1, <3>2, <3>3, <3>4
  <2>4. QED
    BY <2>2, <2>3
<1>5. QED
  BY <1>1, <1>3, <1>4 DEF HeardMatches, Known

(* What the invariant says of the ids that a frame was given.              *)
LEMMA DoneIsDefined ==
  ASSUME EmitInv, stack # << >>, NEW k \in 1 .. Len(stack), NEW d \in 1 .. Len(stack[k].done)
  PROVE  DefinedNow(stack[k].done[d]) /\ stack[k].done[d] \in Ids
<1>1. FrameFresh(k) /\ stack[k] \in Frames
  BY ElementOfSeq DEF EmitInv, IdsFresh, EmitTypeOK
<1>2. stack[k].done \in Seq(Ids)
  BY <1>1 DEF Frames
<1>3. QED
  BY <1>1, <1>2, ElementOfSeq DEF FrameFresh

(* Leaving a frame: what is left of the histories.                         *)
LEMMA HeardFront ==
  ASSUME MeaningInv, stack # << >>
  PROVE  /\ IsSeq(Front(heard)) /\ Len(Front(heard)) = Len(Front(stack))
         /\ \A k \in 1 .. Len(Front(stack)) : Front(heard)[k] = heard[k]
         /\ Len(heard) = Len(stack)
         /\ \A d \in 1 .. Len(top.done) : top.done[d] # ID_NULL => now[top.done[d]] = said(d)
<1>1. /\ IsSeq(heard) /\ Len(heard) = Len(stack) /\ EmitInv
      /\ Len(stack) \in 1 .. Len(stack) /\ Len(Front(stack)) = Len(stack) - 1
  BY TopFacts, EmptySeq DEF MeaningInv, HeardMatches, EmitInv, EmitTypeOK
<1>2. heard # << >>
  BY <1>1, SeqEmpty
<1>3. \A d \in 1 .. Len(top.done) : top.done[d] # ID_NULL => now[top.done[d]] = said(d)
  BY <1>1 DEF MeaningInv, HeardMatches, Known, top, said
<1>4. QED
  BY <1>1, <1>2, <1>3, SeqFront

(* A token is pushed for a node that ends and its caller is told.          *)
LEMMA PushTold ==
  ASSUME NodesFit, MeaningInv, EmitInv', stack # << >>,
         NEW t \in Tokens, PushToken(t),
         NEW S \in Seq(Frames), Len(S) <= Len(stack),
         \A k \in 1 .. Len(S) : S[k] = stack[k],
         NEW H, IsSeq(H), Len(H) = Len(S), \A k \in 1 .. Len(S) : H[k] = heard[k],
         FirstTemporal <= t.res,
         \A p \in Window(cur) : toks[p].res # t.res,
         \A k \in Slots : t.args[k] \in ParamIds \/ DefinedNow(t.args[k]),
         cur.len + 1 <= MaxNodes,
         NEW term, Means(t.res, term), stack' = Deliver(S, t.res), heard' = Hear(H, term),
         (\A k \in UsedSlots(t) : t.args[k] # ID_NULL) => term = Denotes(t, now)
  PROVE  MeaningInv'
<1>1. /\ funcs # << >> /\ EmitTypeOK /\ EmitInv /\ HeardMatches /\ t.res \in Ids
      /\ t.res \in Nat /\ Len(S) \in Nat /\ Len(stack) \in Nat
  BY ConstantTypes, LenProperties DEF MeaningInv, EmitInv, EmitTypeOK, Tokens, Ids
<1>2. cur.len + 1 < LenMod
  BY <1>1, TopFacts, ConstantTypes DEF NodesFit
<1>3. /\ SourcesMatch' /\ AllTranslate' /\ now'[t.res] = term
      /\ \A x \in Ids : x # t.res => now'[x] = now[x]
  BY <1>1, <1>2, PushMeans
<1>4. ASSUME NEW k \in 1 .. Len(S), NEW d \in 1 .. Len(stack[k].done),
             stack[k].done[d] # ID_NULL
      PROVE  now'[stack[k].done[d]] = now[stack[k].done[d]]
  <2>1. k \in 1 .. Len(stack)
    BY <1>1
  <2>2. DefinedNow(stack[k].done[d]) /\ stack[k].done[d] \in Ids
    BY <2>1, <1>1, DoneIsDefined
  <2>3. stack[k].done[d] # t.res
    BY <2>2, <1>4 DEF DefinedNow
  <2>4. QED
    BY <2>2, <2>3, <1>3
<1>5. HeardMatches'
  BY <1>1, <1>3, <1>4, ReplyMatches
<1>6. QED
  BY <1>3, <1>5 DEF MeaningInv

(* A node ends that leaves no token: its caller is given the null id.      *)
LEMMA QuietTold ==
  ASSUME MeaningInv, EmitInv', stack # << >>, toks' = toks, funcs' = funcs, src' = src,
         NEW S \in Seq(Frames), Len(S) <= Len(stack),
         \A k \in 1 .. Len(S) : S[k] = stack[k],
         NEW H, IsSeq(H), Len(H) = Len(S), \A k \in 1 .. Len(S) : H[k] = heard[k],
         NEW term, stack' = Deliver(S, ID_NULL), heard' = Hear(H, term)
  PROVE  MeaningInv'
<1>1. EmitTypeOK /\ HeardMatches /\ now' = now
  BY DEF MeaningInv, EmitInv, now
<1>2. HeardMatches'
  <2> DEFINE id == ID_NULL
  <2>1. id \in Ids /\ stack' = Deliver(S, id) /\ ~(id # ID_NULL)
    BY NullIsId
  <2> HIDE DEF id
  <2>2. QED
    BY <1>1, <2>1, ReplyMatches
<1>3. SourcesMatch' /\ AllTranslate'
  BY DEF MeaningInv, SourcesMatch, AllTranslate
<1>4. QED
  BY <1>2, <1>3 DEF MeaningInv

-----------------------------------------------------------------------------
(* The operands that an operator's token is given when it is pushed.       *)
LEMMA BinopArgs ==
  ASSUME NEW a \in Ids, NEW b \in Ids
  PROVE  Args(a, b)[0] = a /\ Args(a, b)[1] = b
  BY ConstantTypes DEF Args, Slots

(* An operator's token denotes the operator of what its operands denote.   *)
LEMMA BinopDenotes ==
  ASSUME NEW t, NEW a \in Ids, NEW b \in Ids, NEW m, t.type \in BinOps, t.args = Args(a, b)
  PROVE  /\ UsedSlots(t) = {0, 1} /\ t.args[0] = a /\ t.args[1] = b
         /\ Denotes(t, m) = Apply(t.type, m[a], m[b])
<1>1. t.args[0] = a /\ t.args[1] = b
  BY BinopArgs
<1>2. UsedSlots(t) = {0, 1}
  BY BinOpsAssumption DEF UsedSlots
<1>3. Denotes(t, m) = Apply(t.type, m[a], m[b])
  BY <1>1 DEF Denotes
<1>4. QED
  BY <1>1, <1>2, <1>3

(* A copy's or a return's token denotes what its operand denotes.          *)
LEMMA CopyDenotes ==
  ASSUME NEW t, NEW a \in Ids, NEW m, t.type \in {"IDENTITY", "RETURN"},
         t.args = Args(a, ID_NULL)
  PROVE  UsedSlots(t) = {0} /\ t.args[0] = a /\ Denotes(t, m) = m[a]
<1>1. t.args[0] = a
  BY BinopArgs, NullIsId
<1>2. t.type \notin BinOps /\ t.type # "NONE"
  BY BinOpsAssumption
<1>3. QED
  BY <1>1, <1>2 DEF UsedSlots, Denotes

(* The operands of a token made of defined ids are defined.                *)
LEMMA ArgsDefined ==
  ASSUME NEW t, NEW a \in Ids, NEW b \in Ids, t.args = Args(a, b),
         a \in ParamIds \/ DefinedNow(a), b \in ParamIds \/ DefinedNow(b)
  PROVE  \A k \in Slots : t.args[k] \in ParamIds \/ DefinedNow(t.args[k])
<1>1. \A k \in Slots : t.args[k] \in {a, b, ID_NULL}
  BY ArgsType
<1>2. DefinedNow(ID_NULL)
  BY DEF DefinedNow
<1>3. QED
  BY <1>1, <1>2

(* The invariant of the meanings holds before the first function.          *)
LEMMA MeaningInit == EmitInit => MeaningInv
<1> SUFFICES ASSUME EmitInit PROVE MeaningInv
  OBVIOUS
<1>1. EmitInv
  BY EmitInvInit
<1>2. /\ heard = << >> /\ stack = << >> /\ src = << >> /\ funcs = << >>
      /\ Len(stack) = 0 /\ Len(funcs) = 0
  BY EmptySeq DEF EmitInit
<1>3. QED
  BY <1>1, <1>2, SeqEmpty DEF MeaningInv, HeardMatches, SourcesMatch, AllTranslate

(* A function is opened with the initial meaning; nothing is pushed.       *)
LEMMA FromAstVarMeans ==
  ASSUME MeaningInv, EmitInv', NEW kind, FromAstVar(kind)
  PROVE  MeaningInv'
<1> DEFINE n == Len(funcs)
           w == [pos |-> Len(toks), len |-> 0]
<1>1. /\ n \in Nat /\ Len(toks) \in Nat /\ w \in Windows /\ toks' = toks
      /\ funcs \in Seq(Windows) /\ funcs' = Append(funcs, w)
  BY LenProperties, ConstantTypes DEF MeaningInv, EmitInv, EmitTypeOK, FromAstVar, Windows
<1>2. Window(w) = {}
  BY <1>1 DEF Window
<1> HIDE DEF w
<1>3. Len(funcs') = n + 1 /\ funcs'[n + 1] = w /\ \A f \in 1 .. n : funcs'[f] = funcs[f]
  BY <1>1, AppendProperties
<1>4. IsSeq(src) /\ Len(src) = n /\ src' = Append(src, InitialMeaning)
  BY DEF MeaningInv, SourcesMatch, FromAstVar
<1>5. /\ IsSeq(src') /\ Len(src') = n + 1 /\ src'[n + 1] = InitialMeaning
      /\ \A f \in 1 .. n : src'[f] = src[f]
  BY <1>4, SeqAppend
<1>6. \A f \in 1 .. n + 1 : f \in 1 .. n \/ f = n + 1
  BY <1>1
<1>7. /\ DOMAIN InitialMeaning = Ids
      /\ \A i \in 0 .. NParams - 1 : InitialMeaning[ID_PARAM(i)] = ParamTerm(i)
  <2> SUFFICES ASSUME NEW i \in 0 .. NParams - 1
               PROVE  InitialMeaning[ID_PARAM(i)] = ParamTerm(i)
    BY DEF InitialMeaning
  <2>1. ID_PARAM(i) \in Ids
    BY ParamIdType
  <2>2. ID_PARAM(i) \in ID_PARAM(0) .. FirstTemporal - 1 /\ ID_PARAM(i) - 2 = i
    BY ConstantTypes DEF ID_PARAM
  <2>3. QED
    BY <2>1, <2>2 DEF InitialMeaning
<1>8. SourcesMatch'
  BY <1>3, <1>5, <1>6, <1>7 DEF MeaningInv, SourcesMatch
<1>9. AllTranslate'
  BY <1>1, <1>2, <1>3, <1>5, <1>6 DEF MeaningInv, AllTranslate
<1>10. HeardMatches'
  <2> DEFINE fr == [kind |-> kind, res |-> FirstTemporal, done |-> << >>]
  <2>1. stack' = << fr >> /\ heard' = << << >> >> /\ fr.done = << >>
    BY DEF FromAstVar
  <2> HIDE DEF fr
  <2>2. /\ Len(stack') = 1 /\ stack'[1] = fr /\ Len(heard') = 1 /\ heard'[1] = << >>
        /\ Len(fr.done) = 0
    BY <2>1, EmptySeq
  <2>3. heard' = [k \in 1 .. 1 |-> heard'[k]]
    BY <2>1
  <2>4. IsSeq(heard')
    BY <2>3, SeqFunction
  <2>5. QED
    BY <2>2, <2>4, SeqEmpty DEF HeardMatches
<1>11. QED
  BY <1>8, <1>9, <1>10 DEF MeaningInv

(* A node is entered: its frame has been told nothing yet.                 *)
LEMMA EnterMeans ==
  ASSUME MeaningInv, EmitInv', NEW kind, Enter(kind)
  PROVE  MeaningInv'
<1> DEFINE fr == Frame(kind)
           m == Len(stack)
<1>1. /\ toks' = toks /\ funcs' = funcs /\ src' = src /\ stack' = Append(stack, fr)
      /\ heard' = Append(heard, << >>) /\ Len(fr.done) = 0
  BY EmptySeq DEF Enter, Frame
<1>2. stack' \in Seq(Frames) /\ stack \in Seq(Frames) /\ m \in Nat
  BY LenProperties DEF MeaningInv, EmitInv, EmitTypeOK
<1> HIDE DEF fr
<1>3. Len(stack') = m + 1 /\ stack'[m + 1] = fr /\ \A k \in 1 .. m : stack'[k] = stack[k]
  BY <1>1, <1>2
<1>4. /\ IsSeq(heard') /\ Len(heard') = m + 1 /\ heard'[m + 1] = << >>
      /\ \A k \in 1 .. m : heard'[k] = heard[k]
  BY <1>1, SeqAppend DEF MeaningInv, HeardMatches
<1>5. \A k \in 1 .. m + 1 : k \in 1 .. m \/ k = m + 1
  BY <1>2
<1>6. HeardMatches'
  BY <1>1, <1>3, <1>4, <1>5, SeqEmpty DEF MeaningInv, HeardMatches, Known, now
<1>7. QED
  BY <1>1, <1>6 DEF MeaningInv, SourcesMatch, AllTranslate

(* A step that changes neither tokens, functions nor histories.            *)
LEMMA SameMeanings ==
  ASSUME MeaningInv, EmitInv', toks' = toks, funcs' = funcs, stack' = stack,
         heard' = heard, src' = src
  PROVE  MeaningInv'
  BY DEF MeaningInv, HeardMatches, SourcesMatch, AllTranslate, Known, now

(* Each of the emitter's actions preserves the strengthened invariant.     *)
LEMMA MeaningStep == NodesFit /\ MeaningInv /\ EmitNext => MeaningInv'
<1> SUFFICES ASSUME NodesFit, MeaningInv, EmitNext PROVE MeaningInv'
  OBVIOUS
<1>i. EmitInv /\ EmitInv' /\ EmitTypeOK
  BY EmitInvStep DEF MeaningInv, EmitInv
<1>1. ASSUME NEW kind \in Bodies, FromAstVar(kind) PROVE MeaningInv'
  BY <1>1, <1>i, FromAstVarMeans
<1>2. ASSUME NEW kind \in {"RETURN"} \cup Interior, Enter(kind) PROVE MeaningInv'
  BY <1>2, <1>i, EnterMeans
<1>3. ASSUME NEW n \in 0 .. NParams - 1, RefVar(n) PROVE MeaningInv'
  <2> DEFINE t == [type |-> "IDENTITY", res |-> nextId, args |-> Args(ID_PARAM(n), ID_NULL)]
             term == ParamTerm(n)
  <2>1. /\ stack # << >> /\ DrawId /\ PushToken(t) /\ Means(nextId, term)
        /\ stack' = Deliver(stack, nextId) /\ heard' = Hear(heard, term)
    BY <1>3 DEF RefVar, Reply
  <2>2. /\ nextId \in Ids /\ ID_PARAM(n) \in Ids /\ ID_PARAM(n) \in ParamIds
        /\ funcs # << >> /\ SourcesMatch /\ HeardMatches /\ Len(src) \in 1 .. Len(src)
    BY <1>i, <2>1, ParamIdType, EmptySeq DEF MeaningInv, EmitTypeOK, SourcesMatch
  <2>3. now[ID_PARAM(n)] = term
    BY <2>2 DEF SourcesMatch, now
  <2>4. /\ t \in Tokens /\ t.res = nextId /\ t.type = "IDENTITY"
        /\ t.args = Args(ID_PARAM(n), ID_NULL)
    BY <2>2, NullIsId, TokenType DEF TokenTypes
  <2> HIDE DEF t, term
  <2>5. /\ (\A k \in UsedSlots(t) : t.args[k] # ID_NULL) => term = Denotes(t, now)
        /\ \A k \in Slots : t.args[k] \in ParamIds \/ DefinedNow(t.args[k])
    <3>1. Denotes(t, now) = now[ID_PARAM(n)]
      <4> DEFINE a == ID_PARAM(n)
                 m == now
      <4>1. a \in Ids /\ t.type \in {"IDENTITY", "RETURN"} /\ t.args = Args(a, ID_NULL)
        BY <2>2, <2>4
      <4> HIDE DEF a, m
      <4>2. Denotes(t, m) = m[a]
        BY <4>1, CopyDenotes
      <4>3. QED
        BY <4>2 DEF a, m
    <3>2. DefinedNow(ID_NULL)
      BY DEF DefinedNow
    <3>3. QED
      BY <2>2, <2>3, <2>4, <3>1, <3>2, NullIsId, ArgsDefined
  <2>6. /\ nodes' <= MaxNodes /\ nodes' = nodes + 1 /\ nodes \in Nat
        /\ nextId = FirstTemporal + nodes /\ nextId \in Nat
        /\ cur.len \in Nat /\ Len(stack) \in Nat /\ cur.len + Len(stack) <= nodes
        /\ stack \in Seq(Frames)
    BY <1>i, <2>1, TopFacts, DrawIdNoWrap, ConstantTypes
  <2>7. FirstTemporal <= nextId /\ cur.len + 1 <= MaxNodes
    BY <2>6, ConstantTypes
  <2>8. \A p \in Window(cur) : toks[p].res # nextId
    <3>1. ASSUME NEW p \in Window(cur) PROVE toks[p].res < nextId /\ toks[p].res \in Nat
      BY <1>i, <2>1, <2>2, CurrentResult DEF EmitInv, IdsFresh
    <3>2. QED
      BY <3>1, <2>6
  <2>9. IsSeq(heard) /\ Len(heard) = Len(stack) /\ Len(stack) <= Len(stack)
    BY <2>2, <2>6 DEF HeardMatches
  <2>10. QED
    BY <1>i, <2>1, <2>4, <2>5, <2>6, <2>7, <2>8, <2>9, PushTold
<1>4. CASE RefUnknown
  BY <1>4, <1>i, SameMeanings DEF RefUnknown
<1>5. ASSUME NEW kind \in Syntax, Tokenless(kind) PROVE MeaningInv'
  <2> DEFINE term == << kind >>
  <2>1. /\ toks' = toks /\ funcs' = funcs /\ src' = src /\ stack # << >>
        /\ stack' = Deliver(stack, ID_NULL) /\ heard' = Hear(heard, term)
    BY <1>5 DEF Tokenless, Reply
  <2> HIDE DEF term
  <2>2. /\ stack \in Seq(Frames) /\ Len(stack) <= Len(stack)
        /\ IsSeq(heard) /\ Len(heard) = Len(stack)
    BY <1>i, LenProperties DEF MeaningInv, HeardMatches, EmitTypeOK
  <2>3. QED
    BY <1>i, <2>1, <2>2, QuietTold
<1>6. CASE FinishBinop
  <2> DEFINE t == [type |-> top.kind, res |-> top.res, args |-> Args(top.done[1], top.done[2])]
             term == Apply(top.kind, said(1), said(2))
  <2>1. /\ stack # << >> /\ Len(top.done) = 2 /\ top.kind \in BinOps /\ PushToken(t)
        /\ Means(top.res, term)
        /\ stack' = Deliver(Front(stack), top.res) /\ heard' = Hear(Front(heard), term)
    BY <1>6, BinOpsAssumption DEF FinishBinop, Complete, Arity, Leave
  <2>2. /\ top.done[1] \in Ids /\ top.done[2] \in Ids /\ top.res \in Ids
        /\ DefinedNow(top.done[1]) /\ DefinedNow(top.done[2])
        /\ top.done[1] # ID_NULL => now[top.done[1]] = said(1)
        /\ top.done[2] # ID_NULL => now[top.done[2]] = said(2)
    BY <1>i, <2>1, TopFacts, HeardFront
  <2>3. /\ t \in Tokens /\ t.res = top.res /\ t.type = top.kind
        /\ t.args = Args(top.done[1], top.done[2])
    BY <2>1, <2>2, TokenType DEF TokenTypes
  <2>4. term = Apply(top.kind, said(1), said(2))
    OBVIOUS
  <2> HIDE DEF t, term
  <2>5. (\A k \in UsedSlots(t) : t.args[k] # ID_NULL) => term = Denotes(t, now)
    <3>1. /\ UsedSlots(t) = {0, 1} /\ t.args[0] = top.done[1] /\ t.args[1] = top.done[2]
          /\ Denotes(t, now) = Apply(t.type, now[top.done[1]], now[top.done[2]])
      BY <2>1, <2>2, <2>3, BinopDenotes, SMTT(30)
    <3>2. QED
      BY <2>2, <2>3, <2>4, <3>1
  <2>6. \A k \in Slots : t.args[k] \in ParamIds \/ DefinedNow(t.args[k])
    BY <2>2, <2>3, ArgsDefined
  <2>7. cur.len + 1 <= MaxNodes /\ Len(Front(stack)) <= Len(stack)
    <3>1. /\ cur.len \in Nat /\ Len(stack) \in Nat /\ nodes \in Nat /\ nodes <= MaxNodes
          /\ cur.len + Len(stack) <= nodes /\ Len(Front(stack)) = Len(stack) - 1 /\ Len(stack) # 0
      BY <1>i, <2>1, TopFacts, EmptySeq DEF EmitTypeOK
    <3>2. QED
      BY <3>1, ConstantTypes
  <2>8. QED
    BY <1>i, <2>1, <2>3, <2>5, <2>6, <2>7, TopFacts, HeardFront, PushTold
<1>7. CASE FinishCond
  BY <1>7, <1>i, SameMeanings DEF FinishCond
<1>8. CASE FinishIf
  <2> DEFINE term == <<"IF", said(1), said(2), said(3)>>
  <2>1. /\ toks' = toks /\ funcs' = funcs /\ src' = src /\ stack # << >>
        /\ stack' = Deliver(Front(stack), ID_NULL) /\ heard' = Hear(Front(heard), term)
    BY <1>8 DEF FinishIf, Complete, Leave
  <2> HIDE DEF term
  <2>2. Len(Front(stack)) <= Len(stack)
    BY <1>i, <2>1, TopCounts
  <2>3. QED
    BY <1>i, <2>1, <2>2, TopFacts, HeardFront, QuietTold
<1>9. CASE FinishReturn
  <2> DEFINE t == [type |-> "RETURN", res |-> top.res, args |-> Args(top.done[1], ID_NULL)]
             term == said(1)
  <2>1. /\ stack # << >> /\ Len(top.done) = 1 /\ PushToken(t)
        /\ Means(top.res, term)
        /\ stack' = Deliver(Front(stack), top.res) /\ heard' = Hear(Front(heard), term)
    BY <1>9 DEF FinishReturn, Complete, Arity, Leave
  <2>2. /\ top.done[1] \in Ids /\ top.res \in Ids /\ DefinedNow(top.done[1])
        /\ top.done[1] # ID_NULL => now[top.done[1]] = term
    BY <1>i, <2>1, TopFacts, HeardFront
  <2>3. /\ t \in Tokens /\ t.res = top.res /\ t.type = "RETURN"
        /\ t.args = Args(top.done[1], ID_NULL)
    BY <2>2, NullIsId, TokenType DEF TokenTypes
  <2> HIDE DEF t, term
  <2>4. /\ (\A k \in UsedSlots(t) : t.args[k] # ID_NULL) => term = Denotes(t, now)
        /\ \A k \in Slots : t.args[k] \in ParamIds \/ DefinedNow(t.args[k])
    <3>1. /\ UsedSlots(t) = {0} /\ t.args[0] = top.done[1]
          /\ Denotes(t, now) = now[top.done[1]]
      BY <2>2, <2>3, CopyDenotes
    <3>2. DefinedNow(ID_NULL)
      BY DEF DefinedNow
    <3>3. QED
      BY <2>2, <2>3, <3>1, <3>2, NullIsId, ArgsDefined
  <2>5. cur.len + 1 <= MaxNodes /\ Len(Front(stack)) <= Len(stack)
    <3>1. /\ cur.len \in Nat /\ Len(stack) \in Nat /\ nodes \in Nat /\ nodes <= MaxNodes
          /\ cur.len + Len(stack) <= nodes /\ Len(Front(stack)) = Len(stack) - 1 /\ Len(stack) # 0
      BY <1>i, <2>1, TopFacts, EmptySeq DEF EmitTypeOK
    <3>2. QED
      BY <3>1, ConstantTypes
  <2>6. QED
    BY <1>i, <2>1, <2>3, <2>4, <2>5, TopFacts, HeardFront, PushTold
<1>10. CASE FinishBlock
  <2> DEFINE term == <<"BLOCK">>
  <2>1. /\ toks' = toks /\ funcs' = funcs /\ src' = src /\ stack # << >>
        /\ stack' = Deliver(Front(stack), ID_NULL) /\ heard' = Hear(Front(heard), term)
    BY <1>10 DEF FinishBlock, Leave
  <2> HIDE DEF term
  <2>2. Len(Front(stack)) <= Len(stack)
    BY <1>i, <2>1, TopCounts
  <2>3. QED
    BY <1>i, <2>1, <2>2, TopFacts, HeardFront, QuietTold
<1>11. CASE FromAstDone
  BY <1>11, <1>i, SameMeanings DEF FromAstDone
<1>12. CASE FromAstObject
  BY <1>12, <1>i, SameMeanings DEF FromAstObject
<1>13. QED
  BY <1>1, <1>2, <1>3, <1>4, <1>5, <1>6, <1>7, <1>8, <1>9, <1>10, <1>11,
     <1>12 DEF EmitNext

(* A step that leaves the emitter's variables alone.                       *)
LEMMA MeaningStutter ==
  ASSUME MeaningInv, UNCHANGED emitVars
  PROVE  MeaningInv'
BY EmitInvStutter, SameMeanings DEF MeaningInv, emitVars

(* The invariant of the meanings holds always, if no counter wraps.        *)
LEMMA MeaningInvariant ==
  ASSUME NodesFit
  PROVE  EmitSpec => []MeaningInv
<1>1. MeaningInv /\ [EmitNext]_emitVars => MeaningInv'
  BY MeaningStutter, MeaningStep
<1>2. QED
  BY <1>1, MeaningInit, PTL DEF EmitSpec

(* In functions of at most MaxNodes nodes every token denotes the value of *)
(* the syntax node that it was emitted for: cc_ssa_from_ast_within_func    *)
(* keeps the operators and the order of their operands.                    *)
THEOREM EmitMeansTheSource ==
  ASSUME NodesFit
  PROVE  EmitSpec => []EmitTranslates
<1>1. MeaningInv => EmitTranslates
  BY DEF MeaningInv, AllTranslate, Faithful, EmitTranslates, Translates
<1>2. QED
  BY <1>1, MeaningInvariant, PTL
==============================================================================
