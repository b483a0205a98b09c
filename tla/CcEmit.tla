-------------------------------- MODULE CcEmit -------------------------------
(***************************************************************************)
(* SSA emission: cc_ssa_from_ast and the recursive                         *)
(* cc_ssa_from_ast_within_func (cc/ssa.c).  The syntax tree is not a value *)
(* of the model: it is revealed as the recursion enters it, so that every  *)
(* tree of at most MaxNodes nodes is one behaviour.  A stack frame is one  *)
(* activation of the recursion: the node, the id it drew on entry and what *)
(* its finished children returned.                                         *)
(***************************************************************************)
EXTENDS CcSsa

CONSTANTS
  MaxFuncs,   \* bound: functions of the translation unit
  MaxNodes,   \* bound: syntax nodes of one function
  CondOps,    \* the comparison and logical operators
  Level,      \* precedence: the parser's rule for an operator, tightest first
  Syntax      \* the other node kinds the source may use

ASSUME BoundsAssumption == MaxFuncs \in Nat /\ MaxNodes \in Nat
ASSUME SyntaxAssumption ==
  /\ Syntax \subseteq {"LITERAL", "VOID", "IF", "BLOCK", "UNKNOWN", "OBJECT"}
  /\ CondOps \cap (TokenTypes \cup {"IF", "BLOCK"}) = {}
  /\ Level \in [BinOps \cup CondOps -> Nat]

VARIABLES
  phase,    \* the driver: emit, optimise, lower, done; or aborted
  toks,     \* state->ssa_tokens
  funcs,    \* state->ssa_funcs
  nextId,   \* emit->arg.id, the id the next node draws
  nodes,    \* nodes entered in this function (the bound's counter)
  stack,    \* the activations of cc_ssa_from_ast_within_func
  heard,    \* history: per activation, what its finished children mean
  src       \* history: per function, what the node that drew an id means

emitVars == <<phase, toks, funcs, nextId, nodes, stack, heard, src>>

Arity(kind) == CASE kind = "RETURN" -> 1 [] kind = "IF" -> 3 [] OTHER -> 2

Bodies == {"RETURN"} \cup (Syntax \cap {"BLOCK"})
Interior == BinOps \cup CondOps \cup (Syntax \cap {"IF"})

Front(s) == SubSeq(s, 1, Len(s) - 1)
top == stack[Len(stack)]
said(k) == heard[Len(heard)][k]

(* What the grammar allows as the next child of the node being emitted.    *)
(* CC_PARSE_BINOP_DEFINE gives each operator a rule of its own whose       *)
(* operands are the next rule, and there are no parentheses.               *)
ExpectsReturn == top.kind = "BLOCK"
ExpectsExpr == top.kind # "BLOCK" /\ Len(top.done) < Arity(top.kind)
Allowed(kind) ==
  CASE top.kind = "RETURN" -> TRUE
    [] top.kind = "IF" -> kind # "IF" \/ Len(top.done) > 0
    [] OTHER -> kind # "IF" /\ Level[kind] < Level[top.kind]

Frame(kind) == [kind |-> kind, res |-> nextId, done |-> << >>]

(* The caller, if any, receives the id that a child returned.              *)
Deliver(s, id) ==
  IF s = << >> THEN << >> ELSE [s EXCEPT ![Len(s)].done = Append(@, id)]
Hear(h, term) ==
  IF h = << >> THEN << >> ELSE [h EXCEPT ![Len(h)] = Append(@, term)]

Reply(id, term) == stack' = Deliver(stack, id) /\ heard' = Hear(heard, term)
Leave(id, term) ==
  stack' = Deliver(Front(stack), id) /\ heard' = Hear(Front(heard), term)

(* Every node draws an id, whether or not a token will carry it.           *)
DrawId_Stuck ==       \* a slip: the counter is read and not advanced
  /\ nodes < MaxNodes
  /\ nodes' = nodes + 1
  /\ nextId' = nextId

DrawId ==
  /\ nodes < MaxNodes
  /\ nodes' = nodes + 1
  /\ nextId' = (nextId + 1) % IdMod

(* cc_ssa_push_token                                                       *)
PushToken(t) ==
  /\ toks' = Append(toks, t)
  /\ funcs' = [funcs EXCEPT ![Len(funcs)].len = (@ + 1) % LenMod]

Means(id, term) == src' = [src EXCEPT ![Len(src)][id] = term]

-----------------------------------------------------------------------------
InitialMeaning ==
  [id \in Ids |->
     IF id \in ID_PARAM(0) .. FirstTemporal - 1 THEN ParamTerm(id - 2) ELSE NoTerm]

EmitInit ==
  /\ phase = "emit"
  /\ toks = << >>
  /\ funcs = << >>
  /\ nextId = 0
  /\ nodes = 0
  /\ stack = << >>
  /\ heard = << >>
  /\ src = << >>

(* cc_ssa_from_ast_var: open a window, restart the ids, enter the body.    *)
FromAstVar_AtStart(kind) ==       \* a slip: every window starts at 0
  /\ stack = << >>
  /\ Len(funcs) < MaxFuncs
  /\ 0 < MaxNodes
  /\ funcs' = Append(funcs, [pos |-> 0, len |-> 0])
  /\ src' = Append(src, InitialMeaning)
  /\ stack' = << [kind |-> kind, res |-> FirstTemporal, done |-> << >>] >>
  /\ heard' = << << >> >>
  /\ nextId' = (FirstTemporal + 1) % IdMod
  /\ nodes' = 1
  /\ UNCHANGED <<phase, toks>>

FromAstVar(kind) ==
  /\ stack = << >>
  /\ Len(funcs) < MaxFuncs
  /\ 0 < MaxNodes
  /\ funcs' = Append(funcs, [pos |-> Len(toks), len |-> 0])
  /\ src' = Append(src, InitialMeaning)
  /\ stack' = << [kind |-> kind, res |-> FirstTemporal, done |-> << >>] >>
  /\ heard' = << << >> >>
  /\ nextId' = (FirstTemporal + 1) % IdMod
  /\ nodes' = 1
  /\ UNCHANGED <<phase, toks>>

(* What is declared with a body need not be a function: cc_ssa_from_ast_var*)
(* aborts, whatever was emitted before it.                                 *)
FromAstObject ==
  /\ "OBJECT" \in Syntax
  /\ stack = << >>
  /\ Len(funcs) < MaxFuncs
  /\ phase' = "aborted"
  /\ UNCHANGED <<toks, funcs, nextId, nodes, stack, heard, src>>

Enter(kind) ==
  /\ stack # << >>
  /\ \/ kind = "RETURN" /\ ExpectsReturn
     \/ kind \in Interior /\ ExpectsExpr /\ Allowed(kind)
  /\ DrawId
  /\ stack' = Append(stack, Frame(kind))
  /\ heard' = Append(heard, << >>)
  /\ UNCHANGED <<phase, toks, funcs, src>>

(* CC_AST_NODE_REF_VAR of parameter n: an IDENTITY token.                  *)
RefVar(n) ==
  /\ stack # << >>
  /\ ExpectsExpr
  /\ DrawId
  /\ PushToken([type |-> "IDENTITY", res |-> nextId, args |-> Args(ID_PARAM(n), ID_NULL)])
  /\ Means(nextId, ParamTerm(n))
  /\ Reply(nextId, ParamTerm(n))
  /\ UNCHANGED phase

(* cc_ssa_get_func_parameter_index finds no such parameter.                *)
RefUnknown ==
  /\ "UNKNOWN" \in Syntax
  /\ stack # << >>
  /\ ExpectsExpr
  /\ DrawId
  /\ phase' = "aborted"
  /\ UNCHANGED <<toks, funcs, stack, heard, src>>

(* A node that leaves no token and returns the null id: a literal, or the  *)
(* empty block that `return;` has for a value.                             *)
Tokenless(kind) ==
  /\ kind \in Syntax \cap {"LITERAL", "VOID"}
  /\ stack # << >>
  /\ ExpectsExpr
  /\ kind = "VOID" => top.kind = "RETURN"
  /\ DrawId
  /\ Reply(ID_NULL, << kind >>)
  /\ UNCHANGED <<phase, toks, funcs, src>>

Complete == stack # << >> /\ Len(top.done) = Arity(top.kind)

FinishBinop_Swapped ==       \* a slip: the operands change places
  /\ Complete
  /\ top.kind \in BinOps
  /\ LET term == Apply(top.kind, said(1), said(2)) IN
       /\ PushToken([type |-> top.kind, res |-> top.res,
                     args |-> Args(top.done[2], top.done[1])])
       /\ Means(top.res, term)
       /\ Leave(top.res, term)
  /\ UNCHANGED <<phase, nextId, nodes>>

FinishBinop ==
  /\ Complete
  /\ top.kind \in BinOps
  /\ LET term == Apply(top.kind, said(1), said(2)) IN
       /\ PushToken([type |-> top.kind, res |-> top.res,
                     args |-> Args(top.done[1], top.done[2])])
       /\ Means(top.res, term)
       /\ Leave(top.res, term)
  /\ UNCHANGED <<phase, nextId, nodes>>

(* A comparison or logical operator: the operands are emitted, then abort. *)
FinishCond ==
  /\ Complete
  /\ top.kind \in CondOps
  /\ phase' = "aborted"
  /\ UNCHANGED <<toks, funcs, nextId, nodes, stack, heard, src>>

(* c ? t : e emits all three, branches nowhere and returns the null id.    *)
FinishIf ==
  /\ Complete
  /\ top.kind = "IF"
  /\ Leave(ID_NULL, <<"IF", said(1), said(2), said(3)>>)
  /\ UNCHANGED <<phase, toks, funcs, nextId, nodes, src>>

FinishReturn_Itself ==       \* a slip: the operand is the return's own id
  /\ Complete
  /\ top.kind = "RETURN"
  /\ PushToken([type |-> "RETURN", res |-> top.res, args |-> Args(top.res, ID_NULL)])
  /\ Means(top.res, said(1))
  /\ Leave(top.res, said(1))
  /\ UNCHANGED <<phase, nextId, nodes>>

FinishReturn ==
  /\ Complete
  /\ top.kind = "RETURN"
  /\ PushToken([type |-> "RETURN", res |-> top.res, args |-> Args(top.done[1], ID_NULL)])
  /\ Means(top.res, said(1))
  /\ Leave(top.res, said(1))
  /\ UNCHANGED <<phase, nextId, nodes>>

(* A block of one statement was coalesced into that statement.             *)
FinishBlock ==
  /\ stack # << >>
  /\ top.kind = "BLOCK"
  /\ Len(top.done) # 1
  /\ Leave(ID_NULL, <<"BLOCK">>)
  /\ UNCHANGED <<phase, toks, funcs, nextId, nodes, src>>

(* The translation unit is emitted: the driver goes on to cc_ssa_optimise. *)
FromAstDone ==
  /\ stack = << >>
  /\ phase' = "optimise"
  /\ UNCHANGED <<toks, funcs, nextId, nodes, stack, heard, src>>

(* cc_ssa_from_ast takes the children of the root one by one.  Its own     *)
(* abort is left out: the parser's root is a block or, coalesced, the      *)
(* declaration itself, and never a node of another kind.                   *)
EmitNext ==
  /\ phase = "emit"
  /\ \/ \E kind \in Bodies : FromAstVar(kind)
     \/ FromAstObject
     \/ \E kind \in {"RETURN"} \cup Interior : Enter(kind)
     \/ \E n \in 0 .. NParams - 1 : RefVar(n)
     \/ RefUnknown
     \/ \E kind \in Syntax : Tokenless(kind)
     \/ FinishBinop
     \/ FinishCond
     \/ FinishIf
     \/ FinishReturn
     \/ FinishBlock
     \/ FromAstDone

EmitSpec == EmitInit /\ [][EmitNext]_emitVars

-----------------------------------------------------------------------------
(* Properties *)

Phases == {"emit", "optimise", "lower", "done", "aborted"}
Frames ==
  [kind : {"RETURN", "BLOCK"} \cup Interior, res : Ids, done : Seq(Ids)]

(* Every variable holds a value the C type of its object can hold, and the *)
(* recursion is inside a function.                                         *)
EmitTypeOK ==
  /\ phase \in Phases
  /\ toks \in Seq(Tokens)
  /\ funcs \in Seq(Windows)
  /\ nextId \in Ids
  /\ nodes \in 0 .. MaxNodes
  /\ stack \in Seq(Frames)
  /\ stack # << >> => funcs # << >>

(* Nothing wraps: the ids of one function and its tokens fit their fields. *)
NodesFit == FirstTemporal + MaxNodes < IdMod /\ MaxNodes < LenMod

(* The windows that cc_ssa_from_ast_var opened one after the other tile    *)
(* the array: each starts where the one before it ends, the last ends at   *)
(* the array's end.  A token belongs to exactly one function.              *)
WindowsTile ==
  /\ funcs # << >> => funcs[1].pos = 0
  /\ \A f \in 1 .. Len(funcs) :
       funcs[f].pos + funcs[f].len =
         IF f = Len(funcs) THEN Len(toks) ELSE funcs[f + 1].pos

(* Within a function every result is a temporal of its own: no two tokens  *)
(* define the same id and none redefines NULL, RETVAL or a parameter.      *)
SingleAssignment ==
  \A f \in 1 .. Len(funcs) : \A p \in Window(funcs[f]) :
    /\ toks[p].res >= FirstTemporal
    /\ \A q \in Window(funcs[f]) : toks[p].res = toks[q].res => p = q

(* An operand is null, a parameter, or the result of an earlier token of   *)
(* the same function: post-order pushing defines an id before it is used.  *)
DefinedBeforeUse ==
  \A f \in 1 .. Len(funcs) : \A p \in Window(funcs[f]) : \A k \in Slots :
    LET id == toks[p].args[k] IN
      \/ id = ID_NULL
      \/ id \in ParamIds
      \/ \E q \in Window(funcs[f]) : q < p /\ toks[q].res = id

(* A token whose operands all have a value denotes the value of the syntax *)
(* node it was emitted for: the operator and the order of the operands are *)
(* the source's, and the ids it names still stand for what was evaluated.  *)
Translates(f, p) ==
  LET t == toks[p] IN
    (\A k \in UsedSlots(t) : t.args[k] # ID_NULL)
      => src[f][t.res] = Denotes(t, src[f])

EmitTranslates ==
  phase = "emit" =>
    \A f \in 1 .. Len(funcs) : \A p \in Window(funcs[f]) : Translates(f, p)
=============================================================================
