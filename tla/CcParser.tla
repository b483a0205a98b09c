------------------------------- MODULE CcParser -------------------------------
(***************************************************************************)
(* The parser (cc/parser.c) and its arena of nodes (cc/ast.c).  The        *)
(* recursive descent is a stack of frames, one for each activation; what a *)
(* call returned is ret.  The tokens are not a value of the model: each is *)
(* revealed when the parser comes to it, so that every source of at most   *)
(* MaxTokens tokens is one behaviour.                                      *)
(*                                                                         *)
(* A token is its type.  Its text is told by its place, and so is a name.  *)
(* The flags of a type or of a variable are left out, but for the one that *)
(* the emitter reads; so are pointers, qualifiers, abstract declarators    *)
(* and declarations in a body, whose rules only say false.                 *)
(***************************************************************************)
EXTENDS Naturals, Sequences, SequencesExt

CONSTANTS
  Ops,           \* the binary operators' rules, tightest first: a rule's
                 \* operands are the rule before it
  Specifiers,    \* the tokens that specify a type or a storage class
  NextTokens(_), \* what the source may go on with
  MaxTokens      \* bound: tokens of the source

(* The operators differ, and are no token and no node of another kind.     *)
ASSUME OpsAssumption ==
  /\ Ops \in Seq(STRING)
  /\ \A i, j \in DOMAIN Ops : Ops[i] = Ops[j] => i = j
  /\ Range(Ops) \cap {"INVALID", "IDENT", "LITERAL", "BLOCK", "IF", "RETURN", "ASSIGN",
                     "NEW_TYPE", "NEW_VAR"} = {}

(* What stands for the end of the source is no specifier.                  *)
ASSUME SpecifiersAssumption == "INVALID" \notin Specifiers

VARIABLES
  tokens,    \* state->tokens as far as they are known
  ended,     \* no token follows them
  cur,       \* state->cur_tok: the tokens that are behind the parser
  nodes,     \* state->nodes up to n_nodes; a reference is an index
  stack,     \* the activations, the innermost last
  ret,       \* what the call that ended last returned
  status,    \* "parsing", "parsed", "done"; "aborted", "asserted" or,
             \* where the model ends, "assigning"
  kept       \* history: cur after the last declaration that was kept

parserVars == <<tokens, ended, cur, nodes, stack, ret, status, kept>>

-----------------------------------------------------------------------------
(* The arena *)

Node(type, kids) == [type |-> type, kids |-> kids, name |-> 0, func |-> FALSE]
Block == Node("BLOCK", << >>)

NIL == 1      \* CC_AST_NIL: the node that the translation unit begins with

(* cc_ast_push_node, of several nodes in a row; the first has the index    *)
(* Fresh.                                                                  *)
Fresh == Len(nodes) + 1
Push(new) == nodes' = nodes \o new

(* cc_ast_push_children_to_block, and _to_type.                            *)
WithChild(ns, n, c) == [ns EXCEPT ![n].kids = Append(@, c)]

(* cc_ast_push_children_to_block_coalesce: an empty block becomes a copy.  *)
WithCoalesced(ns, n, c) ==
  IF ns[n].kids = << >> THEN [ns EXCEPT ![n] = ns[c]] ELSE WithChild(ns, n, c)

(* cc_ast_push_block_coalesce: where the children of a block go.           *)
PlaceIn(n) == IF nodes[n] = Block THEN n ELSE Fresh
Opened(n) == IF nodes[n] = Block THEN nodes ELSE Append(nodes, Block)

(* cc_ast_pop_node asserts that the node is the last one.                  *)
PopsInOrder(refs) == \A k \in DOMAIN refs : refs[k] = Len(nodes) + 1 - k

-----------------------------------------------------------------------------
(* The activations *)

(* made: the nodes that this activation has pushed and still refers to;    *)
(* mark: history: the tokens and the nodes that were behind it when it was *)
(* called.                                                                 *)
Frame(fn, expr, lock, level) ==
  [fn |-> fn, at |-> "enter", expr |-> expr, lock |-> lock, level |-> level,
   made |-> << >>, mark |-> <<0, 0>>]

Top == Last(stack)
NoRet == "none"

Known == cur < Len(tokens) \/ ended
Tok == IF cur < Len(tokens) THEN tokens[cur + 1] ELSE "INVALID"

(* A step of the innermost activation, which runs fn and is at that place. *)
At(fn, place) ==
  /\ status = "parsing" /\ stack # << >> /\ Known
  /\ Top.fn = fn /\ Top.at = place

(* cc_next_token *)
Consume == cur' = cur + 1
Stay == cur' = cur

Continue(me) == stack' = Append(Front(stack), me) /\ ret' = NoRet
Call(me, callee) ==
  /\ stack' = Front(stack) \o <<me, [callee EXCEPT !.mark = <<cur', Len(nodes')>>]>>
  /\ ret' = NoRet
Return(value) == stack' = Front(stack) /\ ret' = value

Rest == UNCHANGED <<tokens, ended, status, kept>>
Give(outcome) ==
  /\ status' = outcome
  /\ UNCHANGED <<tokens, ended, cur, nodes, stack, ret, kept>>
Abort == Give("aborted")

(* A rule that fails pops what it pushed and says false.                   *)
Undo(refs) ==
  IF PopsInOrder(refs)
  THEN /\ nodes' = SubSeq(nodes, 1, Len(nodes) - Len(refs))
       /\ Return("false")
       /\ Stay /\ Rest
  ELSE Give("asserted")

Expression(expr, lock) == Frame("expression", expr, lock, 0)
Conditional(expr) == Frame("conditional", expr, FALSE, 0)
Unary(expr) == Frame("unary", expr, FALSE, 0)
Rule(level, expr, lock) ==
  IF level = 0 THEN Unary(expr) ELSE Frame("binop", expr, lock, level)

-----------------------------------------------------------------------------
(* cc_parse_unary_expression, postfix and primary: a name or a number.     *)

Operand_Skips ==       \* a slip: what is no operand is skipped
  /\ At("unary", "enter")
  /\ IF Tok \in {"IDENT", "LITERAL"}
     THEN LET inner == PlaceIn(Top.expr) leaf == Len(Opened(Top.expr)) + 1 IN
            /\ nodes' = WithChild(Append(Opened(Top.expr), [Node(Tok, << >>) EXCEPT !.name = cur + 1]),
                                  inner, leaf)
            /\ Consume /\ Return("true")
     ELSE Return("false") /\ Consume /\ UNCHANGED nodes
  /\ Rest

Operand ==
  /\ At("unary", "enter")
  /\ IF Tok \in {"IDENT", "LITERAL"}
     THEN LET inner == PlaceIn(Top.expr) leaf == Len(Opened(Top.expr)) + 1 IN
            /\ nodes' = WithChild(Append(Opened(Top.expr), [Node(Tok, << >>) EXCEPT !.name = cur + 1]),
                                  inner, leaf)
            /\ Consume /\ Return("true")
     ELSE Return("false") /\ Stay /\ UNCHANGED nodes
  /\ Rest

-----------------------------------------------------------------------------
(* CC_PARSE_BINOP_DEFINE: one rule for each operator.  It tries its left   *)
(* operand, then itself once more, locked.                                 *)

BinopEnter ==
  /\ At("binop", "enter")
  /\ Push(<<Block>>) /\ Stay
  /\ Call([Top EXCEPT !.at = "lhs", !.made = <<Fresh>>], Rule(Top.level - 1, Fresh, FALSE))
  /\ Rest

Operator == Ops[Top.level]
HasLhs == ret = "true" /\ (Top.at = "retry" => Tok = Operator)

BinopOperator ==
  /\ \E place \in {"lhs", "retry"} : At("binop", place)
  /\ HasLhs /\ Tok = Operator
  /\ LET lhs == Top.made[1] rhs == Fresh op == Fresh + 1 IN
       /\ Push(<<Block, Node(Operator, <<lhs, rhs>>)>>) /\ Consume
       /\ Call([Top EXCEPT !.at = "rhs", !.made = <<op, rhs, lhs>>], Rule(Top.level - 1, rhs, FALSE))
  /\ Rest

BinopPlain ==
  /\ At("binop", "lhs")
  /\ HasLhs /\ Tok # Operator
  /\ nodes' = WithCoalesced(nodes, Top.expr, Top.made[1]) /\ Stay
  /\ Return("true") /\ Rest

BinopRetry ==
  /\ At("binop", "lhs")
  /\ ret = "false" /\ ~Top.lock
  /\ UNCHANGED nodes /\ Stay
  /\ Call([Top EXCEPT !.at = "retry"], Rule(Top.level, Top.made[1], TRUE))
  /\ Rest

BinopFail ==
  /\ \E place \in {"lhs", "retry"} : At("binop", place)
  /\ ~HasLhs /\ (Top.at = "lhs" => Top.lock)
  /\ Undo(Top.made)

BinopDone_Swapped ==       \* a slip: the operands change sides
  /\ At("binop", "rhs") /\ ret = "true"
  /\ nodes' = WithChild([nodes EXCEPT ![Top.made[1]].kids = <<Top.made[2], Top.made[3]>>],
                        Top.expr, Top.made[1])
  /\ Stay /\ Return("true") /\ Rest

BinopDone ==
  /\ At("binop", "rhs") /\ ret = "true"
  /\ nodes' = WithChild(nodes, Top.expr, Top.made[1]) /\ Stay
  /\ Return("true") /\ Rest

BinopAbort == At("binop", "rhs") /\ ret = "false" /\ Abort

Binop ==
  \/ BinopEnter \/ BinopOperator \/ BinopPlain \/ BinopRetry \/ BinopFail
  \/ BinopDone \/ BinopAbort

-----------------------------------------------------------------------------
(* cc_parse_conditional_expression                                         *)

CondEnter ==
  /\ At("conditional", "enter")
  /\ Push(<<Block>>) /\ Stay
  /\ Call([Top EXCEPT !.at = "cond", !.made = <<Fresh>>], Rule(Len(Ops), Fresh, FALSE))
  /\ Rest

CondPlain ==
  /\ At("conditional", "cond")
  /\ ret = "true" /\ Tok # "?"
  /\ nodes' = WithChild(nodes, Top.expr, Top.made[1]) /\ Stay
  /\ Return("true") /\ Rest

CondThen ==
  /\ At("conditional", "cond")
  /\ ret = "true" /\ Tok = "?"
  /\ LET cond == Top.made[1] then == Fresh else == Fresh + 1 if == Fresh + 2 IN
       /\ Push(<<Block, Block, Node("IF", <<cond, then, else>>)>>) /\ Consume
       /\ Call([Top EXCEPT !.at = "then", !.made = <<if, else, then, cond>>], Expression(then, FALSE))
  /\ Rest

CondElse ==
  /\ At("conditional", "then")
  /\ ret = "true" /\ Tok = ":"
  /\ UNCHANGED nodes /\ Consume
  /\ Call([Top EXCEPT !.at = "else"], Conditional(Top.made[2]))
  /\ Rest

CondDone ==
  /\ At("conditional", "else")
  /\ ret = "true"
  /\ nodes' = WithChild(nodes, Top.expr, Top.made[1]) /\ Stay
  /\ Return("true") /\ Rest

CondAbort ==
  /\ \E place \in {"then", "else"} : At("conditional", place)
  /\ Top.at = "then" => ret = "false" \/ Tok # ":"
  /\ Top.at = "else" => ret = "false"
  /\ Abort

CondFail ==
  /\ At("conditional", "cond")
  /\ ret = "false"
  /\ Undo(Top.made)

Condition ==
  CondEnter \/ CondPlain \/ CondThen \/ CondElse \/ CondDone \/ CondAbort \/ CondFail

-----------------------------------------------------------------------------
(* cc_parse_assignment_expression and cc_parse_expression                  *)

AssignEnter ==
  /\ At("assignment", "enter")
  /\ UNCHANGED nodes /\ Stay
  /\ Call([Top EXCEPT !.at = "cond"], Conditional(Top.expr))
  /\ Rest

AssignPlain ==
  /\ At("assignment", "cond")
  /\ ret = "true"
  /\ UNCHANGED nodes /\ Stay
  /\ Return("true") /\ Rest

AssignTry_Order ==       \* a slip: to be popped in the order of the pushes
  /\ At("assignment", "cond")
  /\ ret = "false"
  /\ LET lhs == Fresh rhs == Fresh + 1 assign == Fresh + 2 IN
       /\ Push(<<Block, Block, Node("ASSIGN", <<lhs, lhs>>)>>) /\ Stay
       /\ Call([Top EXCEPT !.at = "unary", !.made = <<lhs, rhs, assign>>], Unary(lhs))
  /\ Rest

AssignTry ==
  /\ At("assignment", "cond")
  /\ ret = "false"
  /\ LET lhs == Fresh rhs == Fresh + 1 assign == Fresh + 2 IN
       /\ Push(<<Block, Block, Node("ASSIGN", <<lhs, lhs>>)>>) /\ Stay
       /\ Call([Top EXCEPT !.at = "unary", !.made = <<assign, rhs, lhs>>], Unary(lhs))
  /\ Rest

(* With a left side, cc_parse_assignment_operator and the right side would *)
(* follow: the model ends there, and ParserTypeOK says that it never does. *)
AssignFail ==
  /\ At("assignment", "unary")
  /\ IF ret = "true" THEN Give("assigning") ELSE Undo(Top.made)

Assignment == AssignEnter \/ AssignPlain \/ AssignTry \/ AssignFail

ExprEnter ==
  /\ At("expression", "enter")
  /\ UNCHANGED nodes /\ Stay
  /\ Call([Top EXCEPT !.at = "first"], Frame("assignment", Top.expr, FALSE, 0))
  /\ Rest

ExprRetry ==
  /\ At("expression", "first")
  /\ ret = "false" /\ ~Top.lock
  /\ UNCHANGED nodes /\ Stay
  /\ Call([Top EXCEPT !.at = "retry"], Expression(Top.expr, TRUE))
  /\ Rest

ExprEnd ==
  /\ \E place \in {"first", "retry"} : At("expression", place)
  /\ Top.at = "first" => ret = "true" \/ Top.lock
  /\ IF Top.at = "retry" /\ ret = "true"
     THEN Abort
     ELSE Return(ret) /\ UNCHANGED nodes /\ Stay /\ Rest

Expr == ExprEnter \/ ExprRetry \/ ExprEnd

-----------------------------------------------------------------------------
(* cc_parse_jump_statment: the only statement is return.                   *)

JumpEnter ==
  /\ At("jump", "enter")
  /\ IF Tok = "return"
     THEN /\ Push(<<Block, Node("RETURN", <<Fresh>>)>>) /\ Consume
          /\ Continue([Top EXCEPT !.at = "value", !.made = <<Fresh + 1, Fresh>>])
     ELSE UNCHANGED nodes /\ Stay /\ Return("false")
  /\ Rest

JumpValue ==
  /\ At("jump", "value")
  /\ Tok # ";"
  /\ UNCHANGED nodes /\ Stay
  /\ Call([Top EXCEPT !.at = "semi"], Expression(Top.made[2], FALSE))
  /\ Rest

JumpDone ==
  /\ \E place \in {"value", "semi"} : At("jump", place)
  /\ Tok = ";" /\ ret # "false"
  /\ nodes' = WithChild(nodes, Top.expr, Top.made[1]) /\ Consume
  /\ Return("true") /\ Rest

JumpAbort ==
  /\ At("jump", "semi")
  /\ ret = "false" \/ Tok # ";"
  /\ Abort

(* cc_parse_compound_statement and its statement list.                     *)

CompoundEnter ==
  /\ At("compound", "enter")
  /\ UNCHANGED nodes
  /\ IF Tok = "{"
     THEN Consume /\ Continue([Top EXCEPT !.at = "open"])
     ELSE Stay /\ Return("false")
  /\ Rest

CompoundEmpty ==
  /\ At("compound", "open")
  /\ Tok = "}"
  /\ UNCHANGED nodes /\ Consume
  /\ Return("true") /\ Rest

CompoundList ==
  /\ At("compound", "open")
  /\ Tok # "}"
  /\ nodes' = Opened(Top.expr) /\ Stay
  /\ LET inner == PlaceIn(Top.expr) IN
       Call([Top EXCEPT !.at = "first", !.made = <<inner>>], Frame("jump", inner, FALSE, 0))
  /\ Rest

CompoundMore ==
  /\ \E place \in {"first", "more"} : At("compound", place)
  /\ ret = "true"
  /\ UNCHANGED nodes /\ Stay
  /\ Call([Top EXCEPT !.at = "more"], Frame("jump", Top.made[1], FALSE, 0))
  /\ Rest

CompoundClose ==
  /\ At("compound", "more")
  /\ ret = "false" /\ Tok = "}"
  /\ UNCHANGED nodes /\ Consume
  /\ Return("true") /\ Rest

(* No statement, no declaration list either, or something behind them.     *)
CompoundAbort ==
  /\ \E place \in {"first", "more"} : At("compound", place)
  /\ ret = "false"
  /\ Top.at = "more" => Tok # "}"
  /\ Abort

Statement ==
  \/ JumpEnter \/ JumpValue \/ JumpDone \/ JumpAbort
  \/ CompoundEnter \/ CompoundEmpty \/ CompoundList \/ CompoundMore
  \/ CompoundClose \/ CompoundAbort

-----------------------------------------------------------------------------
(* Declarations *)

TypeOf(decl) == nodes[decl].kids[1]

SpecifiersTurn_Stuck ==       \* a slip: the token is looked at and kept
  /\ \E place \in {"enter", "more"} : At("specifiers", place)
  /\ UNCHANGED nodes /\ Stay
  /\ IF Tok \in Specifiers
     THEN Continue([Top EXCEPT !.at = "more"])
     ELSE Return(IF Top.at = "more" THEN "true" ELSE "false")
  /\ Rest

(* cc_parse_declaration_specifiers takes as many as there are, and says    *)
(* whether there was one.                                                  *)
SpecifiersTurn ==
  /\ \E place \in {"enter", "more"} : At("specifiers", place)
  /\ UNCHANGED nodes
  /\ IF Tok \in Specifiers
     THEN Consume /\ Continue([Top EXCEPT !.at = "more"])
     ELSE Stay /\ Return(IF Top.at = "more" THEN "true" ELSE "false")
  /\ Rest

(* cc_parse_declarator and cc_parse_direct_declarator: a name, ...         *)
DeclaratorName ==
  /\ At("declarator", "enter")
  /\ Tok = "IDENT"
  /\ nodes' = [nodes EXCEPT ![Top.expr].name = cur + 1] /\ Consume
  /\ Continue([Top EXCEPT !.at = "name"]) /\ Rest

DeclaratorPlain ==
  /\ At("declarator", "name")
  /\ Tok # "("
  /\ UNCHANGED nodes /\ Stay
  /\ Return("true") /\ Rest

(* ... with parameters, which makes it a function: its type is reset, and  *)
(* a copy of what it was is the type that it returns, ...                  *)
DeclaratorParams ==
  /\ At("declarator", "name")
  /\ Tok = "("
  /\ LET type == TypeOf(Top.expr) IN
       nodes' = Append([nodes EXCEPT ![type] = [Node("NEW_TYPE", << >>) EXCEPT !.func = TRUE]],
                       nodes[type])
  /\ Consume
  /\ Call([Top EXCEPT !.at = "params"], Frame("parameter", Top.expr, FALSE, 0))
  /\ Rest

(* ... one after the other (cc_parse_parameter_list) ...                   *)
DeclaratorNext ==
  /\ At("declarator", "params")
  /\ ret = "true" /\ Tok = ","
  /\ UNCHANGED nodes /\ Consume
  /\ Call(Top, Frame("parameter", Top.expr, FALSE, 0))
  /\ Rest

(* ... or a declarator in parentheses.                                     *)
DeclaratorParen ==
  /\ At("declarator", "enter")
  /\ Tok = "("
  /\ UNCHANGED nodes /\ Consume
  /\ Call([Top EXCEPT !.at = "paren"], Frame("declarator", Top.expr, FALSE, 0))
  /\ Rest

DeclaratorClose ==
  /\ \E place \in {"params", "paren"} : At("declarator", place)
  /\ Top.at = "paren" => ret = "true"
  /\ Tok = ")"
  /\ UNCHANGED nodes /\ Consume
  /\ Return("true") /\ Rest

DeclaratorAbort ==
  /\ \E place \in {"params", "paren"} : At("declarator", place)
  /\ Tok # ")" \/ (Top.at = "paren" /\ ret = "false")
  /\ Top.at = "params" => ret = "false" \/ Tok # ","
  /\ Abort

DeclaratorNone ==
  /\ At("declarator", "enter")
  /\ Tok \notin {"IDENT", "("}
  /\ UNCHANGED nodes /\ Stay
  /\ Return("false") /\ Rest

(* cc_parse_parameter_declaration                                          *)
ParameterEnter ==
  /\ At("parameter", "enter")
  /\ Push(<<Node("NEW_TYPE", << >>), Node("NEW_VAR", <<Fresh, NIL>>)>>) /\ Stay
  /\ Call([Top EXCEPT !.at = "specs", !.made = <<Fresh, Fresh + 1>>],
          Frame("specifiers", Fresh + 1, FALSE, 0))
  /\ Rest

ParameterDeclarator ==
  /\ At("parameter", "specs")
  /\ ret = "true"
  /\ UNCHANGED nodes /\ Stay
  /\ Call([Top EXCEPT !.at = "decl"], Frame("declarator", Top.made[2], FALSE, 0))
  /\ Rest

(* Without specifiers: the type, the older of the two, is popped first.    *)
ParameterFail ==
  /\ At("parameter", "specs")
  /\ ret = "false"
  /\ Undo(Top.made)

ParameterDone ==
  /\ At("parameter", "decl")
  /\ IF ret = "true"
     THEN /\ nodes' = WithChild(nodes, TypeOf(Top.expr), Top.made[2]) /\ Stay
          /\ Return("true") /\ Rest
     ELSE Abort

Declaration ==
  \/ SpecifiersTurn
  \/ DeclaratorName \/ DeclaratorPlain \/ DeclaratorParams \/ DeclaratorNext
  \/ DeclaratorParen \/ DeclaratorClose \/ DeclaratorAbort \/ DeclaratorNone
  \/ ParameterEnter \/ ParameterDeclarator \/ ParameterFail \/ ParameterDone

-----------------------------------------------------------------------------
(* cc_parse_external_declaration and cc_parse_function_definition          *)

UnitBlock == 2      \* the translation unit's block, behind the empty node

ExternalEnter ==
  /\ At("external", "enter")
  /\ LET type == Fresh init == Fresh + 1 decl == Fresh + 2 IN
       /\ Push(<<Node("NEW_TYPE", << >>), Block, Node("NEW_VAR", <<type, init>>)>>) /\ Stay
       /\ Call([Top EXCEPT !.at = "specs", !.made = <<decl, init, type>>],
               Frame("specifiers", decl, FALSE, 0))
  /\ Rest

ExternalDeclarator ==
  /\ At("external", "specs")
  /\ ret # NoRet
  /\ UNCHANGED nodes /\ Stay
  /\ Call([Top EXCEPT !.at = "decl"], Frame("declarator", Top.made[1], FALSE, 0))
  /\ Rest

ExternalBody ==
  /\ At("external", "decl")
  /\ ret = "true"
  /\ UNCHANGED nodes /\ Stay
  /\ Call([Top EXCEPT !.at = "body"], Frame("compound", Top.made[2], FALSE, 0))
  /\ Rest

(* A function: the translation unit has it, and the next one is tried.     *)
ExternalDone ==
  /\ At("external", "body")
  /\ ret = "true"
  /\ nodes' = WithChild(nodes, UnitBlock, Top.made[1]) /\ Stay
  /\ Continue(Frame("external", 0, FALSE, 0))
  /\ kept' = cur
  /\ UNCHANGED <<tokens, ended, status>>

(* Anything else ends the translation unit, whatever follows it.           *)
ExternalNil ==
  /\ \E place \in {"decl", "body"} : At("external", place)
  /\ ret = "false"
  /\ IF PopsInOrder(Top.made)
     THEN /\ nodes' = SubSeq(nodes, 1, Len(nodes) - 3)
          /\ Return(NoRet) /\ status' = "parsed"
          /\ UNCHANGED <<tokens, ended, cur, kept>>
     ELSE Give("asserted")

External ==
  ExternalEnter \/ ExternalDeclarator \/ ExternalBody \/ ExternalDone \/ ExternalNil

-----------------------------------------------------------------------------
(* cc_ast_coalesce: what a reference to a node is replaced by.             *)
Coalesced[n \in DOMAIN nodes] ==
  IF nodes[n].type = "BLOCK" /\ Len(nodes[n].kids) = 1 THEN Coalesced[nodes[n].kids[1]] ELSE n

Root == IF status = "done" THEN Coalesced[UnitBlock] ELSE UnitBlock

Coalesce_Once ==       \* a slip: a block in a block is left
  /\ status = "parsed"
  /\ nodes' = [n \in DOMAIN nodes |-> [nodes[n] EXCEPT !.kids =
        [k \in DOMAIN @ |-> IF nodes[@[k]].type = "BLOCK" /\ Len(nodes[@[k]].kids) = 1
                             THEN nodes[@[k]].kids[1] ELSE @[k]]]]
  /\ status' = "done"
  /\ UNCHANGED <<tokens, ended, cur, stack, ret, kept>>

(* The end of cc_parse_translation_unit.                                   *)
Coalesce ==
  /\ status = "parsed"
  /\ nodes' = [n \in DOMAIN nodes |->
                 [nodes[n] EXCEPT !.kids = [k \in DOMAIN @ |-> Coalesced[@[k]]]]]
  /\ status' = "done"
  /\ UNCHANGED <<tokens, ended, cur, stack, ret, kept>>

(* The next token of the source comes into sight, or its end.              *)
Reveal ==
  /\ status = "parsing" /\ ~Known
  /\ \/ /\ Len(tokens) < MaxTokens
        /\ \E t \in NextTokens(tokens) : tokens' = Append(tokens, t)
        /\ UNCHANGED ended
     \/ ended' = TRUE /\ UNCHANGED tokens
  /\ UNCHANGED <<cur, nodes, stack, ret, status, kept>>

ParserInit ==
  /\ tokens = << >> /\ ended = FALSE /\ cur = 0
  /\ nodes = <<Node("INVALID", << >>), Block>>
  /\ stack = <<Frame("external", 0, FALSE, 0)>> /\ ret = NoRet
  /\ status = "parsing" /\ kept = 0

ParserNext ==
  \/ Operand \/ Binop \/ Condition \/ Assignment \/ Expr
  \/ Statement \/ Declaration \/ External
  \/ Coalesce \/ Reveal

-----------------------------------------------------------------------------
(* Properties *)

ParserTypeOK ==
  /\ cur \in 0 .. Len(tokens) /\ kept \in 0 .. cur
  /\ \A n \in DOMAIN nodes : \A k \in DOMAIN nodes[n].kids : nodes[n].kids[k] \in DOMAIN nodes
  /\ \A k \in DOMAIN stack : stack[k].expr \in 0 .. Len(nodes) /\ stack[k].lock \in BOOLEAN
  /\ ret \in {NoRet, "true", "false"}
  /\ status \in {"parsing", "parsed", "done", "aborted", "asserted"}

(* What a tree says, as tokens in the order of the source: [type, at], and *)
(* the place only where the tree knows it.                                 *)
Said(type) == <<[type |-> type, at |-> 0]>>
SaidAt(type, at) == <<[type |-> type, at |-> at]>>

Reading[n \in Nat] ==
  LET it == nodes[n]
      kid(k) == Reading[it.kids[k]]
  IN CASE it.type \in {"IDENT", "LITERAL"} -> SaidAt(it.type, it.name)
       [] it.type \in Range(Ops) -> kid(1) \o Said(it.type) \o kid(2)
       [] it.type = "IF" -> kid(1) \o Said("?") \o kid(2) \o Said(":") \o kid(3)
       [] it.type = "RETURN" -> Said("return") \o kid(1) \o Said(";")
       [] it.type = "BLOCK" -> FlattenSeq([k \in DOMAIN it.kids |-> kid(k)])
       [] it.type = "NEW_TYPE" ->
            IF ~it.func THEN << >>
            ELSE Said("(") \o Tail(FlattenSeq([k \in DOMAIN it.kids |-> Said(",") \o kid(k)])) \o Said(")")
       [] it.type = "NEW_VAR" ->
            SaidAt("IDENT", it.name) \o kid(1)
              \o (IF it.kids[2] = NIL THEN << >> ELSE Said("{") \o kid(2) \o Said("}"))
       [] OTHER -> << >>

(* Of the declarations that were kept: without the specifiers, which the   *)
(* tree has as flags.                                                      *)
KeptPlaces == SelectSeq([k \in 1 .. kept |-> k], LAMBDA k : tokens[k] \notin Specifiers)

(* No parentheses but those of parameters, which follow a name.            *)
PlainParens == \A k \in 1 .. kept : tokens[k] = "(" => k > 1 /\ tokens[k - 1] = "IDENT"

(* Nothing of a function that was kept is lost, doubled or moved: read     *)
(* from left to right, the tree has the tokens of the source, each name    *)
(* and number from its own place; and so it has when it was coalesced.     *)
TreeIsSource ==
  status \in {"parsed", "done"} /\ PlainParens =>
    LET reading == Reading[Root] IN
      /\ Len(reading) = Len(KeptPlaces)
      /\ \A k \in DOMAIN reading :
           /\ reading[k].type = tokens[KeptPlaces[k]]
           /\ reading[k].at \in {0, KeptPlaces[k]}

Below[n \in DOMAIN nodes] == {n} \cup UNION {Below[k] : k \in Range(nodes[n].kids)}

OpLevel(n) == IF nodes[n].type \in Range(Ops)
              THEN CHOOSE k \in DOMAIN Ops : Ops[k] = nodes[n].type ELSE 0
IsValue(n) == nodes[n].type \in {"IDENT", "LITERAL"} \cup Range(Ops)
IsValueOrIf(n) == IsValue(n) \/ nodes[n].type = "IF"
IsReturn(n) == nodes[n].type = "RETURN"

(* What the emitter is given is of the shapes that it is modelled for      *)
(* (Allowed in CcEmit): an operand binds tighter than its operator, a      *)
(* condition is no conditional, a body is a return or a block of returns.  *)
ShapesForEmitter ==
  status = "done" =>
    \A n \in Below[Root] :
      LET it == nodes[n] kid(k) == it.kids[k] IN
        /\ it.type \in Range(Ops) =>
             \A k \in 1 .. 2 : IsValue(kid(k)) /\ OpLevel(kid(k)) < OpLevel(n)
        /\ it.type = "IF" => IsValue(kid(1)) /\ IsValueOrIf(kid(2)) /\ IsValueOrIf(kid(3))
        /\ it.type = "RETURN" => IsValueOrIf(kid(1)) \/ nodes[kid(1)] = Block
        /\ it.type = "NEW_VAR" /\ kid(2) # NIL =>
             IsReturn(kid(2)) \/ (nodes[kid(2)].type = "BLOCK"
                                   /\ \A k \in Range(nodes[kid(2)].kids) : IsReturn(k))

(* A rule that says false has consumed nothing and left nothing behind, so *)
(* that another one may be tried in its place: neither a token nor a node, *)
(* and nothing in the block that it was to fill.                           *)
FailureLeavesNoTrace ==
  [][ret' = "false" /\ Len(stack') < Len(stack) =>
       /\ Top.mark = <<cur', Len(nodes')>>
       /\ Top.fn \in {"unary", "binop", "conditional", "assignment", "expression"} =>
            nodes'[Top.expr] = Block]_parserVars

(* The order of the pops is wrong for a parameter without a specifier, and *)
(* for a function without a body what its parameters pushed is still there *)
(* when the rest is popped; nowhere else does the arena's assertion fail.  *)
AssertsOnlyInDeclarations ==
  status = "asserted" =>
    \/ tokens[cur] \in {"(", ","} /\ Tok \notin Specifiers
    \/ tokens[cur] = ")" /\ Tok # "{"

-----------------------------------------------------------------------------
(* What a comment says and the code does not do *)

(* cc/parser.c:372, "Must be popped in order": the assertion of            *)
(* cc_ast_pop_node holds when a rule undoes what it did.                   *)
PoppedInOrder == status # "asserted"
===============================================================================
