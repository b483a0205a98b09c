------------------------------- MODULE CcFront --------------------------------
(***************************************************************************)
(* The front end of the driver (cc/main.c): the whole text is lexed, and   *)
(* the parser runs on the tokens.  A behaviour begins with a text, or      *)
(* after the lexer with a source that the parser reveals.                  *)
(***************************************************************************)
EXTENDS CcLexer, CcParser

frontVars == <<lexerVars, parserVars>>

FrontInit ==
  /\ ParserInit
  /\ \/ LexerInit
     \/ text = << >> /\ p = 1 /\ lexed = << >> /\ lexing = FALSE

Lexing == (LexToken \/ LexStuck) /\ UNCHANGED parserVars

(* cc_driver_parse_file: the parser is given what the lexer has pushed.    *)
Lexed ==
  /\ LexEnd
  /\ tokens' = [k \in DOMAIN lexed |-> lexed[k].type]
  /\ ended' = TRUE
  /\ UNCHANGED <<cur, nodes, stack, ret, status, kept>>

Parsing == ~lexing /\ ParserNext /\ UNCHANGED lexerVars

FrontNext == Lexing \/ Lexed \/ Parsing

(* One thread, which nothing keeps from its next step.                     *)
FrontSpec == FrontInit /\ [][FrontNext]_frontVars /\ WF_frontVars(FrontNext)

-----------------------------------------------------------------------------
(* Properties *)

FrontTypeOK ==
  /\ ParserTypeOK
  /\ p \in Nat /\ lexing \in BOOLEAN
  /\ lexed \in Seq([type : {"IDENT", "LITERAL"} \cup {e.type : e \in Range(TOKEN_LIST)},
                    pos : DOMAIN text, len : Nat \ {0}])

(* The front end comes to an end, also where a rule fails and is tried     *)
(* again, unless the text has a NUL.                                       *)
FrontEnds ==
  (NUL \notin Range(text)) ~> (~lexing /\ status \notin {"parsing", "parsed"})
===============================================================================
