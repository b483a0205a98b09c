------------------------------- MODULE CcLexer --------------------------------
(***************************************************************************)
(* The lexer (cc/lexer.c): cc_tokenize, one token per step.  The text is a *)
(* sequence of bytes, each a character, or Wide for a byte that is not     *)
(* ASCII; a token is its type, where it begins and how long it is.  The    *)
(* type of an operator or a keyword is its spelling in TOKEN_LIST.         *)
(***************************************************************************)
EXTENDS Naturals, Sequences, SequencesExt

CONSTANTS
  Keywords,    \* the keywords of TOKEN_LIST, as sequences of letters
  Texts        \* bound: the texts that are tried

Letters == {"a", "d", "e", "f", "i", "n", "o", "r", "t", "u"}      \* isalpha
Digits == {"0", "1"}                                               \* isdigit
Blanks == {" ", "\n"}                                              \* isspace
NUL == "nul"
Wide == "wide"

ASSUME KeywordsAssumption == Keywords \in Seq(Seq(Letters) \ {<< >>})
ASSUME TextsAssumption == Texts \subseteq Seq(STRING)

VARIABLES
  text,      \* state->data
  p,         \* the place in the text, from 1
  lexed,     \* state->tokens: [type, pos, len]
  lexing     \* whether cc_tokenize is running

lexerVars == <<text, p, lexed, lexing>>

Spelling(chars) == FoldLeft(LAMBDA s, c : s \o c, "", chars)
Elem(chars) == [type |-> Spelling(chars), text |-> chars, kw |-> FALSE]
Keyword(chars) == [type |-> Spelling(chars), text |-> chars, kw |-> TRUE]

Triples == << <<".", ".", ".">>, <<"<", "<", "=">>, <<">", ">", "=">> >>
Pairs == << <<":", ":">>, <<"+", "+">>, <<"-", "-">>, <<"<", "=">>, <<">", "=">>,
            <<"=", "=">>, <<"!", "=">>, <<"|", "|">>, <<"&", "&">>, <<"+", "=">>,
            <<"-", "=">>, <<"/", "=">>, <<"%", "=">>, <<"*", "=">>, <<"&", "=">>,
            <<"^", "=">>, <<"|", "=">>, <<"<", "<">>, <<">", ">">>, <<"-", ">">> >>
Singles == << "!", "~", "+", "-", "/", "%", "*", "&", "^", "|", "?", ":", ";", ",",
              "<", ">", "=", "{", "}", "(", ")", "[", "]", "#", "." >>
SinglesAsTexts == [k \in DOMAIN Singles |-> <<Singles[k]>>]

OperatorTexts == Triples \o Pairs \o SinglesAsTexts

(* The operators, the longer ones first, then the keywords.                *)
TOKEN_LIST ==
  [k \in DOMAIN OperatorTexts |-> Elem(OperatorTexts[k])]
    \o [k \in DOMAIN Keywords |-> Keyword(Keywords[k])]

(* No operator and no keyword is spelled as the type of a name or a number.*)
ASSUME TypesAssumption == \A e \in Range(TOKEN_LIST) : e.type \notin {"IDENT", "LITERAL"}

Puncts == Range(Singles) \cup {"_", "@"}                           \* ispunct

(* cc_is_identifier and cc_utf8_len, whose argument is a signed byte.      *)
is_identifier(c) == c \in Letters \cup Digits \cup {"_"}
utf8_len(c) == IF c = Wide THEN 4 ELSE 1

-----------------------------------------------------------------------------
(* The entry's text is at place q, and the file goes on behind it.         *)
Spelled(e, q) ==
  /\ q + Len(e.text) <= Len(text)
  /\ \A k \in DOMAIN e.text : text[q + k - 1] = e.text[k]

EndsThere_Always(e, q) == TRUE      \* a slip: a keyword may go on as a name

(* A keyword ends there if the next character does not continue a name, or *)
(* if it is the last one of the file.                                      *)
EndsThere(e, q) ==
  LET after == q + Len(e.text) IN
    e.kw => after >= Len(text) \/ ~is_identifier(text[after])

Entries(q) == {k \in DOMAIN TOKEN_LIST : Spelled(TOKEN_LIST[k], q) /\ EndsThere(TOKEN_LIST[k], q)}

(* Where a number or a name ends that begins at q: its first character is  *)
(* taken whatever it is.                                                   *)
NumberEnd(q) ==
  LET end[k \in Nat] == IF k <= Len(text) /\ text[k] \in Digits THEN end[k + 1] ELSE k
  IN end[q + 1]

NameEnd(q) ==
  LET end[k \in Nat] ==
        IF k <= Len(text) /\ text[k] \notin Puncts \cup Blanks THEN end[k + utf8_len(text[k])] ELSE k
  IN end[q + utf8_len(text[q])]

(* The first entry of the list, or else a number or a name.                *)
TokenAt(q) ==
  IF Entries(q) # {}
  THEN LET e == TOKEN_LIST[Min(Entries(q))] IN [type |-> e.type, pos |-> q, len |-> Len(e.text)]
  ELSE IF text[q] \in Digits
       THEN [type |-> "LITERAL", pos |-> q, len |-> NumberEnd(q) - q]
       ELSE [type |-> "IDENT", pos |-> q, len |-> NameEnd(q) - q]

AfterBlanks ==
  LET skip[k \in Nat] == IF k <= Len(text) /\ text[k] \in Blanks THEN skip[k + 1] ELSE k IN skip[p]

LexToken ==
  /\ lexing
  /\ AfterBlanks <= Len(text) /\ text[AfterBlanks] # NUL
  /\ lexed' = Append(lexed, TokenAt(AfterBlanks))
  /\ p' = AfterBlanks + TokenAt(AfterBlanks).len
  /\ UNCHANGED <<text, lexing>>

(* At a NUL the loop neither ends nor moves.                               *)
LexStuck ==
  /\ lexing
  /\ AfterBlanks <= Len(text) /\ text[AfterBlanks] = NUL
  /\ p' = AfterBlanks
  /\ UNCHANGED <<text, lexed, lexing>>

LexEnd ==
  /\ lexing
  /\ AfterBlanks > Len(text)
  /\ lexing' = FALSE
  /\ UNCHANGED <<text, p, lexed>>

LexerInit ==
  /\ text \in Texts
  /\ p = 1 /\ lexed = << >> /\ lexing = TRUE

LexerNext == LexToken \/ LexStuck \/ LexEnd

-----------------------------------------------------------------------------
(* Properties *)

(* A text that ends with a blank, whose characters beyond ASCII are of     *)
(* four bytes and that has no NUL.                                         *)
Regular ==
  /\ text # << >> /\ Last(text) \in Blanks
  /\ \A k \in DOMAIN text :
       /\ text[k] # NUL
       /\ text[k] = Wide =>
            \E j \in {k - 3, k - 2, k - 1, k} :
              /\ j > 0 /\ j + 3 <= Len(text) /\ \A i \in j .. j + 3 : text[i] = Wide
              /\ Cardinality({i \in 1 .. j - 1 : text[i] = Wide}) % 4 = 0

Extent(t) == t.pos .. t.pos + t.len - 1
TextOf(t) == SubSeq(text, t.pos, t.pos + t.len - 1)
Follows(t) == text[t.pos + t.len]

Whole(t) ==
  CASE t.type = "IDENT" -> Follows(t) \in Puncts \cup Blanks
                             /\ TextOf(t) \in Range(Keywords) => Follows(t) = "_"
    [] t.type = "LITERAL" -> Follows(t) \notin Digits
    [] OTHER -> /\ \A e \in Range(TOKEN_LIST) : ~e.kw /\ Spelled(e, t.pos) => Len(e.text) <= t.len
                /\ TextOf(t) \in Range(Keywords) => ~is_identifier(Follows(t))

(* Every character that is not blank is in one token, and no token could   *)
(* be longer: a name goes on to the next blank or sign, the underscore     *)
(* being one, a number as far as there are digits; an operator is no part  *)
(* of a longer one at its place, and a keyword is all of a name.           *)
TokensAreText ==
  ~lexing /\ Regular =>
    /\ UNION {Extent(lexed[k]) : k \in DOMAIN lexed} = {q \in DOMAIN text : text[q] \notin Blanks}
    /\ \A k \in DOMAIN lexed : k > 1 => lexed[k].pos >= lexed[k - 1].pos + lexed[k - 1].len
    /\ \A k \in DOMAIN lexed : Whole(lexed[k])
===============================================================================
