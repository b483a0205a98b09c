------------------------------ MODULE MCCcFront ------------------------------
(* Texts of any characters, three functions as texts, and sources of any   *)
(* tokens that the parser goes on with, with two of its sixteen operators. *)
EXTENDS CcFront

MCOps == <<"*", "+">>
MCSpecifiers == {"int"}
MCKeywords == << <<"r", "e", "t", "u", "r", "n">>, <<"i", "n", "t">>, <<"d", "o">> >>

InBody(s) == LET Count(t) == Len(SelectSeq(s, LAMBDA x : x = t)) IN Count("{") > Count("}")

(* After each token, those that the grammar lets follow it and one that it *)
(* does not.                                                               *)
LikelyTokens(s) ==
  IF InBody(s)
  THEN CASE Last(s) \in {"{", ";"} -> {"return", "}", "IDENT"}
         [] Last(s) = "return" -> {"IDENT", "LITERAL", ";", "+"}
         [] Last(s) \in {"IDENT", "LITERAL"} -> {"*", "+", "?", ":", ";", "IDENT"}
         [] OTHER -> {"IDENT", ";"}
  ELSE CASE s = << >> \/ Last(s) \in {"}", "int"} -> {"int", "IDENT", "(", ";"}
         [] Last(s) = "IDENT" -> {"(", ")", ",", "{", ";"}
         [] Last(s) = "(" -> {"int", "IDENT", "(", ")"}
         [] Last(s) = "," -> {"int", ")"}
         [] OTHER -> {"(", ")", ",", "{", ";"}

(* Texts of n pieces, with a blank behind them and without.                *)
Of(pieces, n) ==
  LET all == {FlattenSeq(s) : s \in [1 .. n -> pieces]}
  IN all \cup {Append(s, "\n") : s \in all}

Smile == <<Wide, Wide, Wide, Wide>>
Signs == {<<c>> : c \in Range(Singles) \cup {"a", "1", " "}}
Relations == {<<"<">>, <<">">>, <<"=">>, <<"-">>, <<".">>, <<"1">>}
Words == {<<"i">>, <<"n">>, <<"t">>, <<"_">>, <<"0">>, <<";">>, <<" ">>, <<NUL>>, Smile, <<Wide, Wide>>}
Letter == {<<"i">>, <<"n">>, <<"t">>, <<"_">>, <<" ">>}

INT == <<"i", "n", "t", " ">>
RETURN == <<"r", "e", "t", "u", "r", "n", " ">>
Functions ==
  {INT \o <<"f", "(">> \o INT \o <<"a", ")", " ", "{", "\n">> \o RETURN \o <<"a", ";", "\n", "}">> \o end :
     end \in {<<"\n">>, << >>}} \cup
  {INT \o Smile \o <<"(">> \o INT \o Smile \o Smile \o <<")", "{">> \o RETURN \o Smile \o Smile \o
     <<"+", "1", "0", "*">> \o Smile \o <<";", "}", "\n">>}

MCTexts == Of(Signs, 2) \cup Of(Relations, 3) \cup Of(Words, 3) \cup Of(Letter, 4) \cup Functions

(* The sources alone.                                                      *)
NoTexts == {}
===============================================================================
