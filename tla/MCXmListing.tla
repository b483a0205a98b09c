----------------------------- MODULE MCXmListing ------------------------------
(* The real widths and the real table.  Programs of two kinds of line each *)
(* go on in a way of their own.                                            *)
EXTENDS XmListing, Functions

Inst(e, o) == [kind |-> "inst", entry |-> e, operands |-> o]
Label(name) == [kind |-> "label", name |-> name]
Entry(name) == RealTable[CHOOSE k \in DOMAIN RealTable : RealTable[k].name = name]

(* Every entry as a line, with an immediate where it takes one and with    *)
(* registers; and a mnemonic that the table does not have.                 *)
Sample(imm) ==
  [d |-> 3, a |-> 9, b |-> IF imm THEN 200 ELSE 20, c |-> 5, imm |-> imm, label |-> NoLabel]

AnyLine ==
  {Inst(e, Sample(FALSE)) : e \in Range(RealTable) \cup {NoInst}} \cup
  {Inst(e, Sample(TRUE)) : e \in {x \in Range(RealTable) : x.format = "R4R4I8O8_IFHBS"}}

(* Branches to labels: until it is fixed up, the byte is the name's first  *)
(* character.  An operand keeps the blank that stands after its comma; the *)
(* name of a label never has one.                                          *)
To(name, label) ==
  Inst(Entry(name), [d |-> 2, a |-> 0, b |-> 76, c |-> 7, imm |-> FALSE, label |-> label])

Branch == {To("b", "L"), To("bz", "M"), To("call", "L")}
LabelLine == {Label("L"), Label("M")}
Filler == {Inst(Entry("add"), [Sample(TRUE) EXCEPT !.d = 1]), Inst(Entry("halt"), [Sample(FALSE) EXCEPT !.d = 1])}
ShortLine == Branch \cup LabelLine \cup Filler

(* Runs of additions between one branch and one label, around the longest  *)
(* distances that a byte has.                                              *)
Padding == Inst(Entry("add"), [Sample(TRUE) EXCEPT !.d = 4])
FarLine(s) == {Padding} \cup IF Len(s) > 30 THEN {Label("L"), To("b", "L")} ELSE {}

(* Two of any line; five that jump about; a far label.                     *)
ToolChainLines(s) ==
  CASE s = << >> -> AnyLine \cup ShortLine \cup {To("b", " L")}
    [] Len(s) = 1 /\ s[1] \in AnyLine -> AnyLine
    [] Len(s) = 1 /\ s[1] \in ShortLine -> ShortLine \cup {Padding, To("b", " L")}
    [] Len(s) \in 2 .. 4 /\ \A k \in DOMAIN s : s[k] \in ShortLine -> ShortLine
    [] Len(s) \in 2 .. 34 /\ s[Len(s)] = Padding -> FarLine(s)
    [] OTHER -> {}

OneLine(s) == IF s = << >> THEN AnyLine ELSE {}
===============================================================================
