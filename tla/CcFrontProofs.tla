---------------------------- MODULE CcFrontProofs ----------------------------
(***************************************************************************)
(* Proofs about the lexer and the parser, for every list of keywords and   *)
(* of operators, every set of specifiers and every source: the tokens are  *)
(* the text, a rule that fails leaves no trace, and the arena's assertion  *)
(* fails in declarations alone.                                            *)
(***************************************************************************)
EXTENDS CcFront, FiniteSetTheorems, WellFoundedInduction, SequenceTheorems, TLAPS

-----------------------------------------------------------------------------
(* Running on through a text *)

(* A set of numbers has a least one.                                       *)
LEMMA LeastOf ==
  ASSUME NEW S, S \subseteq Nat, S # {}
  PROVE  \E x \in S : \A y \in S : x <= y
<1>1. PICK x \in S : \A y \in S : ~(<<y, x>> \in OpToRel(<, Nat))
  BY NatLessThanWellFounded, WFMin, Zenon
<1>2. \A y \in S : ~(y < x)
  BY <1>1 DEF OpToRel
<1> QED BY <1>2

(* A set of numbers that are no larger than n has a greatest one.          *)
LEMMA GreatestOf ==
  ASSUME NEW n \in Nat, NEW S, S \subseteq 0 .. n, S # {}
  PROVE  \E x \in S : \A y \in S : y <= x
<1> DEFINE T == {n - y : y \in S}
<1>1. T \subseteq Nat /\ T # {}
  <2>1. \A y \in S : n - y \in Nat
    OBVIOUS
  <2>2. PICK y \in S : TRUE
    OBVIOUS
  <2> QED BY <2>1, <2>2
<1>2. PICK t \in T : \A y \in T : t <= y
  <2> HIDE DEF T
  <2> QED BY <1>1, LeastOf
<1>3. PICK x \in S : t = n - x
  OBVIOUS
<1>4. ASSUME NEW y \in S PROVE y <= x
  <2>1. t <= n - y
    BY <1>2
  <2> QED BY <2>1, <1>3
<1> QED BY <1>4

(* From k the places of go are passed, each by its step; f says where that *)
(* ends.                                                                   *)
Runs(f, go, step) == f = [k \in Nat |-> IF k \in go THEN f[step[k]] ELSE k]

(* Steps that go on, among places up to n.                                 *)
Advances(n, go, step) ==
  /\ n \in Nat /\ go \subseteq 0 .. n
  /\ step \in [Nat -> Nat] /\ \A k \in Nat : step[k] > k

(* The places that are come to from k.                                     *)
Closed(S, go, step) == \A i \in S : i \in go => step[i] \in S
Passes(k, go, step) == {j \in Nat : \A S \in SUBSET Nat : k \in S /\ Closed(S, go, step) => j \in S}

(* There is such a function, ...                                           *)
LEMMA RunsExists ==
  ASSUME NEW n, NEW go, NEW step, Advances(n, go, step)
  PROVE  \E f : Runs(f, go, step)
<1> DEFINE Ends(k) == {j \in Passes(k, go, step) : j \notin go}
           f == [k \in Nat |-> CHOOSE j \in Ends(k) : TRUE]
<1>1. ASSUME NEW k \in Nat
      PROVE  k \in Passes(k, go, step) /\ Passes(k, go, step) \subseteq Nat
  BY DEF Passes
<1>2. ASSUME NEW k \in Nat, k \notin go
      PROVE  Ends(k) = {k}
  <2>1. {k} \in SUBSET Nat /\ k \in {k} /\ Closed({k}, go, step)
    BY <1>2 DEF Closed
  <2>2. Passes(k, go, step) \subseteq {k}
    BY <2>1, Zenon DEF Passes
  <2> QED BY <1>1, <1>2, <2>2
<1>3. ASSUME NEW k \in Nat, k \in go
      PROVE  Passes(k, go, step) = {k} \cup Passes(step[k], go, step) /\ step[k] \in Nat
  <2>0. step[k] \in Nat
    BY DEF Advances
  <2>1. ASSUME NEW j \in Passes(k, go, step)
        PROVE  j \in {k} \cup Passes(step[k], go, step)
    <3> DEFINE S == {k} \cup Passes(step[k], go, step)
    <3>1. Closed(S, go, step)
      <4> SUFFICES ASSUME NEW i \in S, i \in go PROVE step[i] \in S
        BY DEF Closed
      <4>1. CASE i = k
        BY <4>1, <2>0 DEF Passes
      <4>2. CASE i \in Passes(step[k], go, step)
        <5>1. step[i] \in Nat
          BY <4>2 DEF Passes, Advances
        <5>2. ASSUME NEW T \in SUBSET Nat, step[k] \in T, Closed(T, go, step)
              PROVE  step[i] \in T
          <6>1. i \in T
            BY <4>2, <5>2 DEF Passes
          <6> QED BY <6>1, <5>2 DEF Closed
        <5> QED BY <5>1, <5>2 DEF Passes
      <4> QED BY <4>1, <4>2
    <3>2. S \in SUBSET Nat /\ k \in S
      BY DEF Passes
    <3> HIDE DEF S
    <3>3. j \in S
      BY <2>1, <3>1, <3>2 DEF Passes
    <3> QED BY <3>3 DEF S
  <2>2. ASSUME NEW j \in Passes(step[k], go, step)
        PROVE  j \in Passes(k, go, step)
    <3>1. ASSUME NEW T \in SUBSET Nat, k \in T, Closed(T, go, step)
          PROVE  j \in T
      <4>1. step[k] \in T
        BY <3>1, <1>3 DEF Closed
      <4> QED BY <2>2, <3>1, <4>1 DEF Passes
    <3> QED BY <3>1, <2>2 DEF Passes
  <2> QED BY <2>0, <2>1, <2>2, <1>1
<1>4. ASSUME NEW k \in Nat, k \in go
      PROVE  Ends(k) = Ends(step[k]) /\ step[k] \in Nat
  BY <1>3, <1>4
<1>5. ASSUME NEW k \in Nat
      PROVE  f[k] = IF k \in go THEN f[step[k]] ELSE k
  <2>1. CASE k \in go
    <3>1. f[k] = (CHOOSE j \in Ends(k) : TRUE) /\ f[step[k]] = (CHOOSE j \in Ends(step[k]) : TRUE)
      BY <1>4, <2>1
    <3>2. Ends(k) = Ends(step[k])
      BY <1>4, <2>1
    <3> HIDE DEF Ends, f
    <3> QED BY <2>1, <3>1, <3>2
  <2>2. CASE k \notin go
    <3>1. f[k] = (CHOOSE j \in Ends(k) : TRUE)
      OBVIOUS
    <3>2. Ends(k) = {k}
      BY <1>2, <2>2
    <3>3. f[k] \in {k}
      <4> HIDE DEF Ends, f
      <4> QED BY <3>1, <3>2
    <3> HIDE DEF f
    <3> QED BY <2>2, <3>3
  <2> QED BY <2>1, <2>2
<1>6. f = [k \in Nat |-> IF k \in go THEN f[step[k]] ELSE k]
  <2> DEFINE g == [k \in Nat |-> IF k \in go THEN f[step[k]] ELSE k]
  <2>1. \A k \in Nat : f[k] = g[k]
    <3> SUFFICES ASSUME NEW k \in Nat PROVE f[k] = g[k]
      OBVIOUS
    <3>1. g[k] = IF k \in go THEN f[step[k]] ELSE k
      <4> HIDE DEF f
      <4> QED OBVIOUS
    <3> HIDE DEF f, g
    <3> QED BY <3>1, <1>5
  <2>2. f = [k \in Nat |-> f[k]] /\ g = [k \in Nat |-> g[k]]
    <3>1. f = [k \in Nat |-> f[k]]
      OBVIOUS
    <3>2. g = [k \in Nat |-> g[k]]
      <4> HIDE DEF f
      <4> QED OBVIOUS
    <3> QED BY <3>1, <3>2, Zenon
  <2> HIDE DEF f, g
  <2>3. f = g
    BY <2>1, <2>2
  <2> QED BY <2>3 DEF g
<1> QED BY <1>6 DEF Runs

(* ... and it ends behind all of the places, in every set of places that   *)
(* the steps do not leave.                                                 *)
LEMMA RunsTo ==
  ASSUME NEW n, NEW go, NEW step, Advances(n, go, step),
         NEW f, Runs(f, go, step),
         NEW S \in SUBSET Nat, Closed(S, go, step), NEW k \in S
  PROVE  f[k] \in S /\ f[k] \notin go
<1> DEFINE B == {i \in S : ~(f[i] \in S /\ f[i] \notin go)}
<1>1. ASSUME NEW i \in Nat
      PROVE  f[i] = IF i \in go THEN f[step[i]] ELSE i
  <2> DEFINE g == [j \in Nat |-> IF j \in go THEN f[step[j]] ELSE j]
  <2>1. f = g
    BY DEF Runs
  <2>2. g[i] = IF i \in go THEN f[step[i]] ELSE i
    OBVIOUS
  <2> HIDE DEF g
  <2> QED BY <2>1, <2>2
<1>2. B \subseteq go
  BY <1>1
<1>3. B = {}
  <2> SUFFICES ASSUME B # {} PROVE FALSE
    OBVIOUS
  <2>1. n \in Nat /\ B \subseteq 0 .. n
    BY <1>2 DEF Advances
  <2>2. PICK i \in B : \A j \in B : j <= i
    <3> HIDE DEF B
    <3> QED BY <2>1, GreatestOf
  <2>3. i \in S /\ i \in go /\ i \in Nat /\ step[i] \in S /\ step[i] > i /\ step[i] \in Nat
    BY <1>2 DEF Closed, Advances
  <2>4. step[i] \notin B
    <3> HIDE DEF B
    <3> QED BY <2>2, <2>3
  <2>5. f[i] = f[step[i]]
    BY <1>1, <2>3
  <2> QED BY <2>3, <2>4, <2>5
<1> QED BY <1>3

-----------------------------------------------------------------------------
(* The list of tokens                                                      *)

Signs == {"!", "~", "+", "-", "/", "%", "*", "&", "^", "|", "?", ":", ";", ",",
          "<", ">", "=", "{", "}", "(", ")", "[", "]", "#", "."}

(* A list of n texts of m signs each.                                      *)
Listed(list, n, m) ==
  list \in Seq(Seq(Signs)) /\ Len(list) = n /\ \A k \in 1 .. n : Len(list[k]) = m

(* A sign is no blank, is in no name, and is not beyond ASCII.             *)
LEMMA SignsApart ==
  /\ Signs \cap (Letters \cup Digits \cup Blanks \cup {"_", NUL, Wide}) = {}
  /\ Range(Singles) \subseteq Signs
<1>1. Signs \cap (Letters \cup Digits \cup Blanks \cup {"_", NUL, Wide}) = {}
  BY Zenon DEF Signs, Letters, Digits, Blanks, NUL, Wide
<1>2. Singles \in Seq(Signs)
  BY SMT DEF Signs, Singles
<1>3. \A i \in DOMAIN Singles : Singles[i] \in Signs
  BY <1>2, ElementOfSeq, LenProperties
<1> QED BY <1>1, <1>3, Zenon DEF Range

(* The operators of three signs, ...                                       *)
LEMMA TriplesOf ==
  ASSUME NEW S, NEW d \in S, NEW l \in S, NEW g \in S, NEW e \in S
  PROVE  << <<d, d, d>>, <<l, l, e>>, <<g, g, e>> >> \in Seq(Seq(S))
OBVIOUS

(* ... and those of two.                                                   *)
LEMMA PairsOf ==
  ASSUME NEW S, NEW c \in S, NEW q \in S, NEW m \in S, NEW l \in S, NEW g \in S, NEW e \in S,
         NEW n \in S, NEW o \in S, NEW a \in S, NEW s \in S, NEW r \in S, NEW t \in S, NEW x \in S
  PROVE  << <<c, c>>, <<q, q>>, <<m, m>>, <<l, e>>, <<g, e>>,
            <<e, e>>, <<n, e>>, <<o, o>>, <<a, a>>, <<q, e>>,
            <<m, e>>, <<s, e>>, <<r, e>>, <<t, e>>, <<a, e>>,
            <<x, e>>, <<o, e>>, <<l, l>>, <<g, g>>, <<m, g>> >> \in Seq(Seq(S))
OBVIOUS

(* The operators are of three signs, of two, and of one, ...               *)
LEMMA OperatorLengths ==
  Listed(Triples, 3, 3) /\ Listed(Pairs, 20, 2) /\ Listed(SinglesAsTexts, 25, 1)
<1>1. /\ "." \in Signs /\ "<" \in Signs /\ ">" \in Signs /\ "=" \in Signs /\ ":" \in Signs
      /\ "+" \in Signs /\ "-" \in Signs /\ "!" \in Signs /\ "|" \in Signs /\ "&" \in Signs
      /\ "/" \in Signs /\ "%" \in Signs /\ "*" \in Signs /\ "^" \in Signs
  BY Zenon DEF Signs
<1>2. Listed(Triples, 3, 3)
  <2>1. Triples \in Seq(Seq(Signs))
    BY <1>1, TriplesOf, Zenon DEF Triples
  <2>2. Len(Triples) = 3 /\ \A k \in 1 .. 3 : Len(Triples[k]) = 3
    BY SMT DEF Triples
  <2> QED BY <2>1, <2>2 DEF Listed
<1>3. Listed(Pairs, 20, 2)
  <2>1. Pairs \in Seq(Seq(Signs))
    BY <1>1, PairsOf, Zenon DEF Pairs
  <2>2. Len(Pairs) = 20 /\ \A k \in 1 .. 20 : Len(Pairs[k]) = 2
    BY SMT DEF Pairs
  <2> QED BY <2>1, <2>2 DEF Listed
<1>4. Listed(SinglesAsTexts, 25, 1)
  <2>1. Singles \in Seq(Signs) /\ Len(Singles) = 25
    BY SMT DEF Signs, Singles
  <2>2. SinglesAsTexts = [k \in 1 .. 25 |-> <<Singles[k]>>]
    BY <2>1, LenProperties DEF SinglesAsTexts
  <2>3. \A k \in 1 .. 25 : Singles[k] \in Signs
    BY <2>1, ElementOfSeq
  <2> HIDE DEF Signs, Singles
  <2>4. \A k \in 1 .. 25 : <<Singles[k]>> \in Seq(Signs) /\ Len(<<Singles[k]>>) = 1
    BY <2>3
  <2>5. SinglesAsTexts \in [1 .. 25 -> Seq(Signs)] /\ 25 \in Nat
    BY <2>2, <2>4
  <2>6. SinglesAsTexts \in Seq(Seq(Signs)) /\ Len(SinglesAsTexts) = 25
    <3>1. PICK T : T = Seq(Signs)
      OBVIOUS
    <3>2. PICK f : f = SinglesAsTexts
      OBVIOUS
    <3>3. f \in [1 .. 25 -> T]
      BY <2>5, <3>1, <3>2
    <3> HIDE <3>1, <3>2
    <3>4. f \in Seq(T)
      BY <3>3, SeqDef
    <3>5. DOMAIN f = 1 .. 25 /\ DOMAIN f = 1 .. Len(f) /\ Len(f) \in Nat
      BY <3>3, <3>4, LenProperties
    <3>6. Len(f) = 25
      BY <3>5
    <3> QED BY <3>1, <3>2, <3>4, <3>6
  <2> QED BY <2>2, <2>4, <2>6 DEF Listed
<1> QED BY <1>2, <1>3, <1>4, Zenon

(* ... in this order.                                                      *)
LEMMA OperatorsListed ==
  /\ OperatorTexts \in Seq(Seq(Signs)) /\ Len(OperatorTexts) = 48
  /\ \A k \in 1 .. 48 :
       Len(OperatorTexts[k]) = IF k <= 3 THEN 3 ELSE IF k <= 23 THEN 2 ELSE 1
<1>1. PICK a : a = Triples
  OBVIOUS
<1>2. PICK b : b = Pairs
  OBVIOUS
<1>3. PICK c : c = SinglesAsTexts
  OBVIOUS
<1>4. PICK S : S = Seq(Signs)
  OBVIOUS
<1>5. /\ a \in Seq(S) /\ Len(a) = 3 /\ \A k \in 1 .. 3 : Len(a[k]) = 3
      /\ b \in Seq(S) /\ Len(b) = 20 /\ \A k \in 1 .. 20 : Len(b[k]) = 2
      /\ c \in Seq(S) /\ Len(c) = 25 /\ \A k \in 1 .. 25 : Len(c[k]) = 1
  BY OperatorLengths, <1>1, <1>2, <1>3, <1>4 DEF Listed
<1> HIDE <1>1, <1>2, <1>3, <1>4
<1>6. PICK d : d = a \o b
  OBVIOUS
<1>7. /\ d \in Seq(S) /\ Len(d) = 23
      /\ \A k \in 1 .. 23 : d[k] = IF k <= 3 THEN a[k] ELSE b[k - 3]
  <2>1. /\ d \in Seq(S) /\ Len(d) = Len(a) + Len(b)
        /\ \A k \in 1 .. Len(a) + Len(b) : d[k] = IF k <= Len(a) THEN a[k] ELSE b[k - Len(a)]
    BY <1>5, <1>6, ConcatProperties
  <2>2. Len(a) = 3 /\ Len(a) + Len(b) = 23
    BY <1>5
  <2> QED BY <2>1, <2>2
<1>8. PICK e : e = d \o c
  OBVIOUS
<1>9. /\ e \in Seq(S) /\ Len(e) = 48
      /\ \A k \in 1 .. 48 : e[k] = IF k <= 23 THEN d[k] ELSE c[k - 23]
  <2>1. /\ e \in Seq(S) /\ Len(e) = Len(d) + Len(c)
        /\ \A k \in 1 .. Len(d) + Len(c) : e[k] = IF k <= Len(d) THEN d[k] ELSE c[k - Len(d)]
    BY <1>5, <1>7, <1>8, ConcatProperties
  <2>2. Len(d) = 23 /\ Len(d) + Len(c) = 48
    BY <1>5, <1>7
  <2> QED BY <2>1, <2>2
<1>10. ASSUME NEW k \in 1 .. 48
       PROVE  Len(e[k]) = IF k <= 3 THEN 3 ELSE IF k <= 23 THEN 2 ELSE 1
  <2>1. CASE k <= 3
    <3>1. k \in 1 .. 3 /\ k \in 1 .. 23
      BY <2>1
    <3>2. e[k] = d[k] /\ d[k] = a[k]
      <4>1. k <= 23
        BY <2>1
      <4> QED BY <4>1, <3>1, <2>1, <1>7, <1>9, Zenon
    <3>3. Len(a[k]) = 3
      BY <3>1, <1>5
    <3> QED BY <2>1, <3>2, <3>3
  <2>2. CASE k > 3 /\ k <= 23
    <3>1. k \in 1 .. 23 /\ k - 3 \in 1 .. 20
      BY <2>2
    <3>2. e[k] = d[k] /\ d[k] = b[k - 3]
      <4>1. ~(k <= 3)
        BY <2>2
      <4> QED BY <4>1, <3>1, <2>2, <1>7, <1>9, Zenon
    <3>3. Len(b[k - 3]) = 2
      BY <3>1, <1>5
    <3> QED BY <2>2, <3>2, <3>3
  <2>3. CASE k > 23
    <3>1. k - 23 \in 1 .. 25
      BY <2>3
    <3>2. e[k] = c[k - 23]
      <4>1. ~(k <= 23)
        BY <2>3
      <4> QED BY <4>1, <1>9, Zenon
    <3>3. Len(c[k - 23]) = 1
      BY <3>1, <1>5
    <3> QED BY <2>3, <3>2, <3>3
  <2> QED BY <2>1, <2>2, <2>3
<1>11. OperatorTexts = e
  BY <1>1, <1>2, <1>3, <1>6, <1>8, Zenon DEF OperatorTexts
<1> QED BY <1>4, <1>9, <1>10, <1>11

(* What the list has at place k: the operators, the longer ones first, and *)
(* then the keywords.                                                      *)
Entry(e, k) ==
  /\ Len(e.text) \in Nat \ {0} /\ DOMAIN e.text = 1 .. Len(e.text)
  /\ e.type \notin {"IDENT", "LITERAL"}
  /\ k <= 48 => ~e.kw /\ e.text \in Seq(Signs)
  /\ k > 48 => e.kw /\ e.text \in Seq(Letters) /\ e.text \in Range(Keywords)

(* Each place of the list is one of these, ...                             *)
LEMMA ListEntries ==
  /\ Len(TOKEN_LIST) \in Nat /\ DOMAIN TOKEN_LIST = 1 .. Len(TOKEN_LIST)
  /\ \A k \in DOMAIN TOKEN_LIST : Entry(TOKEN_LIST[k], k)
  /\ \A k \in DOMAIN TOKEN_LIST : k <= 48 => Len(TOKEN_LIST[k].text) =
                                                IF k <= 3 THEN 3 ELSE IF k <= 23 THEN 2 ELSE 1
  /\ \A w \in Range(Keywords) : \E k \in DOMAIN TOKEN_LIST : TOKEN_LIST[k] = Keyword(w)
<1>1. PICK n \in Nat : n = Len(Keywords) /\ DOMAIN Keywords = 1 .. n
  BY KeywordsAssumption, LenProperties
<1>2. \A k \in 1 .. n : Keywords[k] \in Seq(Letters) /\ Keywords[k] # << >>
  BY KeywordsAssumption, <1>1, ElementOfSeq
<1>3. PICK a : a = [k \in DOMAIN OperatorTexts |-> Elem(OperatorTexts[k])]
  OBVIOUS
<1>4. PICK b : b = [k \in DOMAIN Keywords |-> Keyword(Keywords[k])]
  OBVIOUS
<1>5. DOMAIN OperatorTexts = 1 .. 48
  BY OperatorsListed, LenProperties
<1>6. PICK S : S = {Elem(OperatorTexts[k]) : k \in 1 .. 48} \cup {Keyword(Keywords[k]) : k \in 1 .. n}
  OBVIOUS
<1>7. /\ a \in [1 .. 48 -> S] /\ \A k \in 1 .. 48 : a[k] = Elem(OperatorTexts[k])
      /\ b \in [1 .. n -> S] /\ \A k \in 1 .. n : b[k] = Keyword(Keywords[k])
  <2>1. a \in [1 .. 48 -> S] /\ \A k \in 1 .. 48 : a[k] = Elem(OperatorTexts[k])
    <3>1. a = [k \in 1 .. 48 |-> Elem(OperatorTexts[k])]
      BY <1>3, <1>5, Zenon
    <3> QED BY <3>1, <1>6, Zenon
  <2>2. b \in [1 .. n -> S] /\ \A k \in 1 .. n : b[k] = Keyword(Keywords[k])
    <3>1. b = [k \in 1 .. n |-> Keyword(Keywords[k])]
      BY <1>1, <1>4, Zenon
    <3> QED BY <3>1, <1>6, Zenon
  <2> QED BY <2>1, <2>2, Zenon
<1>8. a \in Seq(S) /\ Len(a) = 48 /\ b \in Seq(S) /\ Len(b) = n
  <2>1. ASSUME NEW m \in Nat, NEW f, f \in [1 .. m -> S]
        PROVE  f \in Seq(S) /\ Len(f) = m
    <3>1. f \in Seq(S)
      BY <2>1, SeqDef
    <3>2. DOMAIN f = 1 .. m
      BY <2>1
    <3> QED BY <3>1, <3>2, LenProperties
  <2>2. 48 \in Nat
    OBVIOUS
  <2> QED BY <2>1, <2>2, <1>7, Zenon
<1>9. PICK l : l = a \o b
  OBVIOUS
<1>10. /\ l \in Seq(S) /\ Len(l) = Len(a) + Len(b)
       /\ \A k \in 1 .. Len(a) + Len(b) : l[k] = IF k <= Len(a) THEN a[k] ELSE b[k - Len(a)]
  <2>0. a \in Seq(S) /\ b \in Seq(S)
    BY <1>8
  <2>1. /\ a \o b \in Seq(S) /\ Len(a \o b) = Len(a) + Len(b)
        /\ \A k \in 1 .. Len(a) + Len(b) : (a \o b)[k] = IF k <= Len(a) THEN a[k] ELSE b[k - Len(a)]
    BY <2>0, ConcatProperties
  <2> QED BY <2>1, <1>9, Zenon
<1>11. Len(l) = 48 + n /\ DOMAIN l = 1 .. 48 + n
  BY <1>8, <1>10, LenProperties
<1>12. ASSUME NEW k \in 1 .. 48
       PROVE  k \in DOMAIN l /\ l[k] = Elem(OperatorTexts[k])
  <2>1. k \in DOMAIN l /\ k \in 1 .. Len(a) + Len(b) /\ k <= Len(a)
    BY <1>8, <1>11
  <2>2. l[k] = a[k]
    BY <2>1, <1>10, Zenon
  <2> QED BY <2>1, <2>2, <1>7
<1>13. ASSUME NEW k \in 1 .. n
       PROVE  48 + k \in DOMAIN l /\ l[48 + k] = Keyword(Keywords[k])
  <2>1. 48 + k \in DOMAIN l /\ 48 + k \in 1 .. Len(a) + Len(b) /\ ~(48 + k <= Len(a)) /\ 48 + k - Len(a) = k
    BY <1>8, <1>11
  <2>2. l[48 + k] = b[48 + k - Len(a)]
    <3>1. PICK j : j = 48 + k
      OBVIOUS
    <3>2. j \in 1 .. Len(a) + Len(b) /\ ~(j <= Len(a))
      BY <2>1, <3>1
    <3>3. l[j] = b[j - Len(a)]
      BY <3>2, <1>10, Zenon
    <3> QED BY <3>1, <3>3
  <2>3. l[48 + k] = b[k]
    BY <2>1, <2>2
  <2> QED BY <2>1, <2>3, <1>7
<1>14. ASSUME NEW k \in DOMAIN l, k > 48
       PROVE  \E j \in 1 .. n : k = 48 + j /\ l[k] = Keyword(Keywords[j])
  <2>1. k - 48 \in 1 .. n /\ k = 48 + (k - 48)
    BY <1>11, <1>14
  <2> QED BY <2>1, <1>13
<1>15. TOKEN_LIST = l
  BY <1>3, <1>4, <1>9, Zenon DEF TOKEN_LIST
<1>16. ASSUME NEW k \in DOMAIN l
       PROVE  Entry(l[k], k)
  <2>0. k \in 1 .. 48 + n
    BY <1>11, Zenon
  <2>1. l[k].type \notin {"IDENT", "LITERAL"}
    BY <1>15, TypesAssumption DEF Range
  <2>2. CASE k <= 48
    <3>1. k \in 1 .. 48 /\ ~(k > 48)
      BY <2>0, <2>2
    <3>2. l[k].text = OperatorTexts[k] /\ l[k].kw = FALSE
      BY <3>1, <1>12 DEF Elem
    <3>3. OperatorTexts[k] \in Seq(Signs) /\ Len(OperatorTexts[k]) \in {1, 2, 3}
      BY <3>1, OperatorsListed, ElementOfSeq
    <3>4. DOMAIN OperatorTexts[k] = 1 .. Len(OperatorTexts[k])
      BY <3>3, LenProperties
    <3> QED BY <2>1, <3>1, <3>2, <3>3, <3>4 DEF Entry
  <2>3. CASE k > 48
    <3>1. PICK j \in 1 .. n : k = 48 + j /\ l[k] = Keyword(Keywords[j])
      BY <2>3, <1>14
    <3>2. l[k].text = Keywords[j] /\ l[k].kw = TRUE
      BY <3>1 DEF Keyword
    <3>3. Keywords[j] \in Seq(Letters) /\ Keywords[j] # << >> /\ Keywords[j] \in Range(Keywords)
      BY <1>1, <1>2 DEF Range
    <3>4. Len(Keywords[j]) \in Nat \ {0} /\ DOMAIN Keywords[j] = 1 .. Len(Keywords[j])
      BY <3>3, LenProperties, EmptySeq
    <3>5. ~(k <= 48)
      BY <2>3, <1>11
    <3> QED BY <2>1, <3>2, <3>3, <3>4, <3>5 DEF Entry
  <2> QED BY <2>2, <2>3, <2>0
<1>17. ASSUME NEW k \in DOMAIN l, k <= 48
       PROVE  Len(l[k].text) = IF k <= 3 THEN 3 ELSE IF k <= 23 THEN 2 ELSE 1
  <2>0. k \in 1 .. 48 + n
    BY <1>11, Zenon
  <2>1. k \in 1 .. 48
    BY <2>0, <1>17
  <2>2. l[k].text = OperatorTexts[k]
    BY <2>1, <1>12 DEF Elem
  <2>3. Len(OperatorTexts[k]) = IF k <= 3 THEN 3 ELSE IF k <= 23 THEN 2 ELSE 1
    BY <2>1, OperatorsListed, Zenon
  <2> QED BY <2>2, <2>3, Zenon
<1>18. ASSUME NEW w \in Range(Keywords)
       PROVE  \E k \in DOMAIN l : l[k] = Keyword(w)
  <2>1. PICK j \in 1 .. n : w = Keywords[j]
    BY <1>1 DEF Range
  <2> QED BY <2>1, <1>13
<1>19. Len(l) \in Nat /\ DOMAIN l = 1 .. Len(l)
  BY <1>11
<1> QED BY <1>15, <1>16, <1>17, <1>18, <1>19

-----------------------------------------------------------------------------
(* The text *)

TextOK == text \in Seq(STRING)

(* The bytes before k that are not ASCII are of whole characters.          *)
Wides(k) == {i \in 1 .. k - 1 : text[i] = Wide}
Aligned(k) == Cardinality(Wides(k)) % 4 = 0

(* One byte further.                                                       *)
LEMMA WidesNext ==
  ASSUME NEW k \in Nat \ {0}
  PROVE  /\ Cardinality(Wides(k)) \in Nat
         /\ text[k] = Wide => Cardinality(Wides(k + 1)) = Cardinality(Wides(k)) + 1
         /\ text[k] # Wide => Wides(k + 1) = Wides(k)
<1>1. IsFiniteSet(1 .. k - 1)
  BY FS_Interval
<1>2. IsFiniteSet(Wides(k))
  <2>1. Wides(k) \subseteq 1 .. k - 1
    BY DEF Wides
  <2> QED BY <1>1, <2>1, FS_Subset, Zenon
<1>3. k \notin Wides(k)
  BY DEF Wides
<1>4. text[k] = Wide => Wides(k + 1) = Wides(k) \cup {k}
  BY DEF Wides
<1>5. text[k] # Wide => Wides(k + 1) = Wides(k)
  BY DEF Wides
<1>6. Cardinality(Wides(k)) \in Nat
  BY <1>2, FS_CardinalityType, Zenon
<1>7. Cardinality(Wides(k) \cup {k}) = Cardinality(Wides(k)) + 1
  BY <1>2, <1>3, FS_AddElement
<1> QED BY <1>4, <1>5, <1>6, <1>7

(* Four bytes that are not ASCII further.                                  *)
LEMMA WidesFour ==
  ASSUME NEW k \in Nat \ {0}, \A i \in k .. k + 3 : text[i] = Wide
  PROVE  /\ Cardinality(Wides(k)) \in Nat
         /\ \A d \in 0 .. 4 : Cardinality(Wides(k + d)) = Cardinality(Wides(k)) + d
<1>1. text[k] = Wide /\ text[k + 1] = Wide /\ text[k + 2] = Wide /\ text[k + 3] = Wide
  OBVIOUS
<1>2. PICK a \in Nat, b \in Nat, c \in Nat : a = k + 1 /\ b = k + 2 /\ c = k + 3
  OBVIOUS
<1>3. /\ Cardinality(Wides(k)) \in Nat /\ Cardinality(Wides(k + 1)) = Cardinality(Wides(k)) + 1
      /\ Cardinality(Wides(a + 1)) = Cardinality(Wides(a)) + 1
      /\ Cardinality(Wides(b + 1)) = Cardinality(Wides(b)) + 1
      /\ Cardinality(Wides(c + 1)) = Cardinality(Wides(c)) + 1
  <2>1. k \in Nat \ {0} /\ a \in Nat \ {0} /\ b \in Nat \ {0} /\ c \in Nat \ {0}
    BY <1>2
  <2>2. text[k] = Wide /\ text[a] = Wide /\ text[b] = Wide /\ text[c] = Wide
    BY <1>1, <1>2
  <2> QED BY <2>1, <2>2, WidesNext
<1>4. a + 1 = k + 2 /\ b + 1 = k + 3 /\ c + 1 = k + 4 /\ k + 0 = k
  BY <1>2
<1>5. PICK w \in Nat : w = Cardinality(Wides(k))
  BY <1>3
<1>6. /\ Cardinality(Wides(k + 0)) = w + 0 /\ Cardinality(Wides(k + 1)) = w + 1
      /\ Cardinality(Wides(k + 2)) = w + 2
      /\ Cardinality(Wides(k + 3)) = w + 3 /\ Cardinality(Wides(k + 4)) = w + 4
  BY <1>2, <1>3, <1>4, <1>5
<1>7. ASSUME NEW d \in 0 .. 4 PROVE Cardinality(Wides(k + d)) = w + d
  <2>1. d = 0 \/ d = 1 \/ d = 2 \/ d = 3 \/ d = 4
    OBVIOUS
  <2> QED BY <2>1, <1>6, Zenon
<1> QED BY <1>5, <1>7

(* One character further.                                                  *)
LEMMA AlignedNext ==
  ASSUME TextOK, Regular, NEW k \in 1 .. Len(text), Aligned(k)
  PROVE  /\ text[k] # Wide => Aligned(k + 1)
         /\ text[k] \notin Blanks =>
              /\ k + utf8_len(text[k]) \in k + 1 .. Len(text)
              /\ Aligned(k + utf8_len(text[k]))
              /\ \A i \in k .. k + utf8_len(text[k]) - 1 : text[i] \notin Blanks
<1>0. Len(text) \in Nat /\ text[Len(text)] \in Blanks /\ Wide \notin Blanks
  <2>1. Len(text) \in Nat
    BY LenProperties DEF TextOK
  <2>2. Wide \notin Blanks
    BY DEF Wide, Blanks
  <2> QED BY <2>1, <2>2 DEF Regular, Last
<1>1. CASE text[k] # Wide
  <2>1. Aligned(k + 1)
    BY <1>1, WidesNext DEF Aligned
  <2>2. utf8_len(text[k]) = 1
    BY <1>1 DEF utf8_len
  <2>3. text[k] \notin Blanks => k # Len(text)
    BY <1>0
  <2>4. \A i \in k .. k + 1 - 1 : i = k
    OBVIOUS
  <2> QED BY <2>1, <2>2, <2>3, <2>4, <1>0, <1>1
<1>2. CASE text[k] = Wide
  <2>1. PICK j \in {k - 3, k - 2, k - 1, k} :
          /\ j > 0 /\ j + 3 <= Len(text) /\ \A i \in j .. j + 3 : text[i] = Wide
          /\ Cardinality(Wides(j)) % 4 = 0
    <3>1. k \in DOMAIN text
      BY LenProperties DEF TextOK
    <3> QED BY <1>2, <3>1 DEF Regular, Wides
  <2>2. j \in Nat \ {0}
    BY <2>1
  <2>3. PICK d \in 0 .. 3 : k = j + d
    <3>1. k - j \in 0 .. 3 /\ k = j + (k - j)
      BY <2>1
    <3> QED BY <3>1
  <2>4. PICK w \in Nat : w = Cardinality(Wides(j)) /\ \A e \in 0 .. 4 : Cardinality(Wides(j + e)) = w + e
    BY <2>1, <2>2, WidesFour
  <2>5. w % 4 = 0 /\ (w + d) % 4 = 0
    <3>1. Cardinality(Wides(k)) = w + d
      <4>1. d \in 0 .. 4
        OBVIOUS
      <4>2. Cardinality(Wides(j + d)) = w + d
        BY <2>4, <4>1
      <4> QED BY <4>2, <2>3, Zenon
    <3> QED BY <2>1, <2>4, <3>1 DEF Aligned
  <2>6. k = j
    <3>1. d = 0
      BY <2>5
    <3> QED BY <2>2, <2>3, <3>1
  <2>7. Aligned(k + 4)
    <3>1. Cardinality(Wides(k + 4)) = w + 4
      BY <2>4, <2>6
    <3>2. (w + 4) % 4 = 0
      BY <2>5
    <3> QED BY <3>1, <3>2 DEF Aligned
  <2>8. utf8_len(text[k]) = 4
    BY <1>2 DEF utf8_len
  <2>9. \A i \in k .. k + 4 - 1 : text[i] \notin Blanks
    <3>1. k + 4 - 1 = k + 3
      OBVIOUS
    <3> QED BY <3>1, <2>1, <2>6, <1>0
  <2>10. k + 3 # Len(text)
    BY <2>9, <1>0
  <2>11. k + 4 \in k + 1 .. Len(text)
    BY <2>1, <2>6, <2>10, <1>0
  <2> QED BY <2>7, <2>8, <2>9, <2>11, <1>2
<1> QED BY <1>1, <1>2

-----------------------------------------------------------------------------
(* One token *)

(* A token that begins at q ends before e: there are characters left, and  *)
(* none of its own is blank.                                               *)
Reaches(q, e) ==
  /\ e \in Nat /\ e > q
  /\ Regular /\ Aligned(q) /\ text[q] \notin Blanks =>
       /\ e <= Len(text) /\ Aligned(e)
       /\ \A i \in q .. e - 1 : text[i] \notin Blanks

(* A token goes on with a character that is not blank.                     *)
LEMMA ReachesOn ==
  ASSUME TextOK, NEW q \in 1 .. Len(text), NEW e, Reaches(q, e),
         e <= Len(text), text[e] \notin Blanks
  PROVE  Reaches(q, e + utf8_len(text[e]))
<1>1. utf8_len(text[e]) \in {1, 4}
  BY DEF utf8_len
<1>2. PICK l \in {1, 4} : l = utf8_len(text[e])
  BY <1>1
<1>3. e \in Nat /\ e > q
  BY DEF Reaches
<1>4. ASSUME Regular, Aligned(q), text[q] \notin Blanks
      PROVE  e + l <= Len(text) /\ Aligned(e + l) /\ \A i \in q .. e + l - 1 : text[i] \notin Blanks
  <2>1. Aligned(e) /\ \A i \in q .. e - 1 : text[i] \notin Blanks
    BY <1>4 DEF Reaches
  <2>2. e \in 1 .. Len(text) /\ Len(text) \in Nat
    BY <1>3, LenProperties DEF TextOK
  <2>3. /\ e + l \in e + 1 .. Len(text) /\ Aligned(e + l)
        /\ \A i \in e .. e + l - 1 : text[i] \notin Blanks
    BY <1>2, <1>4, <2>1, <2>2, AlignedNext
  <2>4. ASSUME NEW i \in q .. e + l - 1 PROVE text[i] \notin Blanks
    <3>1. i \in q .. e - 1 \/ i \in e .. e + l - 1
      BY <1>3
    <3> QED BY <3>1, <2>1, <2>3
  <2> QED BY <2>2, <2>3, <2>4
<1>5. e + l \in Nat /\ e + l > q
  BY <1>3
<1> QED BY <1>2, <1>4, <1>5 DEF Reaches

(* The first character of a token is taken.                                *)
LEMMA ReachesFirst ==
  ASSUME TextOK, NEW q \in 1 .. Len(text)
  PROVE  /\ Reaches(q, q + utf8_len(text[q]))
         /\ text[q] # Wide => Reaches(q, q + 1)
<1>1. utf8_len(text[q]) \in {1, 4}
  BY DEF utf8_len
<1>2. PICK l \in {1, 4} : l = utf8_len(text[q])
  BY <1>1
<1>3. ASSUME Regular, Aligned(q), text[q] \notin Blanks
      PROVE  /\ q + l <= Len(text) /\ Aligned(q + l)
             /\ \A i \in q .. q + l - 1 : text[i] \notin Blanks
  BY <1>2, <1>3, AlignedNext, LenProperties DEF TextOK
<1>4. q + l \in Nat /\ q + l > q
  OBVIOUS
<1>5. Reaches(q, q + l)
  BY <1>3, <1>4 DEF Reaches
<1>6. text[q] # Wide => l = 1
  BY <1>2 DEF utf8_len
<1> QED BY <1>2, <1>5, <1>6

NumbersGo == {k \in Nat : k <= Len(text) /\ text[k] \in Digits}
NamesGo == {k \in Nat : k <= Len(text) /\ text[k] \notin Puncts \cup Blanks}
BlanksGo == {k \in Nat : k <= Len(text) /\ text[k] \in Blanks}
ByOne == [k \in Nat |-> k + 1]
ByCharacter == [k \in Nat |-> k + utf8_len(text[k])]

(* What the three loops of the lexer define is such a function.            *)
LEMMA LoopsRun ==
  ASSUME Len(text) \in Nat, NEW q \in Nat
  PROVE  /\ \E f : Runs(f, NumbersGo, ByOne) /\ NumberEnd(q) = f[q + 1]
         /\ \E f : Runs(f, NamesGo, ByCharacter) /\ NameEnd(q) = f[q + utf8_len(text[q])]
         /\ \E f : Runs(f, BlanksGo, ByOne) /\ AfterBlanks = f[p]
<1>1. \E f : Runs(f, NumbersGo, ByOne) /\ NumberEnd(q) = f[q + 1]
  <2> DEFINE D(f) == [k \in Nat |-> IF k <= Len(text) /\ text[k] \in Digits THEN f[k + 1] ELSE k]
  <2>1. \A f : Runs(f, NumbersGo, ByOne) <=> f = D(f)
    BY DEF Runs, NumbersGo, ByOne
  <2>2. Advances(Len(text), NumbersGo, ByOne)
    BY DEF Advances, NumbersGo, ByOne
  <2>3. \E f : f = D(f)
    BY <2>1, <2>2, RunsExists
  <2>4. NumberEnd(q) = (CHOOSE f : f = D(f))[q + 1]
    BY DEF NumberEnd
  <2> HIDE DEF D
  <2>5. PICK f : f = D(f) /\ f = (CHOOSE g : g = D(g))
    BY <2>3
  <2> QED BY <2>1, <2>4, <2>5
<1>2. \E f : Runs(f, NamesGo, ByCharacter) /\ NameEnd(q) = f[q + utf8_len(text[q])]
  <2> DEFINE D(f) == [k \in Nat |-> IF k <= Len(text) /\ text[k] \notin Puncts \cup Blanks
                                    THEN f[k + utf8_len(text[k])] ELSE k]
  <2>1. \A f : Runs(f, NamesGo, ByCharacter) <=> f = D(f)
    BY DEF Runs, NamesGo, ByCharacter
  <2>2. Advances(Len(text), NamesGo, ByCharacter)
    BY DEF Advances, NamesGo, ByCharacter, utf8_len
  <2>3. \E f : f = D(f)
    BY <2>1, <2>2, RunsExists
  <2>4. NameEnd(q) = (CHOOSE f : f = D(f))[q + utf8_len(text[q])]
    BY DEF NameEnd
  <2> HIDE DEF D
  <2>5. PICK f : f = D(f) /\ f = (CHOOSE g : g = D(g))
    BY <2>3
  <2> QED BY <2>1, <2>4, <2>5
<1>3. \E f : Runs(f, BlanksGo, ByOne) /\ AfterBlanks = f[p]
  <2> DEFINE D(f) == [k \in Nat |-> IF k <= Len(text) /\ text[k] \in Blanks THEN f[k + 1] ELSE k]
  <2>1. \A f : Runs(f, BlanksGo, ByOne) <=> f = D(f)
    BY DEF Runs, BlanksGo, ByOne
  <2>2. Advances(Len(text), BlanksGo, ByOne)
    BY DEF Advances, BlanksGo, ByOne
  <2>3. \E f : f = D(f)
    BY <2>1, <2>2, RunsExists
  <2>4. AfterBlanks = (CHOOSE f : f = D(f))[p]
    BY DEF AfterBlanks
  <2> HIDE DEF D
  <2>5. PICK f : f = D(f) /\ f = (CHOOSE g : g = D(g))
    BY <2>3
  <2> QED BY <2>1, <2>4, <2>5
<1> QED BY <1>1, <1>2, <1>3

(* A number ends before what is no digit, ...                              *)
LEMMA NumberEnds ==
  ASSUME TextOK, NEW q \in 1 .. Len(text), text[q] \in Digits
  PROVE  /\ Reaches(q, NumberEnd(q))
         /\ NumberEnd(q) <= Len(text) => text[NumberEnd(q)] \notin Digits
<1> DEFINE S == {e \in Nat : Reaches(q, e)}
<1>1. Len(text) \in Nat
  BY LenProperties DEF TextOK
<1>2. PICK f : Runs(f, NumbersGo, ByOne) /\ NumberEnd(q) = f[q + 1]
  BY <1>1, LoopsRun
<1>3. \A c \in Digits : c # Wide /\ c \notin Blanks
  BY DEF Digits, Wide, Blanks
<1>4. q + 1 \in S
  BY <1>3, ReachesFirst DEF Reaches
<1>5. Closed(S, NumbersGo, ByOne)
  <2> SUFFICES ASSUME NEW e \in S, e \in NumbersGo PROVE e + 1 \in S
    BY DEF Closed, ByOne
  <2>1. text[e] \notin Blanks /\ utf8_len(text[e]) = 1 /\ e <= Len(text)
    BY <1>3 DEF NumbersGo, utf8_len
  <2>2. Reaches(q, e + 1)
    BY <2>1, ReachesOn
  <2> QED BY <2>2
<1>6. Advances(Len(text), NumbersGo, ByOne)
  BY <1>1 DEF Advances, NumbersGo, ByOne
<1>7. S \in SUBSET Nat
  OBVIOUS
<1> HIDE DEF S
<1>8. f[q + 1] \in S /\ f[q + 1] \notin NumbersGo
  BY <1>2, <1>4, <1>5, <1>6, <1>7, RunsTo
<1> QED BY <1>2, <1>8 DEF S, NumbersGo

(* ... a name before a sign or a blank.                                    *)
LEMMA NameEnds ==
  ASSUME TextOK, NEW q \in 1 .. Len(text)
  PROVE  /\ Reaches(q, NameEnd(q))
         /\ NameEnd(q) <= Len(text) => text[NameEnd(q)] \in Puncts \cup Blanks
<1> DEFINE S == {e \in Nat : Reaches(q, e)}
<1>1. Len(text) \in Nat
  BY LenProperties DEF TextOK
<1>2. PICK f : Runs(f, NamesGo, ByCharacter) /\ NameEnd(q) = f[q + utf8_len(text[q])]
  BY <1>1, LoopsRun
<1>4. q + utf8_len(text[q]) \in S
  BY ReachesFirst DEF Reaches
<1>5. Closed(S, NamesGo, ByCharacter)
  <2> SUFFICES ASSUME NEW e \in S, e \in NamesGo PROVE e + utf8_len(text[e]) \in S
    BY DEF Closed, ByCharacter
  <2>1. text[e] \notin Blanks /\ e <= Len(text)
    BY DEF NamesGo
  <2>2. Reaches(q, e + utf8_len(text[e]))
    BY <2>1, ReachesOn
  <2> QED BY <2>2 DEF Reaches
<1>6. Advances(Len(text), NamesGo, ByCharacter)
  BY <1>1 DEF Advances, NamesGo, ByCharacter, utf8_len
<1>7. S \in SUBSET Nat
  OBVIOUS
<1> HIDE DEF S
<1>8. f[q + utf8_len(text[q])] \in S /\ f[q + utf8_len(text[q])] \notin NamesGo
  BY <1>2, <1>4, <1>5, <1>6, <1>7, RunsTo
<1> QED BY <1>2, <1>8 DEF S, NamesGo

(* There are but blanks from a to b.                                       *)
BlankTo(a, b) ==
  /\ b \in Nat /\ b >= a /\ \A i \in a .. b - 1 : i <= Len(text) /\ text[i] \in Blanks
  /\ Regular /\ Aligned(a) => Aligned(b)

(* The blanks before a token are passed, all of them and nothing else.     *)
LEMMA BlanksEnd ==
  ASSUME TextOK, p \in Nat \ {0}
  PROVE  /\ BlankTo(p, AfterBlanks)
         /\ AfterBlanks <= Len(text) => text[AfterBlanks] \notin Blanks
<1> DEFINE S == {b \in Nat : BlankTo(p, b)}
<1>1. Len(text) \in Nat
  BY LenProperties DEF TextOK
<1>2. PICK f : Runs(f, BlanksGo, ByOne) /\ AfterBlanks = f[p]
  BY <1>1, LoopsRun
<1>3. \A c \in Blanks : c # Wide
  BY DEF Wide, Blanks
<1>4. p \in S
  BY DEF BlankTo
<1>5. Closed(S, BlanksGo, ByOne)
  <2> SUFFICES ASSUME NEW b \in S, b \in BlanksGo PROVE b + 1 \in S
    BY DEF Closed, ByOne
  <2>1. text[b] \in Blanks /\ b <= Len(text) /\ b \in Nat /\ b >= p
    BY DEF BlanksGo, BlankTo
  <2>2. ASSUME NEW i \in p .. b + 1 - 1 PROVE i <= Len(text) /\ text[i] \in Blanks
    <3>1. i = b \/ i \in p .. b - 1
      BY <2>1
    <3> QED BY <3>1, <2>1 DEF BlankTo
  <2>3. Regular /\ Aligned(p) => Aligned(b + 1)
    <3>1. b \in 1 .. Len(text)
      BY <2>1, <1>1
    <3>2. Regular /\ Aligned(p) => Aligned(b)
      BY DEF BlankTo
    <3> QED BY <3>1, <3>2, <2>1, <1>3, AlignedNext
  <2> QED BY <2>1, <2>2, <2>3 DEF BlankTo
<1>6. Advances(Len(text), BlanksGo, ByOne)
  BY <1>1 DEF Advances, BlanksGo, ByOne
<1>7. S \in SUBSET Nat
  OBVIOUS
<1> HIDE DEF S
<1>8. f[p] \in S /\ f[p] \notin BlanksGo
  BY <1>2, <1>4, <1>5, <1>6, <1>7, RunsTo
<1> QED BY <1>2, <1>8 DEF S, BlanksGo

(* An operator or a keyword is text that is not blank.                     *)
LEMMA SpelledReaches ==
  ASSUME TextOK, NEW q \in 1 .. Len(text), NEW e, NEW j, Entry(e, j), j \in Nat, Spelled(e, q)
  PROVE  Reaches(q, q + Len(e.text))
<1> DEFINE Missed == {d \in Nat : d > 0 /\ d <= Len(e.text) /\ ~Reaches(q, q + d)}
<1>1. Len(e.text) \in Nat \ {0} /\ DOMAIN e.text = 1 .. Len(e.text)
  BY DEF Entry
<1>2. ASSUME NEW d \in 1 .. Len(e.text)
      PROVE  e.text[d] # Wide /\ e.text[d] \notin Blanks
  <2>1. e.text[d] \in Signs \cup Letters
    BY ElementOfSeq DEF Entry
  <2>2. Letters \cap (Blanks \cup {Wide}) = {}
    BY Zenon DEF Letters, Blanks, Wide
  <2> QED BY <2>1, <2>2, SignsApart
<1>3. q + Len(e.text) <= Len(text) /\ \A d \in 1 .. Len(e.text) : text[q + d - 1] = e.text[d]
  BY <1>1 DEF Spelled
<1>4. Missed = {}
  <2> SUFFICES ASSUME Missed # {} PROVE FALSE
    OBVIOUS
  <2>1. PICK d \in Missed : \A y \in Missed : d <= y
    <3>1. Missed \subseteq Nat
      OBVIOUS
    <3> HIDE DEF Missed
    <3> QED BY <3>1, LeastOf
  <2>2. d \in Nat /\ d > 0 /\ d <= Len(e.text) /\ ~Reaches(q, q + d)
    OBVIOUS
  <2>3. text[q + d - 1] # Wide /\ text[q + d - 1] \notin Blanks
    <3>1. d \in 1 .. Len(e.text)
      BY <1>1, <2>2
    <3>2. text[q + d - 1] = e.text[d]
      BY <3>1, <1>3, Zenon
    <3> QED BY <3>1, <3>2, <1>2
  <2>4. CASE d = 1
    BY <2>2, <2>3, <2>4, ReachesFirst
  <2>5. CASE d > 1
    <3>1. d - 1 \in Nat /\ d - 1 > 0 /\ d - 1 <= Len(e.text) /\ ~(d <= d - 1)
      BY <1>1, <2>2, <2>5
    <3>2. Reaches(q, q + (d - 1))
      <4>1. d - 1 \notin Missed
        <5> HIDE DEF Missed
        <5> QED BY <2>1, <3>1
      <4> QED BY <3>1, <4>1
    <3>3. PICK b \in Nat : b = q + d - 1
      BY <2>2
    <3>4. Reaches(q, b) /\ b <= Len(text) /\ text[b] \notin Blanks /\ utf8_len(text[b]) = 1
      <4>1. b = q + (d - 1) /\ b <= Len(text)
        BY <1>1, <1>3, <2>2, <3>3, LenProperties DEF TextOK
      <4> QED BY <4>1, <3>2, <3>3, <2>3 DEF utf8_len
    <3>5. Reaches(q, b + 1)
      BY <3>4, ReachesOn
    <3>6. b + 1 = q + d
      BY <2>2, <3>3
    <3> QED BY <2>2, <3>5, <3>6
  <2> QED BY <2>2, <2>4, <2>5
<1> QED BY <1>1, <1>4

(* The first entry at a place: no operator there is longer.                *)
LEMMA FirstEntry ==
  ASSUME NEW q, Entries(q) # {}
  PROVE  \E k \in Entries(q) :
           /\ k = Min(Entries(q)) /\ k \in DOMAIN TOKEN_LIST /\ k \in Nat
           /\ \A j \in DOMAIN TOKEN_LIST :
                ~TOKEN_LIST[j].kw /\ Spelled(TOKEN_LIST[j], q) =>
                  Len(TOKEN_LIST[j].text) <= Len(TOKEN_LIST[k].text)
<1>1. Entries(q) \subseteq Nat
  BY ListEntries DEF Entries
<1>2. \E x \in Entries(q) : \A y \in Entries(q) : x <= y
  BY <1>1, LeastOf
<1>3. PICK k : k = Min(Entries(q))
  OBVIOUS
<1>4. k \in Entries(q) /\ \A y \in Entries(q) : k <= y
  BY <1>2, <1>3 DEF Min
<1>5. k \in DOMAIN TOKEN_LIST /\ k \in Nat
  BY <1>1, <1>4 DEF Entries
<1>6. ASSUME NEW j \in DOMAIN TOKEN_LIST, ~TOKEN_LIST[j].kw, Spelled(TOKEN_LIST[j], q)
      PROVE  Len(TOKEN_LIST[j].text) <= Len(TOKEN_LIST[k].text)
  <2>1. j \in Entries(q)
    BY <1>6 DEF Entries, EndsThere
  <2>2. k <= j /\ j \in Nat
    BY <1>1, <1>4, <2>1
  <2>3. j <= 48
    BY <1>6, <2>2, ListEntries DEF Entry
  <2>4. k <= 48
    BY <1>5, <2>2, <2>3
  <2>5. Len(TOKEN_LIST[j].text) = IF j <= 3 THEN 3 ELSE IF j <= 23 THEN 2 ELSE 1
    BY <2>3, ListEntries
  <2>6. Len(TOKEN_LIST[k].text) = IF k <= 3 THEN 3 ELSE IF k <= 23 THEN 2 ELSE 1
    BY <2>4, <1>5, ListEntries
  <2> QED BY <1>5, <2>2, <2>5, <2>6
<1> QED BY <1>3, <1>4, <1>5, <1>6

(* The text of a token, character by character.                            *)
LEMMA TextCut ==
  ASSUME TextOK, NEW q \in 1 .. Len(text), NEW l \in Nat \ {0}, q + l <= Len(text) + 1
  PROVE  /\ Len(SubSeq(text, q, q + l - 1)) = l
         /\ \A i \in 1 .. l : SubSeq(text, q, q + l - 1)[i] = text[q + i - 1]
<1>1. Len(text) \in Nat /\ \A i \in 1 .. Len(text) : text[i] \in STRING
  BY LenProperties, ElementOfSeq DEF TextOK
<1>2. PICK m \in Nat : m = q + l - 1 /\ q <= m /\ m - q + 1 = l /\ m <= Len(text)
  BY <1>1
<1>3. PICK s : s = SubSeq(text, q, m)
  OBVIOUS
<1>4. \A i \in q .. m : text[i] \in STRING
  BY <1>1, <1>2
<1>5. /\ Len(s) = IF q <= m THEN m - q + 1 ELSE 0
      /\ \A i \in 1 .. m - q + 1 : s[i] = text[q + i - 1]
  BY <1>3, <1>4, SubSeqProperties
<1>6. Len(s) = l /\ \A i \in 1 .. l : s[i] = text[q + i - 1]
  BY <1>2, <1>5
<1> QED BY <1>2, <1>3, <1>6

LexedTokens ==
  [type : {"IDENT", "LITERAL"} \cup {e.type : e \in Range(TOKEN_LIST)}, pos : DOMAIN text, len : Nat \ {0}]

(* Where a token begins.                                                   *)
TokenBegins(q) == Regular /\ Aligned(q) /\ text[q] \notin Blanks

(* A token t at q is of the type and the length that it has to be.         *)
Right(t, q) == t \in LexedTokens /\ t.pos = q /\ Reaches(q, q + t.len) /\ (TokenBegins(q) => Whole(t))

(* A blank is in no name.                                                  *)
LEMMA BlanksApart ==
  /\ \A c \in Blanks : ~is_identifier(c) /\ c \notin Digits
  /\ \A c \in Puncts \cup Blanks : is_identifier(c) => c = "_"
<1>1. \A c \in Blanks : ~is_identifier(c) /\ c \notin Digits
  BY Zenon DEF Blanks, is_identifier, Letters, Digits
<1>2. ASSUME NEW c \in Puncts, is_identifier(c) PROVE c = "_"
  <2>1. c \in Signs \cup {"_", "@"}
    BY SignsApart, Zenon DEF Puncts
  <2>2. "@" \notin Letters \cup Digits \cup {"_"}
    BY Zenon DEF Letters, Digits
  <2>3. c \in Letters \cup Digits \cup {"_"}
    BY <1>2, Zenon DEF is_identifier
  <2>4. c \notin Signs
    BY <2>3, SignsApart, Zenon
  <2> QED BY <2>1, <2>2, <2>3, <2>4, Zenon
<1> QED BY <1>1, <1>2, Zenon

(* An operator or a keyword is.                                            *)
LEMMA EntryRight ==
  ASSUME TextOK, NEW q \in 1 .. Len(text), Entries(q) # {}
  PROVE  Right(TokenAt(q), q)
<1>1. PICK k \in Entries(q) :
        /\ k = Min(Entries(q)) /\ k \in DOMAIN TOKEN_LIST /\ k \in Nat
        /\ \A j \in DOMAIN TOKEN_LIST :
             ~TOKEN_LIST[j].kw /\ Spelled(TOKEN_LIST[j], q) =>
               Len(TOKEN_LIST[j].text) <= Len(TOKEN_LIST[k].text)
  BY FirstEntry
<1>2. PICK e : e = TOKEN_LIST[k]
  OBVIOUS
<1>3. Entry(e, k) /\ Spelled(e, q) /\ EndsThere(e, q) /\ e \in Range(TOKEN_LIST)
  BY <1>1, <1>2, ListEntries DEF Entries, Range
<1>4. PICK t : t = TokenAt(q)
  OBVIOUS
<1>5. t = [type |-> e.type, pos |-> q, len |-> Len(e.text)]
  BY <1>1, <1>2, <1>4 DEF TokenAt
<1>6. Len(e.text) \in Nat \ {0} /\ DOMAIN e.text = 1 .. Len(e.text) /\ e.type \notin {"IDENT", "LITERAL"}
  BY <1>3 DEF Entry
<1>7. Reaches(q, q + Len(e.text))
  BY <1>1, <1>3, SpelledReaches
<1>8. t \in LexedTokens
  <2>1. q \in DOMAIN text
    BY LenProperties DEF TextOK
  <2> QED BY <1>3, <1>5, <1>6, <2>1 DEF LexedTokens
<1>9. q + Len(e.text) <= Len(text) /\ Len(text) \in Nat
  BY <1>3, LenProperties DEF Spelled, TextOK
<1>10. ASSUME Regular, SubSeq(text, q, q + Len(e.text) - 1) \in Range(Keywords)
       PROVE  ~is_identifier(text[q + Len(e.text)])
  <2>1. PICK w : w = SubSeq(text, q, q + Len(e.text) - 1)
    OBVIOUS
  <2>2. w \in Range(Keywords) /\ w[1] = text[q]
    <3>1. q + Len(e.text) <= Len(text) + 1 /\ 1 \in 1 .. Len(e.text) /\ q + 1 - 1 = q
      BY <1>6, <1>9
    <3>2. w[1] = text[q + 1 - 1]
      BY <2>1, <3>1, <1>6, TextCut
    <3> QED BY <1>10, <2>1, <3>1, <3>2
  <2>3. text[q] = e.text[1]
    <3>1. 1 \in DOMAIN e.text /\ q + 1 - 1 = q
      BY <1>6
    <3> QED BY <3>1, <1>3 DEF Spelled
  <2>4. w[1] \in Letters
    <3>1. PICK i \in DOMAIN Keywords : w = Keywords[i]
      BY <2>2 DEF Range
    <3>2. w \in Seq(Letters) /\ w # << >>
      BY <3>1, KeywordsAssumption, ElementOfSeq, LenProperties
    <3>3. 1 \in 1 .. Len(w)
      BY <3>2, EmptySeq, LenProperties
    <3> QED BY <3>2, <3>3, ElementOfSeq
  <2>5. k > 48
    <3> SUFFICES ASSUME k <= 48 PROVE FALSE
      BY <1>1
    <3>1. e.text \in Seq(Signs)
      BY <1>3 DEF Entry
    <3>2. e.text[1] \in Signs
      BY <3>1, <1>6, ElementOfSeq
    <3> QED BY <2>2, <2>3, <2>4, <3>2, SignsApart, Zenon
  <2>6. e.kw
    BY <1>3, <2>5 DEF Entry
  <2>7. q + Len(e.text) >= Len(text) \/ ~is_identifier(text[q + Len(e.text)])
    BY <1>3, <2>6 DEF EndsThere
  <2>8. text[Len(text)] \in Blanks
    BY <1>10 DEF Regular, Last
  <2>9. ~is_identifier(text[Len(text)])
    BY <2>8, BlanksApart, Zenon
  <2>10. q + Len(e.text) >= Len(text) => q + Len(e.text) = Len(text)
    BY <1>6, <1>9
  <2> QED BY <2>7, <2>9, <2>10
<1>11. ASSUME NEW x \in Range(TOKEN_LIST), ~x.kw, Spelled(x, q)
       PROVE  Len(x.text) <= Len(e.text)
  BY <1>1, <1>2, <1>11 DEF Range
<1>12. ASSUME TokenBegins(q) PROVE Whole(t)
  <2>1. Regular
    BY <1>12 DEF TokenBegins
  <2>2. t.type \notin {"IDENT", "LITERAL"} /\ t.pos = q /\ t.len = Len(e.text)
    BY <1>5, <1>6
  <2>3. /\ \A x \in Range(TOKEN_LIST) : ~x.kw /\ Spelled(x, t.pos) => Len(x.text) <= t.len
        /\ TextOf(t) \in Range(Keywords) => ~is_identifier(Follows(t))
    BY <1>10, <1>11, <2>1, <2>2 DEF TextOf, Follows
  <2> QED BY <2>2, <2>3 DEF Whole
<1> QED BY <1>4, <1>5, <1>7, <1>8, <1>12 DEF Right

(* A number or a name is.                                                  *)
LEMMA NameRight ==
  ASSUME TextOK, NEW q \in 1 .. Len(text), Entries(q) = {}
  PROVE  Right(TokenAt(q), q)
<1>1. PICK t : t = TokenAt(q)
  OBVIOUS
<1>2. q \in DOMAIN text /\ q \in Nat /\ Len(text) \in Nat
  BY LenProperties DEF TextOK
<1>3. CASE text[q] \in Digits
  <2>1. PICK e : e = NumberEnd(q)
    OBVIOUS
  <2>2. Reaches(q, e) /\ (e <= Len(text) => text[e] \notin Digits)
    BY <1>3, <2>1, NumberEnds
  <2>3. t = [type |-> "LITERAL", pos |-> q, len |-> e - q]
    BY <1>1, <1>3, <2>1 DEF TokenAt
  <2>4. e \in Nat /\ e > q /\ e - q \in Nat \ {0} /\ q + (e - q) = e
    BY <1>2, <2>2 DEF Reaches
  <2>5. t \in LexedTokens
    BY <1>2, <2>3, <2>4 DEF LexedTokens
  <2>6. TokenBegins(q) => text[e] \notin Digits
    BY <2>2 DEF Reaches, TokenBegins
  <2>7. TokenBegins(q) => Whole(t)
    <3>1. t.type = "LITERAL" /\ "LITERAL" # "IDENT" /\ Follows(t) = text[e]
      BY <2>3, <2>4 DEF Follows
    <3> QED BY <2>6, <3>1 DEF Whole
  <2> QED BY <1>1, <2>2, <2>3, <2>4, <2>5, <2>7 DEF Right
<1>4. CASE text[q] \notin Digits
  <2>1. PICK e : e = NameEnd(q)
    OBVIOUS
  <2>2. Reaches(q, e) /\ (e <= Len(text) => text[e] \in Puncts \cup Blanks)
    BY <2>1, NameEnds
  <2>3. t = [type |-> "IDENT", pos |-> q, len |-> e - q]
    BY <1>1, <1>4, <2>1 DEF TokenAt
  <2>4. e \in Nat /\ e > q /\ e - q \in Nat \ {0} /\ q + (e - q) = e /\ q + (e - q) - 1 = e - 1
    BY <1>2, <2>2 DEF Reaches
  <2>5. t \in LexedTokens
    BY <1>2, <2>3, <2>4 DEF LexedTokens
  <2>6. ASSUME TokenBegins(q), SubSeq(text, q, e - 1) \in Range(Keywords)
        PROVE  text[e] = "_"
    <3>1. PICK w : w = SubSeq(text, q, e - 1)
      OBVIOUS
    <3>2. e <= Len(text) /\ text[e] \in Puncts \cup Blanks
      BY <2>2, <2>6 DEF Reaches, TokenBegins
    <3>3. Len(w) = e - q /\ \A i \in 1 .. e - q : w[i] = text[q + i - 1]
      <4>1. q + (e - q) <= Len(text) + 1
        BY <1>2, <2>4, <3>2
      <4> QED BY <2>4, <3>1, <4>1, TextCut
    <3>4. PICK k \in DOMAIN TOKEN_LIST : TOKEN_LIST[k] = Keyword(w)
      BY <2>6, <3>1, ListEntries
    <3>5. TOKEN_LIST[k].text = w /\ TOKEN_LIST[k].kw = TRUE
      BY <3>4 DEF Keyword
    <3>6. DOMAIN w = 1 .. e - q
      BY <3>3, <3>5, ListEntries DEF Entry
    <3>7. Spelled(TOKEN_LIST[k], q)
      BY <2>4, <3>2, <3>3, <3>5, <3>6 DEF Spelled
    <3>8. ~EndsThere(TOKEN_LIST[k], q)
      BY <3>7 DEF Entries
    <3>9. q + Len(w) = e
      BY <2>4, <3>3
    <3>10. is_identifier(text[e])
      BY <3>5, <3>8, <3>9 DEF EndsThere
    <3> QED BY <3>2, <3>10, BlanksApart, Zenon
  <2>7. TokenBegins(q) => Whole(t)
    <3>1. t.type = "IDENT" /\ Follows(t) = text[e] /\ TextOf(t) = SubSeq(text, q, e - 1)
      BY <2>3, <2>4 DEF Follows, TextOf
    <3>2. TokenBegins(q) => text[e] \in Puncts \cup Blanks
      BY <2>2 DEF Reaches, TokenBegins
    <3> QED BY <2>6, <3>1, <3>2 DEF Whole
  <2> QED BY <1>1, <2>2, <2>3, <2>4, <2>5, <2>7 DEF Right
<1> QED BY <1>3, <1>4

(* Every token is.                                                         *)
LEMMA TokenRight ==
  ASSUME TextOK, NEW q \in 1 .. Len(text)
  PROVE  Right(TokenAt(q), q)
BY EntryRight, NameRight

-----------------------------------------------------------------------------
(* The loop *)

(* The tokens l are what the text has before place b.                      *)
Cut(l, b) ==
  /\ b \in Nat \ {0} /\ l \in Seq(LexedTokens)
  /\ Regular =>
       /\ b <= Len(text) /\ Aligned(b)
       /\ UNION {Extent(l[k]) : k \in DOMAIN l} = {i \in 1 .. b - 1 : text[i] \notin Blanks}
       /\ \A k \in DOMAIN l : l[k].pos + l[k].len <= b /\ Whole(l[k])
       /\ \A k \in DOMAIN l : k > 1 => l[k].pos >= l[k - 1].pos + l[k - 1].len

LexerInv ==
  /\ TextOK /\ lexing \in BOOLEAN /\ Cut(lexed, p)
  /\ Regular /\ ~lexing => \A i \in p .. Len(text) : text[i] \in Blanks

(* What a token adds.                                                      *)
LEMMA CutNext ==
  ASSUME TextOK, Cut(lexed, p), AfterBlanks <= Len(text)
  PROVE  Cut(Append(lexed, TokenAt(AfterBlanks)), AfterBlanks + TokenAt(AfterBlanks).len)
<1>1. PICK q : q = AfterBlanks
  OBVIOUS
<1>2. PICK t : t = TokenAt(q)
  OBVIOUS
<1>3. PICK l : l = Append(lexed, t)
  OBVIOUS
<1>4. p \in Nat \ {0} /\ lexed \in Seq(LexedTokens)
  BY DEF Cut
<1>5. BlankTo(p, q) /\ text[q] \notin Blanks
  BY <1>1, <1>4, BlanksEnd
<1>6. q \in 1 .. Len(text) /\ q \in Nat /\ q >= p /\ Len(text) \in Nat
  BY <1>1, <1>4, <1>5, LenProperties DEF BlankTo, TextOK
<1>7. Right(t, q)
  BY <1>2, <1>6, TokenRight
<1>8. t \in LexedTokens /\ t.pos = q /\ t.len \in Nat \ {0}
  BY <1>7 DEF Right, LexedTokens
<1>9. PICK n \in Nat : n = Len(lexed)
  BY <1>4, LenProperties
<1>10. /\ l \in Seq(LexedTokens) /\ Len(l) = n + 1 /\ l[n + 1] = t
       /\ \A k \in 1 .. n : l[k] = lexed[k]
  BY <1>3, <1>4, <1>8, <1>9, AppendProperties
<1>11. DOMAIN l = 1 .. n + 1 /\ DOMAIN lexed = 1 .. n
  BY <1>4, <1>9, <1>10, LenProperties
<1>12. PICK b : b = q + t.len
  OBVIOUS
<1>13. b \in Nat \ {0} /\ b > q
  BY <1>6, <1>8, <1>12
<1>14. \A k \in 1 .. n : lexed[k] \in LexedTokens /\ lexed[k].pos \in Nat /\ lexed[k].len \in Nat
  <2>1. \A k \in 1 .. n : lexed[k] \in LexedTokens
    BY <1>4, <1>9, ElementOfSeq
  <2>2. DOMAIN text \subseteq Nat
    BY LenProperties DEF TextOK
  <2> QED BY <2>1, <2>2 DEF LexedTokens
<1>15. ASSUME Regular
       PROVE  /\ b <= Len(text) /\ Aligned(b)
              /\ UNION {Extent(l[k]) : k \in DOMAIN l} = {i \in 1 .. b - 1 : text[i] \notin Blanks}
              /\ \A k \in DOMAIN l : l[k].pos + l[k].len <= b /\ Whole(l[k])
              /\ \A k \in DOMAIN l : k > 1 => l[k].pos >= l[k - 1].pos + l[k - 1].len
  <2>1. /\ Aligned(p)
        /\ UNION {Extent(lexed[k]) : k \in 1 .. n} = {i \in 1 .. p - 1 : text[i] \notin Blanks}
        /\ \A k \in 1 .. n : lexed[k].pos + lexed[k].len <= p /\ Whole(lexed[k])
        /\ \A k \in 1 .. n : k > 1 => lexed[k].pos >= lexed[k - 1].pos + lexed[k - 1].len
    BY <1>11, <1>15 DEF Cut
  <2>2. TokenBegins(q)
    BY <1>5, <1>15, <2>1 DEF TokenBegins, BlankTo
  <2>3. /\ b <= Len(text) /\ Aligned(b) /\ Whole(t)
        /\ \A i \in q .. b - 1 : text[i] \notin Blanks
    <3>1. Reaches(q, b) /\ Whole(t)
      BY <1>7, <1>12, <2>2, Zenon DEF Right
    <3> QED BY <3>1, <2>2 DEF Reaches, TokenBegins
  <2>4. Extent(t) = q .. b - 1
    BY <1>6, <1>8, <1>12 DEF Extent
  <2>5. ASSUME NEW i
        PROVE  i \in UNION {Extent(l[k]) : k \in 1 .. n + 1} <=> i \in 1 .. b - 1 /\ text[i] \notin Blanks
    <3>1. i \in UNION {Extent(l[k]) : k \in 1 .. n + 1}
            <=> i \in UNION {Extent(lexed[k]) : k \in 1 .. n} \/ i \in Extent(t)
      <4>1. ASSUME NEW k \in 1 .. n + 1 PROVE (k \in 1 .. n /\ l[k] = lexed[k]) \/ l[k] = t
        <5>1. k \in 1 .. n \/ k = n + 1
          OBVIOUS
        <5> QED BY <5>1, <1>10
      <4>2. \A k \in 1 .. n : k \in 1 .. n + 1 /\ l[k] = lexed[k]
        BY <1>10
      <4>3. n + 1 \in 1 .. n + 1 /\ l[n + 1] = t
        BY <1>10
      <4> QED BY <4>1, <4>2, <4>3, Zenon
    <3>2. i \in UNION {Extent(lexed[k]) : k \in 1 .. n} <=> i \in 1 .. p - 1 /\ text[i] \notin Blanks
      BY <2>1
    <3>3. i \in q .. b - 1 => i \in 1 .. b - 1 /\ text[i] \notin Blanks
      BY <1>6, <1>13, <2>3
    <3>4. i \in 1 .. p - 1 => i \in 1 .. b - 1
      BY <1>4, <1>6, <1>13
    <3>5. i \in 1 .. b - 1 => i \in 1 .. p - 1 \/ i \in p .. q - 1 \/ i \in q .. b - 1
      BY <1>4, <1>6, <1>13
    <3>6. i \in p .. q - 1 => text[i] \in Blanks
      BY <1>5 DEF BlankTo
    <3> QED BY <3>1, <3>2, <3>3, <3>4, <3>5, <3>6, <2>4
  <2>6. UNION {Extent(l[k]) : k \in DOMAIN l} = {i \in 1 .. b - 1 : text[i] \notin Blanks}
    BY <1>11, <2>5, Zenon
  <2>7. ASSUME NEW k \in 1 .. n + 1
        PROVE  l[k].pos + l[k].len <= b /\ Whole(l[k])
    <3>1. CASE k \in 1 .. n
      <4>1. lexed[k].pos + lexed[k].len <= p /\ Whole(lexed[k]) /\ lexed[k].pos \in Nat /\ lexed[k].len \in Nat
        BY <1>14, <2>1, <3>1
      <4> QED BY <3>1, <4>1, <1>4, <1>6, <1>10, <1>13
    <3>2. CASE k = n + 1
      BY <3>2, <1>6, <1>8, <1>10, <1>12, <2>3
    <3> QED BY <3>1, <3>2
  <2>8. ASSUME NEW k \in 1 .. n + 1, k > 1
        PROVE  l[k].pos >= l[k - 1].pos + l[k - 1].len
    <3>1. k - 1 \in 1 .. n /\ l[k - 1] = lexed[k - 1]
      BY <2>8, <1>10
    <3>2. CASE k \in 1 .. n
      BY <2>8, <3>1, <3>2, <1>10, <2>1
    <3>3. CASE k = n + 1
      <4>1. lexed[k - 1].pos + lexed[k - 1].len <= p /\ lexed[k - 1].pos + lexed[k - 1].len \in Nat
        BY <3>1, <1>14, <2>1
      <4>2. l[k].pos = q
        BY <3>3, <1>8, <1>10
      <4> QED BY <3>1, <4>1, <4>2, <1>4, <1>6
    <3> QED BY <3>2, <3>3
  <2> QED BY <1>11, <2>3, <2>6, <2>7, <2>8
<1>16. Cut(l, b)
  BY <1>10, <1>13, <1>15 DEF Cut
<1> QED BY <1>1, <1>2, <1>3, <1>12, <1>16

(* A predicate on the text keeps its value with the text.                  *)
LEMMA TextKept ==
  ASSUME text' = text
  PROVE  /\ TextOK' <=> TextOK
         /\ Regular' <=> Regular
         /\ \A l, b : Cut(l, b)' <=> Cut(l, b)
BY DEF TextOK, Regular, Cut, Aligned, Wides, LexedTokens, Whole, Follows, TextOf, Spelled

(* The lexer begins with nothing, ...                                      *)
LEMMA LexerBegins ==
  ASSUME LexerInit \/ (text = << >> /\ p = 1 /\ lexed = << >> /\ lexing = FALSE)
  PROVE  LexerInv
<1>1. TextOK
  <2>1. << >> \in Seq(STRING)
    OBVIOUS
  <2>2. text \in Texts \/ text = << >>
    BY DEF LexerInit
  <2> QED BY <2>1, <2>2, TextsAssumption DEF TextOK
<1>2. p = 1 /\ lexed = << >> /\ lexing \in BOOLEAN
  BY DEF LexerInit
<1>3. Regular => lexing /\ Len(text) >= 1
  <2>1. Len(text) \in Nat
    BY <1>1, LenProperties DEF TextOK
  <2>2. text # << >> => Len(text) # 0
    BY <1>1, EmptySeq DEF TextOK
  <2> QED BY <2>1, <2>2 DEF Regular, LexerInit
<1>4. Aligned(1)
  <2>1. Wides(1) = {}
    BY DEF Wides
  <2>2. Cardinality(Wides(1)) = 0
    BY <2>1, FS_EmptySet
  <2> QED BY <2>2 DEF Aligned
<1>5. DOMAIN lexed = {} /\ lexed \in Seq(LexedTokens)
  BY <1>2
<1>6. Cut(lexed, p)
  <2>1. p \in Nat \ {0} /\ \A i : i \notin 1 .. p - 1
    BY <1>2
  <2> QED BY <1>2, <1>3, <1>4, <1>5, <2>1 DEF Cut
<1> QED BY <1>1, <1>2, <1>3, <1>6 DEF LexerInv

(* ... cuts off one token with each step, and ends behind the last one.    *)
LEMMA LexerStep ==
  ASSUME LexerInv, [LexerNext]_lexerVars
  PROVE  LexerInv'
<1> USE DEF LexerInv
<1>1. p \in Nat \ {0} /\ Len(text) \in Nat
  BY LenProperties DEF Cut, TextOK
<1>2. BlankTo(p, AfterBlanks) /\ (AfterBlanks <= Len(text) => text[AfterBlanks] \notin Blanks)
  BY <1>1, BlanksEnd
<1>3. text' = text
  BY DEF LexerNext, LexToken, LexStuck, LexEnd, lexerVars
<1>4. /\ TextOK' /\ (Regular' <=> Regular)
      /\ Cut(lexed, p)' <=> Cut(lexed', p')
  BY <1>3, TextKept DEF Cut, Whole
<1>5. CASE LexToken
  BY <1>4, <1>5, CutNext DEF LexToken
<1>6. CASE LexStuck
  <2>1. ~Regular /\ AfterBlanks \in Nat \ {0}
    <3>1. AfterBlanks \in DOMAIN text
      BY <1>1, <1>2, <1>6, LenProperties DEF LexStuck, BlankTo, TextOK
    <3>2. Regular => text[AfterBlanks] # NUL
      BY <3>1, Zenon DEF Regular
    <3>3. text[AfterBlanks] = NUL
      BY <1>6 DEF LexStuck
    <3> QED BY <1>1, <1>2, <3>2, <3>3 DEF BlankTo
  <2>2. Cut(lexed', p')
    BY <1>6, <2>1 DEF LexStuck, Cut
  <2> QED BY <1>4, <1>6, <2>1, <2>2 DEF LexStuck
<1>7. CASE LexEnd
  <2>1. \A i \in p .. Len(text) : text[i] \in Blanks
    <3>1. AfterBlanks > Len(text)
      BY <1>7 DEF LexEnd
    <3> QED BY <1>1, <1>2, <3>1 DEF BlankTo
  <2>2. p' = p /\ lexed' = lexed /\ lexing' = FALSE
    BY <1>7 DEF LexEnd
  <2> QED BY <1>3, <1>4, <2>1, <2>2
<1>8. CASE UNCHANGED lexerVars
  BY <1>3, <1>4, <1>8 DEF lexerVars
<1> QED BY <1>5, <1>6, <1>7, <1>8 DEF LexerNext

(* So the tokens are the text.                                             *)
LEMMA LexerRight ==
  ASSUME LexerInv
  PROVE  TokensAreText
<1> SUFFICES ASSUME ~lexing, Regular
             PROVE  /\ UNION {Extent(lexed[k]) : k \in DOMAIN lexed} = {q \in DOMAIN text : text[q] \notin Blanks}
                    /\ \A k \in DOMAIN lexed : k > 1 => lexed[k].pos >= lexed[k - 1].pos + lexed[k - 1].len
                    /\ \A k \in DOMAIN lexed : Whole(lexed[k])
  BY DEF TokensAreText
<1>1. /\ p \in Nat \ {0} /\ p <= Len(text) /\ Len(text) \in Nat
      /\ DOMAIN text = 1 .. Len(text)
      /\ UNION {Extent(lexed[k]) : k \in DOMAIN lexed} = {i \in 1 .. p - 1 : text[i] \notin Blanks}
      /\ \A i \in p .. Len(text) : text[i] \in Blanks
  BY LenProperties DEF LexerInv, Cut, TextOK
<1>2. {q \in DOMAIN text : text[q] \notin Blanks} = {i \in 1 .. p - 1 : text[i] \notin Blanks}
  BY <1>1
<1> QED BY <1>1, <1>2 DEF LexerInv, Cut

-----------------------------------------------------------------------------
(* Sequences *)

(* Nodes and tokens are in no set that is known: a sequence of anything.   *)
IsSeq(s) == s \in Seq({s[i] : i \in DOMAIN s})

(* What a sequence of typed elements is, whatever the type.                *)
LEMMA SeqOfElements ==
  ASSUME NEW S, NEW s \in Seq(S)
  PROVE  IsSeq(s)
<1> DEFINE R == {s[i] : i \in DOMAIN s}
           n == Len(s)
<1>1. n \in Nat /\ s \in [1 .. n -> S] /\ DOMAIN s = 1 .. n
  BY LenProperties
<1>2. s \in [1 .. n -> R]
  BY <1>1
<1> HIDE DEF n, R
<1>3. s \in Seq(R)
  BY <1>1, <1>2, SeqDef
<1>4. QED
  BY <1>3 DEF IsSeq, R

(* A function on 1 .. n is a sequence of n elements.                       *)
LEMMA SeqFunction ==
  ASSUME NEW n \in Nat, NEW u, u = [i \in 1 .. n |-> u[i]]
  PROVE  IsSeq(u) /\ Len(u) = n
<1> DEFINE R == {u[i] : i \in DOMAIN u}
<1>1. u \in [1 .. n -> R] /\ DOMAIN u = 1 .. n
  OBVIOUS
<1> HIDE DEF R
<1>2. u \in Seq(R)
  BY <1>1, SeqDef
<1>3. Len(u) = n
  BY <1>1, <1>2, LenProperties
<1>4. QED
  BY <1>2, <1>3 DEF IsSeq, R

(* A sequence is a function on the numbers up to its length.               *)
LEMMA SeqDomain ==
  ASSUME NEW s, IsSeq(s)
  PROVE  DOMAIN s = 1 .. Len(s) /\ Len(s) \in Nat /\ s = [i \in 1 .. Len(s) |-> s[i]]
<1> DEFINE S == {s[i] : i \in DOMAIN s}
<1>1. s \in Seq(S)
  BY DEF IsSeq
<1> HIDE DEF S
<1>2. QED
  BY <1>1, LenProperties

(* Appending keeps a sequence a sequence, ...                              *)
LEMMA SeqAppend ==
  ASSUME NEW s, IsSeq(s), NEW e
  PROVE  /\ IsSeq(Append(s, e)) /\ Len(Append(s, e)) = Len(s) + 1 /\ Len(s) \in Nat
         /\ \A i \in 1 .. Len(s) : Append(s, e)[i] = s[i]
         /\ Append(s, e)[Len(s) + 1] = e
<1> DEFINE S == {s[i] : i \in DOMAIN s} \cup {e}
<1>1. s \in Seq(S)
  BY SeqMonotonic DEF IsSeq
<1>2. e \in S
  OBVIOUS
<1> HIDE DEF S
<1>3. Append(s, e) \in Seq(S) /\ Len(s) \in Nat
  BY <1>1, <1>2, AppendProperties, LenProperties
<1>4. IsSeq(Append(s, e))
  BY <1>3, SeqOfElements
<1>5. QED
  BY <1>1, <1>2, <1>3, <1>4, AppendProperties

(* u is s with t behind it.                                                *)
Extends(u, s, t) ==
  /\ IsSeq(u) /\ Len(u) = Len(s) + Len(t) /\ Len(s) \in Nat /\ Len(t) \in Nat
  /\ \A i \in 1 .. Len(s) : u[i] = s[i]
  /\ \A i \in 1 .. Len(t) : u[Len(s) + i] = t[i]

(* ... and so does concatenating, ...                                      *)
LEMMA SeqConcat ==
  ASSUME NEW s, IsSeq(s), NEW t, IsSeq(t)
  PROVE  Extends(s \o t, s, t)
<1> DEFINE S == {s[i] : i \in DOMAIN s} \cup {t[i] : i \in DOMAIN t}
<1>1. s \in Seq(S) /\ t \in Seq(S)
  BY SeqMonotonic DEF IsSeq
<1> HIDE DEF S
<1>2. s \o t \in Seq(S) /\ Len(s) \in Nat /\ Len(t) \in Nat
  BY <1>1, ConcatProperties, LenProperties
<1>3. IsSeq(s \o t)
  BY <1>2, SeqOfElements
<1>4. /\ Len(s \o t) = Len(s) + Len(t)
      /\ \A i \in 1 .. Len(s) + Len(t) : (s \o t)[i] = IF i <= Len(s) THEN s[i] ELSE t[i - Len(s)]
  BY <1>1, ConcatProperties
<1>5. ASSUME NEW i \in 1 .. Len(t)
      PROVE  (s \o t)[Len(s) + i] = t[i]
  <2>1. Len(s) + i \in 1 .. Len(s) + Len(t) /\ ~(Len(s) + i <= Len(s)) /\ Len(s) + i - Len(s) = i
    BY <1>2
  <2>2. QED
    BY <2>1, <1>4
<1>6. QED
  BY <1>2, <1>3, <1>4, <1>5 DEF Extends

(* t is s but for the element n.                                           *)
SameBut(t, s, n) ==
  IsSeq(t) /\ Len(t) = Len(s) /\ Len(s) \in Nat /\ \A i \in 1 .. Len(s) : i # n => t[i] = s[i]

(* ... replacing an element ...                                            *)
LEMMA SeqExcept ==
  ASSUME NEW s, IsSeq(s), NEW n, NEW e, NEW t, t = [s EXCEPT ![n] = e]
  PROVE  SameBut(t, s, n)
<1>1. DOMAIN s = 1 .. Len(s) /\ Len(s) \in Nat
  BY SeqDomain
<1>2. t = [i \in 1 .. Len(s) |-> t[i]] /\ \A i \in 1 .. Len(s) : i # n => t[i] = s[i]
  BY <1>1
<1>3. IsSeq(t) /\ Len(t) = Len(s)
  BY <1>1, <1>2, SeqFunction
<1>4. QED
  BY <1>1, <1>2, <1>3 DEF SameBut

(* ... and dropping the last ones.                                         *)
LEMMA SeqPrefix ==
  ASSUME NEW s, IsSeq(s), NEW n \in Nat, n <= Len(s)
  PROVE  /\ IsSeq(SubSeq(s, 1, n)) /\ Len(SubSeq(s, 1, n)) = n
         /\ \A i \in 1 .. n : SubSeq(s, 1, n)[i] = s[i]
<1> DEFINE S == {s[i] : i \in DOMAIN s}
<1>1. s \in Seq(S) /\ Len(s) \in Nat /\ DOMAIN s = 1 .. Len(s)
  BY SeqDomain DEF IsSeq
<1>2. \A i \in 1 .. n : s[i] \in S
  BY <1>1
<1> HIDE DEF S
<1>3. PICK t : t = SubSeq(s, 1, n)
  OBVIOUS
<1>4. /\ t \in Seq(S)
      /\ Len(t) = IF 1 <= n THEN n - 1 + 1 ELSE 0
      /\ \A i \in 1 .. n - 1 + 1 : t[i] = s[1 + i - 1]
  BY <1>2, <1>3, SubSeqProperties
<1>5. Len(t) = n /\ \A i \in 1 .. n : t[i] = s[i]
  <2>1. Len(t) = n
    BY <1>4
  <2>2. ASSUME NEW i \in 1 .. n
        PROVE  t[i] = s[i]
    <3>1. i \in 1 .. n - 1 + 1 /\ 1 + i - 1 = i
      OBVIOUS
    <3>2. QED
      BY <3>1, <1>4
  <2>3. QED
    BY <2>1, <2>2
<1>6. QED
  BY <1>3, <1>4, <1>5, SeqOfElements

(* One element is a sequence, ...                                          *)
LEMMA SeqOne ==
  ASSUME NEW a
  PROVE  IsSeq(<<a>>) /\ Len(<<a>>) = 1 /\ <<a>>[1] = a /\ (a \in Nat => <<a>> \in Seq(Nat))
  BY SeqOfElements DEF IsSeq

(* ... so are two, ...                                                     *)
LEMMA SeqTwo ==
  ASSUME NEW a, NEW b
  PROVE  /\ IsSeq(<<a, b>>) /\ Len(<<a, b>>) = 2 /\ <<a, b>>[1] = a /\ <<a, b>>[2] = b
         /\ (a \in Nat /\ b \in Nat => <<a, b>> \in Seq(Nat))
  BY SeqOfElements DEF IsSeq

(* ... three, ...                                                          *)
LEMMA SeqThree ==
  ASSUME NEW a, NEW b, NEW c
  PROVE  /\ IsSeq(<<a, b, c>>) /\ Len(<<a, b, c>>) = 3
         /\ <<a, b, c>>[1] = a /\ <<a, b, c>>[2] = b /\ <<a, b, c>>[3] = c
         /\ (a \in Nat /\ b \in Nat /\ c \in Nat => <<a, b, c>> \in Seq(Nat))
  BY SeqOfElements DEF IsSeq

(* ... and four.                                                           *)
LEMMA SeqFour ==
  ASSUME NEW a, NEW b, NEW c, NEW d
  PROVE  /\ Len(<<a, b, c, d>>) = 4
         /\ <<a, b, c, d>>[1] = a /\ <<a, b, c, d>>[2] = b
         /\ <<a, b, c, d>>[3] = c /\ <<a, b, c, d>>[4] = d
         /\ (a \in Nat /\ b \in Nat /\ c \in Nat /\ d \in Nat => <<a, b, c, d>> \in Seq(Nat))
  BY SeqOfElements DEF IsSeq

-----------------------------------------------------------------------------
(* The inductive invariant                                                 *)

Fns == {"unary", "binop", "conditional", "assignment", "expression", "jump", "compound",
        "specifiers", "declarator", "parameter", "external"}
Places == {"enter", "lhs", "retry", "rhs", "cond", "then", "else", "unary", "first", "value",
           "semi", "open", "more", "name", "params", "paren", "specs", "decl", "body"}
Frames == [fn : Fns, at : Places, expr : Nat, lock : BOOLEAN, level : Int,
           made : Seq(Nat), mark : Nat \X Nat]

(* The rules of expressions: each fills the block that it is given.        *)
ExprFns == {"unary", "binop", "conditional", "assignment", "expression"}
InExpr(f) == f.fn \in ExprFns

(* An activation hands its own block on, at the token that it began with.  *)
Passing(f) ==
  \/ f.fn = "assignment" /\ f.at = "cond"
  \/ f.fn = "expression" /\ f.at \in {"first", "retry"}

(* It has consumed nothing: what it called began at its first token.       *)
Failing(f) ==
  \/ Passing(f)
  \/ f.fn = "binop" /\ f.at \in {"lhs", "retry"}
  \/ f.fn = "conditional" /\ f.at = "cond"
  \/ f.fn = "assignment" /\ f.at = "unary"

(* It tries again where it has failed before.                              *)
Tried(f) ==
  \/ f.fn = "binop" /\ f.at = "retry"
  \/ f.fn = "assignment" /\ f.at = "unary"
  \/ f.fn = "expression" /\ f.at = "retry"

(* It is past its first operand.                                           *)
Begun(f) ==
  \/ f.fn = "binop" /\ f.at = "rhs"
  \/ f.fn = "conditional" /\ f.at \in {"then", "else"}

(* Nothing is called from there, so only the innermost activation is there.*)
Alone(f) == f.at \in {"enter", "name", "value", "open"} \/ f.fn = "specifiers"

(* The token behind place c: it is in sight, it starts an expression; the  *)
(* one before c is known and in S.                                         *)
Seen(c) == c < Len(tokens) \/ ended
Starts(c) == c < Len(tokens) /\ tokens[c + 1] \in {"IDENT", "LITERAL"}
Was(c, S) == c \in 1 .. Len(tokens) /\ tokens[c] \in S

(* What an activation made is at the end of the arena, the last one first. *)
InOrder(f) == \A d \in DOMAIN f.made : f.made[d] = f.mark[2] + Len(f.made) + 1 - d

Entered(f) ==
  f.at = "enter" => /\ ret = NoRet /\ f.made = << >>
                    /\ f.fn # "external" => f.mark = <<cur, Len(nodes)>>

Sized(f) ==
  /\ Passing(f) => f.made = << >>
  /\ f.fn = "binop" /\ f.at \in {"lhs", "retry"} => Len(f.made) = 1
  /\ f.fn = "binop" /\ f.at = "rhs" => Len(f.made) = 3
  /\ f.fn = "conditional" /\ f.at = "cond" => Len(f.made) = 1
  /\ f.fn = "conditional" /\ f.at \in {"then", "else"} => Len(f.made) = 4
  /\ f.fn = "assignment" /\ f.at = "unary" => Len(f.made) = 3
  /\ f.fn = "compound" /\ f.at \in {"first", "more"} => Len(f.made) = 1
  /\ Failing(f) => InOrder(f)

(* Its block is older than its call, what it made is younger.              *)
Spanned(f) ==
  /\ f.mark[2] <= Len(nodes)
  /\ InExpr(f) => /\ f.expr \in 1 .. f.mark[2]
                  /\ \A d \in DOMAIN f.made : f.made[d] \in f.mark[2] + 1 .. Len(nodes)

Looked(f) ==
  /\ Tried(f) => Seen(f.mark[1]) /\ ~Starts(f.mark[1])
  /\ Begun(f) => Starts(f.mark[1])

(* The block is empty until the call that fills it returns.                *)
Blank(f) ==
  InExpr(f) => \/ nodes[f.expr] = Block
               \/ \E t \in {Top} : ret = "true" /\ Passing(t) /\ f.expr = t.expr

(* So is the one that is to be filled next.                                *)
Pending(f) ==
  /\ f.fn = "conditional" /\ f.at = "then" => nodes[f.made[2]] = Block
  /\ f.fn = "jump" /\ f.at = "value" =>
       Len(f.made) = 2 /\ f.made[2] \in DOMAIN nodes /\ nodes[f.made[2]] = Block /\ ret = NoRet

Placed(f) ==
  /\ f.fn = "parameter" => Was(f.mark[1], {"(", ","})
  /\ f.fn = "parameter" /\ f.at = "specs" => Len(f.made) = 2 /\ f.made[2] = f.made[1] + 1
  /\ f.fn = "external" /\ f.at # "enter" =>
       Len(f.made) = 3 /\ \A d \in 1 .. 3 : f.made[d] = f.made[1] + 1 - d
  /\ (f.fn = "specifiers" \/ (f.fn = "declarator" /\ f.at = "name")) => Len(nodes) = f.mark[2]

FrameOK(f) ==
  Entered(f) /\ Sized(f) /\ Spanned(f) /\ Looked(f) /\ Blank(f) /\ Pending(f) /\ Placed(f)

(* What the innermost activation was told by the call that ended last: an  *)
(* expression says whether there is one at its first token.                *)
Told(f) ==
  /\ Failing(f) =>
       /\ Seen(f.mark[1])
       /\ Starts(f.mark[1]) => ret = "true"
       /\ ~Starts(f.mark[1]) => /\ ret = "false"
                                /\ cur = f.mark[1] /\ Len(nodes) = f.mark[2] + Len(f.made)
  /\ f.fn = "binop" /\ f.at = "lhs" /\ ret = "false" => nodes[f.made[1]] = Block

(* The same of the parts of a declaration.                                 *)
DeclTold(f) ==
  /\ f.fn = "parameter" /\ f.at = "specs" /\ ret = "false" =>
       cur = f.mark[1] /\ Known /\ Tok \notin Specifiers
  /\ f.fn = "external" /\ f.at = "specs" => Len(nodes) = f.made[1]
  /\ f.fn = "external" /\ f.at = "decl" =>
        /\ ret = "false" => Len(nodes) = f.made[1]
        /\ ret = "true" => Len(nodes) = f.made[1] \/ Was(cur, {")"})
  /\ f.fn = "external" /\ f.at = "body" /\ ret = "false" =>
       /\ Len(nodes) = f.made[1] \/ Was(cur, {")"})
       /\ Known /\ Tok # "{"

(* A caller f and the activation c that it called.                         *)
Calls(f, c) ==
  /\ Failing(f) => c.mark = <<f.mark[1], f.mark[2] + Len(f.made)>> /\ InExpr(c)
  /\ f.fn = "binop" /\ f.at = "lhs" => c.expr = f.made[1]

DeclCalls(f, c) ==
  /\ f.fn = "parameter" /\ f.at = "specs" => c.fn = "specifiers" /\ c.mark[1] = f.mark[1]
  /\ f.fn = "external" /\ f.at = "specs" => c.fn = "specifiers" /\ c.mark[2] = f.made[1]
  /\ f.fn = "external" /\ f.at = "decl" => c.fn = "declarator" /\ c.mark[2] = f.made[1]
  /\ f.fn = "external" /\ f.at = "body" =>
       c.fn = "compound" /\ (c.mark[2] = f.made[1] \/ Was(c.mark[1], {")"}))

(* Any activation f and one that runs inside of it: c fills another block, *)
(* unless f has handed on its own.                                         *)
Over(f, c) ==
  /\ f.mark[2] <= c.mark[2]
  /\ InExpr(f) => /\ InExpr(c)
                  /\ \A d \in DOMAIN f.made : f.made[d] <= c.mark[2]
                  /\ f.expr <= c.expr
                  /\ f.expr = c.expr => Passing(f)
  /\ f.fn = "conditional" /\ f.at = "then" => c.expr # f.made[2]

Types ==
  /\ stack \in Seq(Frames)
  /\ IsSeq(nodes) /\ IsSeq(tokens) /\ cur \in Nat
  /\ ret \in {NoRet, "true", "false"}

Depth == Len(stack)

Activations ==
  \A k \in 1 .. Depth : \A f \in {stack[k]} :
    /\ Alone(f) => k = Depth
    /\ f.fn = "external" => k = 1
    /\ FrameOK(f)
Answered == stack # << >> => \A f \in {Top} : Told(f) /\ DeclTold(f)
Callers ==
  \A k \in 1 .. Depth - 1 : \A f \in {stack[k]}, c \in {stack[k + 1]} : Calls(f, c) /\ DeclCalls(f, c)
Nested ==
  \A k \in 1 .. Depth : \A j \in 1 .. k - 1 : \A f \in {stack[j]}, c \in {stack[k]} : Over(f, c)

Parse == Types /\ Activations /\ Answered /\ Callers /\ Nested

(* The lexer runs before the parser.                                       *)
LexFirst ==
  lexing => /\ stack = <<Frame("external", 0, FALSE, 0)>> /\ cur = 0 /\ ret = NoRet
            /\ status = "parsing" /\ IsSeq(lexed)

NoAssignment == status # "assigning"

(* The translation unit's rule says nothing.                               *)
Parsed == status = "parsed" => ret = NoRet

FrontInv ==
  /\ LexFirst
  /\ status = "parsing" => Parse
  /\ Parsed
  /\ AssertsOnlyInDeclarations
  /\ NoAssignment

-----------------------------------------------------------------------------
(* The stack of activations                                                *)

(* Leaving an activation leaves those below it, ...                        *)
LEMMA FrontType ==
  ASSUME NEW S, NEW s \in Seq(S), s # << >>
  PROVE  /\ Front(s) \in Seq(S)
         /\ Len(s) \in Nat /\ Len(s) >= 1 /\ Len(Front(s)) = Len(s) - 1
         /\ \A k \in 1 .. Len(s) - 1 : Front(s)[k] = s[k]
         /\ Last(s) = s[Len(s)] /\ s[Len(s)] \in S
         /\ \A k \in 1 .. Len(s) : s[k] \in S
<1>1. Len(s) \in Nat \ {0}
  BY EmptySeq
<1>2. \A i \in 1 .. Len(s) : s[i] \in S
  BY ElementOfSeq, <1>1
<1>3. PICK n \in Nat : n = Len(s) - 1
  BY <1>1
<1>4. PICK t : t = SubSeq(s, 1, n)
  OBVIOUS
<1>5. /\ t \in Seq(S)
      /\ Len(t) = IF 1 <= n THEN n - 1 + 1 ELSE 0
      /\ \A i \in 1 .. n - 1 + 1 : t[i] = s[1 + i - 1]
  BY <1>1, <1>2, <1>3, <1>4, SubSeqProperties
<1>6. t = Front(s)
  BY <1>3, <1>4 DEF Front
<1>7. ASSUME NEW k \in 1 .. n
      PROVE  t[k] = s[k]
  <2>1. k \in 1 .. n - 1 + 1 /\ 1 + k - 1 = k
    BY <1>3
  <2>2. QED
    BY <2>1, <1>5
<1>8. Len(t) = n
  BY <1>5
<1>9. Last(s) = s[Len(s)]
  BY DEF Last
<1>10. QED
  BY <1>1, <1>2, <1>3, <1>5, <1>6, <1>7, <1>8, <1>9

(* ... replacing the innermost one keeps those below, ...                  *)
LEMMA FrontAppend ==
  ASSUME NEW S, NEW s \in Seq(S), s # << >>, NEW m \in S
  PROVE  LET t == Append(Front(s), m) IN
         /\ t \in Seq(S) /\ Len(t) = Len(s) /\ Last(t) = m /\ t[Len(s)] = m
         /\ \A k \in 1 .. Len(s) - 1 : t[k] = s[k]
<1>1. PICK u : u = Front(s)
  OBVIOUS
<1>2. /\ u \in Seq(S) /\ Len(s) \in Nat /\ Len(s) >= 1 /\ Len(u) = Len(s) - 1
      /\ \A k \in 1 .. Len(s) - 1 : u[k] = s[k]
  BY <1>1, FrontType
<1>3. PICK t : t = Append(u, m)
  OBVIOUS
<1>4. t \in Seq(S) /\ Len(t) = Len(u) + 1 /\ t[Len(u) + 1] = m
      /\ \A k \in 1 .. Len(u) : t[k] = u[k]
  BY <1>2, <1>3, AppendProperties
<1>5. Len(t) = Len(s) /\ t[Len(s)] = m
  BY <1>2, <1>4
<1>6. Last(t) = m
  BY <1>5 DEF Last
<1>7. QED
  BY <1>1, <1>2, <1>3, <1>4, <1>5, <1>6

(* ... and so does calling from it.                                        *)
LEMMA FrontCall ==
  ASSUME NEW S, NEW s \in Seq(S), s # << >>, NEW m \in S, NEW c \in S
  PROVE  LET t == Front(s) \o <<m, c>> IN
         /\ t \in Seq(S) /\ Len(t) = Len(s) + 1 /\ Last(t) = c
         /\ t[Len(s)] = m /\ t[Len(s) + 1] = c
         /\ \A k \in 1 .. Len(s) - 1 : t[k] = s[k]
<1>1. PICK u : u = Front(s)
  OBVIOUS
<1>2. /\ u \in Seq(S) /\ Len(s) \in Nat /\ Len(s) >= 1 /\ Len(u) = Len(s) - 1
      /\ \A k \in 1 .. Len(s) - 1 : u[k] = s[k]
  BY <1>1, FrontType
<1>3. PICK v : v = <<m, c>>
  OBVIOUS
<1>4. v \in Seq(S) /\ Len(v) = 2 /\ v[1] = m /\ v[2] = c
  BY <1>3
<1>5. PICK t : t = u \o v
  OBVIOUS
<1>6. /\ t \in Seq(S) /\ Len(t) = Len(u) + 2
      /\ \A i \in 1 .. Len(u) + 2 : t[i] = IF i <= Len(u) THEN u[i] ELSE v[i - Len(u)]
  <2>1. /\ t \in Seq(S) /\ Len(t) = Len(u) + Len(v)
        /\ \A i \in 1 .. Len(u) + Len(v) : t[i] = IF i <= Len(u) THEN u[i] ELSE v[i - Len(u)]
    BY <1>2, <1>4, <1>5, ConcatProperties
  <2>2. QED
    BY <2>1, <1>4
<1>7. Len(t) = Len(s) + 1 /\ \A k \in 1 .. Len(s) - 1 : t[k] = s[k]
  BY <1>2, <1>6
<1>8. t[Len(s)] = m /\ t[Len(s) + 1] = c
  <2>1. /\ Len(s) \in 1 .. Len(u) + 2 /\ ~(Len(s) <= Len(u)) /\ Len(s) - Len(u) = 1
        /\ Len(s) + 1 \in 1 .. Len(u) + 2 /\ ~(Len(s) + 1 <= Len(u)) /\ Len(s) + 1 - Len(u) = 2
    BY <1>2
  <2>2. QED
    BY <2>1, <1>4, <1>6
<1>9. Last(t) = c
  BY <1>7, <1>8 DEF Last
<1>10. QED
  BY <1>1, <1>3, <1>5, <1>6, <1>7, <1>8, <1>9

-----------------------------------------------------------------------------
(* The steps of any activation                                             *)

(* What a step may not do: the property, of one step.                      *)
NoTrace ==
  ret' = "false" /\ Len(stack') < Len(stack) =>
    /\ Top.mark = <<cur', Len(nodes')>>
    /\ Top.fn \in ExprFns => nodes'[Top.expr] = Block

(* The fields of an activation.                                            *)
LEMMA FrameFields ==
  ASSUME NEW f \in Frames
  PROVE  /\ f.expr \in Nat /\ f.mark[1] \in Nat /\ f.mark[2] \in Nat /\ f.level \in Int
         /\ f.lock \in BOOLEAN /\ f.made \in Seq(Nat)
         /\ Len(f.made) \in Nat /\ DOMAIN f.made = 1 .. Len(f.made)
         /\ \A i \in DOMAIN f.made : f.made[i] \in Nat
<1>1. f.made \in Seq(Nat)
  BY DEF Frames
<1>2. Len(f.made) \in Nat /\ DOMAIN f.made = 1 .. Len(f.made)
  BY <1>1, LenProperties
<1>3. \A i \in DOMAIN f.made : f.made[i] \in Nat
  BY <1>1, <1>2, ElementOfSeq
<1>4. QED
  BY <1>1, <1>2, <1>3 DEF Frames

(* What is known of an activation and of those that it runs inside of.     *)
LEMMA OfActivation ==
  ASSUME Parse, NEW k \in 1 .. Depth, NEW f, f = stack[k]
  PROVE  /\ f \in Frames /\ FrameOK(f) /\ (Alone(f) => k = Depth) /\ (f.fn = "external" => k = 1)
         /\ \A j \in 1 .. k - 1 : \A g \in {stack[j]} : Over(g, f)
<1>1. f \in Frames
  BY ElementOfSeq DEF Parse, Types, Depth
<1>2. QED
  BY <1>1 DEF Parse, Activations, Nested

(* The innermost one.                                                      *)
LEMMA OfTop ==
  ASSUME Parse, stack # << >>
  PROVE  /\ Top \in Frames /\ Top = stack[Depth] /\ Depth \in Nat /\ Depth >= 1
         /\ \A f \in {Top} : FrameOK(f) /\ Told(f) /\ DeclTold(f) /\ (f.fn = "external" => Depth = 1)
<1>1. Top \in Frames /\ Top = stack[Depth] /\ Depth \in Nat /\ Depth >= 1
  BY FrontType DEF Parse, Types, Depth, Top
<1>2. QED
  BY <1>1 DEF Parse, Activations, Answered

(* One that waits is told apart from its innermost callee by its block.    *)
LEMMA OfCaller ==
  ASSUME Parse, stack # << >>, NEW k \in 1 .. Depth - 1, NEW f, f = stack[k]
  PROVE  /\ f \in Frames /\ FrameOK(f) /\ ~Alone(f) /\ (f.fn = "external" => k = 1)
         /\ \A t \in {Top} : Over(f, t)
<1>1. Depth \in Nat /\ Depth >= 1 /\ Top = stack[Depth]
  BY OfTop
<1>2. k \in 1 .. Depth /\ k # Depth
  BY <1>1
<1>3. f \in Frames /\ FrameOK(f) /\ ~Alone(f) /\ (f.fn = "external" => k = 1)
  BY <1>2, OfActivation
<1>4. \A t \in {Top} : Over(f, t)
  BY <1>1 DEF Parse, Nested
<1>5. QED
  BY <1>3, <1>4

(* An activation that waits stays as it is while the arena grows.          *)
LEMMA FrameKept ==
  ASSUME tokens' = tokens, ended' = ended, NEW f \in Frames, ~Alone(f), FrameOK(f),
         Len(nodes') \in Nat, f.mark[2] <= Len(nodes'),
         InExpr(f) => \A d \in DOMAIN f.made : f.made[d] <= Len(nodes'),
         Blank(f)',
         f.fn = "conditional" /\ f.at = "then" => nodes'[f.made[2]] = Block
  PROVE  FrameOK(f)'
<1>1. Entered(f)' /\ Sized(f)'
  BY DEF FrameOK, Alone, Entered, Sized, Passing, Failing, InOrder
<1>2. Spanned(f)'
  <2>1. f.mark[2] \in Nat
    BY DEF Frames
  <2>2. \A d \in DOMAIN f.made : f.made[d] \in Nat
    BY DEF Frames
  <2>3. QED
    BY <2>1, <2>2 DEF FrameOK, Spanned, InExpr
<1>3. Looked(f)'
  BY DEF FrameOK, Looked, Tried, Begun, Seen, Starts
<1>4. Pending(f)' /\ Placed(f)'
  BY DEF FrameOK, Alone, Pending, Placed, Was
<1>5. QED
  BY <1>1, <1>2, <1>3, <1>4 DEF FrameOK

(* How an activation that says v leaves what it was given.                 *)
Leaves(top, v) ==
  /\ cur' \in Nat /\ IsSeq(nodes') /\ top.mark[2] <= Len(nodes')
  /\ v = "false" => top.mark = <<cur', Len(nodes')>>
  /\ InExpr(top) =>
       /\ \A n \in 1 .. top.mark[2] : n # top.expr => nodes'[n] = nodes[n]
       /\ v = "false" => nodes'[top.expr] = Block
       /\ Seen(top.mark[1]) /\ (v = "true" <=> Starts(top.mark[1]))
  /\ top.fn = "specifiers" =>
       /\ Len(nodes') = top.mark[2]
       /\ v = "false" => (Known /\ Tok \notin Specifiers)'
  /\ top.fn = "declarator" /\ v = "true" => Len(nodes') = top.mark[2] \/ Was(cur, {")"})'
  /\ top.fn = "compound" /\ v = "false" => (Known /\ Tok # "{")'

(* A rule that returns: what the blocks of its callers are then.           *)
LEMMA ReturnBlanks ==
  ASSUME Parse, stack # << >>, NEW v \in {"true", "false"}, Return(v),
         NEW top, top = Top, Leaves(top, v),
         NEW k \in 1 .. Depth - 1, NEW f, f = stack[k]
  PROVE  /\ Blank(f)'
         /\ f.fn = "conditional" /\ f.at = "then" => nodes'[f.made[2]] = Block
<1>1. /\ f \in Frames /\ FrameOK(f) /\ ~Alone(f) /\ Over(f, top)
      /\ top \in Frames /\ top = stack[Depth] /\ Depth \in Nat /\ Depth >= 1 /\ FrameOK(top)
  BY OfCaller, OfTop
<1>2. InExpr(f) => /\ InExpr(top) /\ f.expr <= top.expr /\ (f.expr = top.expr => Passing(f))
                   /\ f.expr \in 1 .. f.mark[2] /\ f.mark[2] <= top.mark[2]
                   /\ top.expr \in 1 .. top.mark[2]
                   /\ f.mark[2] \in Nat /\ top.mark[2] \in Nat /\ top.expr \in Nat
  BY <1>1 DEF Over, FrameOK, Spanned, Frames
<1>3. /\ stack' = Front(stack) /\ ret' = v /\ Len(stack') = Depth - 1
      /\ \A i \in 1 .. Depth - 1 : stack'[i] = stack[i]
  BY FrontType DEF Parse, Types, Depth, Return
<1>4. PICK g : g = stack[Depth - 1]
  OBVIOUS
<1>5. Top' = g
  BY <1>1, <1>3, <1>4 DEF Top, Last
<1>6. Depth - 1 \in 1 .. Depth - 1
  BY <1>1
<1>7. g \in Frames /\ Over(g, top) /\ (k # Depth - 1 => Over(f, g))
  <2>1. g \in Frames /\ Over(g, top)
    BY <1>1, <1>4, <1>6, OfCaller
  <2>2. Depth - 1 \in 1 .. Depth /\ (k # Depth - 1 => k \in 1 .. (Depth - 1) - 1)
    BY <1>1
  <2>3. QED
    BY <2>1, <2>2, <1>4, <1>6 DEF Parse, Nested
<1>8. ASSUME InExpr(f)
      PROVE  \/ nodes'[f.expr] = Block
             \/ v = "true" /\ Passing(g) /\ f.expr = g.expr
  <2>1. CASE f.expr # top.expr
    <3>1. nodes[f.expr] = Block
      BY <1>1, <1>8, <2>1 DEF FrameOK, Blank
    <3>2. f.expr \in 1 .. top.mark[2]
      BY <1>2, <1>8
    <3>3. nodes'[f.expr] = nodes[f.expr]
      BY <1>2, <1>8, <2>1, <3>2 DEF Leaves
    <3>4. QED
      BY <3>1, <3>3
  <2>2. CASE f.expr = top.expr /\ v = "false"
    BY <1>2, <1>8, <2>2 DEF Leaves
  <2>3. CASE f.expr = top.expr /\ v = "true"
    <3>1. CASE k = Depth - 1
      BY <1>2, <1>4, <1>8, <2>3, <3>1
    <3>2. CASE k # Depth - 1
      <4>1. InExpr(g) /\ f.expr <= g.expr /\ g.expr <= top.expr /\ (g.expr = top.expr => Passing(g))
        BY <1>7, <1>8, <3>2 DEF Over
      <4>2. g.expr \in Nat /\ f.expr \in Nat
        BY <1>1, <1>7 DEF Frames
      <4>3. g.expr = top.expr
        BY <2>3, <4>1, <4>2
      <4>4. QED
        BY <4>1, <4>3, <2>3
    <3>3. QED
      BY <3>1, <3>2
  <2>4. QED
    BY <2>1, <2>2, <2>3
<1>9. Blank(f)'
  BY <1>3, <1>5, <1>8 DEF Blank
<1>10. ASSUME f.fn = "conditional", f.at = "then"
       PROVE  nodes'[f.made[2]] = Block
  <2>1. InExpr(f) /\ InExpr(top)
    BY <1>2, <1>10 DEF InExpr, ExprFns
  <2>2. nodes[f.made[2]] = Block /\ top.expr # f.made[2]
    BY <1>1, <1>10 DEF FrameOK, Pending, Over
  <2>3. 2 \in DOMAIN f.made
    BY <1>1, <1>10 DEF FrameOK, Sized, Frames
  <2>4. f.made[2] \in f.mark[2] + 1 .. Len(nodes) /\ f.made[2] <= top.mark[2] /\ f.mark[2] \in Nat
    BY <1>1, <2>1, <2>3 DEF FrameOK, Spanned, Over, Frames
  <2>5. f.made[2] \in 1 .. top.mark[2]
    BY <2>4, <1>2, <2>1
  <2>6. QED
    BY <2>1, <2>2, <2>5 DEF Leaves
<1>11. QED
  BY <1>9, <1>10

(* A rule that returns.                                                    *)
LEMMA Returned ==
  ASSUME Parse, stack # << >>, NEW v \in {"true", "false"}, Return(v),
         tokens' = tokens, ended' = ended, NEW top, top = Top, Leaves(top, v)
  PROVE  Parse' /\ NoTrace
<1>1. /\ top \in Frames /\ top = stack[Depth] /\ Depth \in Nat /\ Depth >= 1 /\ FrameOK(top)
  BY OfTop
<1>2. /\ stack' = Front(stack) /\ ret' = v /\ stack' \in Seq(Frames)
      /\ Depth' = Depth - 1
      /\ \A i \in 1 .. Depth - 1 : stack'[i] = stack[i]
  BY FrontType DEF Parse, Types, Depth, Return
<1>3. Types'
  BY <1>2 DEF Parse, Types, Leaves
<1>4. Len(nodes') \in Nat /\ top.mark[2] <= Len(nodes')
  BY SeqDomain DEF Leaves
<1>5. ASSUME NEW k \in 1 .. Depth - 1, NEW f, f = stack[k]
      PROVE  FrameOK(f)' /\ ~Alone(f) /\ (f.fn = "external" => k = 1)
  <2>1. f \in Frames /\ FrameOK(f) /\ ~Alone(f) /\ (f.fn = "external" => k = 1) /\ Over(f, top)
    BY <1>5, OfCaller
  <2>2. Blank(f)' /\ (f.fn = "conditional" /\ f.at = "then" => nodes'[f.made[2]] = Block)
    BY <1>5, ReturnBlanks
  <2>3. f.mark[2] <= top.mark[2] /\ (InExpr(f) => \A d \in DOMAIN f.made : f.made[d] <= top.mark[2])
    BY <2>1 DEF Over
  <2>4. f.mark[2] \in Nat /\ top.mark[2] \in Nat /\ \A d \in DOMAIN f.made : f.made[d] \in Nat
    BY <1>1, <2>1 DEF Frames
  <2>5. f.mark[2] <= Len(nodes') /\ (InExpr(f) => \A d \in DOMAIN f.made : f.made[d] <= Len(nodes'))
    BY <1>4, <2>3, <2>4
  <2>6. FrameOK(f)'
    BY <1>4, <2>1, <2>2, <2>5, FrameKept
  <2>7. QED
    BY <2>1, <2>6
<1>6. Activations'
  BY <1>2, <1>5 DEF Activations
<1>7. Callers'
  <2>1. \A k \in 1 .. (Depth - 1) - 1 : k \in 1 .. Depth - 1 /\ k + 1 \in 1 .. Depth - 1
    BY <1>1
  <2>2. ASSUME NEW k \in 1 .. (Depth - 1) - 1, NEW f, f = stack[k], NEW c, c = stack[k + 1]
        PROVE  Calls(f, c)' /\ DeclCalls(f, c)'
    <3>1. Calls(f, c) /\ DeclCalls(f, c)
      BY <2>1, <2>2 DEF Parse, Callers
    <3>2. QED
      BY <3>1 DEF Calls, DeclCalls, Was
  <2>3. QED
    BY <1>2, <2>1, <2>2 DEF Callers
<1>8. Nested'
  <2>1. ASSUME NEW k \in 1 .. Depth - 1, NEW j \in 1 .. k - 1
        PROVE  k \in 1 .. Depth /\ j \in 1 .. Depth - 1
    BY <1>1
  <2>2. ASSUME NEW k \in 1 .. Depth - 1, NEW j \in 1 .. k - 1, NEW f, f = stack[j], NEW c, c = stack[k]
        PROVE  Over(f, c)
    BY <2>1, <2>2 DEF Parse, Nested
  <2>3. QED
    BY <1>2, <2>1, <2>2 DEF Nested
<1>9. v = "false" => cur' = top.mark[1] /\ Len(nodes') = top.mark[2]
  <2>1. v = "false" => top.mark = <<cur', Len(nodes')>>
    BY DEF Leaves
  <2>2. QED
    BY <2>1
<1>10. Answered'
  <2>1. SUFFICES ASSUME stack' # << >>, NEW g, g = Top'
                 PROVE  Told(g)' /\ DeclTold(g)'
    BY DEF Answered
  <2>2. Depth - 1 \in 1 .. Depth - 1 /\ g = stack[Depth - 1] /\ (Depth - 1) + 1 = Depth
    <3>1. Len(stack') >= 1 /\ Top' = stack'[Len(stack')]
      BY <1>2, <2>1, FrontType DEF Top
    <3>2. QED
      BY <1>1, <1>2, <2>1, <3>1 DEF Depth
  <2>3. Calls(g, top) /\ DeclCalls(g, top)
    BY <1>1, <2>2 DEF Parse, Callers
  <2>4. FrameOK(g) /\ g \in Frames
    BY <2>2, OfCaller
  <2>5. Told(g)'
    <3>1. ASSUME Failing(g)
          PROVE  /\ Seen(g.mark[1])'
                 /\ Starts(g.mark[1])' => v = "true"
                 /\ ~Starts(g.mark[1])' => /\ v = "false" /\ cur' = g.mark[1]
                                           /\ Len(nodes') = g.mark[2] + Len(g.made)
      <4>1. top.mark = <<g.mark[1], g.mark[2] + Len(g.made)>> /\ InExpr(top)
        BY <2>3, <3>1 DEF Calls
      <4>2. top.mark[1] = g.mark[1] /\ top.mark[2] = g.mark[2] + Len(g.made)
        BY <4>1
      <4>3. Seen(g.mark[1]) /\ (v = "true" <=> Starts(g.mark[1]))
        BY <4>1, <4>2 DEF Leaves
      <4>4. v = "false" => cur' = g.mark[1] /\ Len(nodes') = g.mark[2] + Len(g.made)
        BY <4>2, <1>9
      <4>5. QED
        BY <4>3, <4>4 DEF Seen, Starts
    <3>2. ASSUME g.fn = "binop", g.at = "lhs", v = "false"
          PROVE  nodes'[g.made[1]] = Block
      <4>1. Failing(g) /\ top.expr = g.made[1]
        BY <2>3, <3>2 DEF Failing, Calls
      <4>2. InExpr(top)
        BY <2>3, <4>1 DEF Calls
      <4>3. QED
        BY <3>2, <4>1, <4>2 DEF Leaves
    <3>3. QED
      BY <1>2, <3>1, <3>2 DEF Told
  <2>6. DeclTold(g)'
    BY <1>2, <1>9, <2>3 DEF DeclTold, DeclCalls, Was, Leaves
  <2>7. QED
    BY <2>5, <2>6
<1>11. NoTrace
  BY <1>2 DEF NoTrace, InExpr, Leaves
<1>12. QED
  BY <1>3, <1>6, <1>7, <1>8, <1>10, <1>11 DEF Parse

(* How an activation goes on as me, and whom it calls.                     *)
Hands(top, me, c) ==
  /\ cur' \in Nat /\ IsSeq(nodes') /\ Len(nodes) <= Len(nodes')
  /\ me.fn = top.fn /\ me.expr = top.expr /\ me.mark = top.mark /\ ~Alone(me)
  /\ InExpr(top) =>
       /\ \A n \in 1 .. Len(nodes) : nodes'[n] = nodes[n]
       /\ ~(ret = "true" /\ Passing(top))
       /\ \A d \in DOMAIN me.made : me.made[d] \in me.mark[2] + 1 .. Len(nodes')
       /\ c.expr > top.mark[2] \/ c.expr = top.expr
  /\ Sized(me) /\ Looked(me) /\ Pending(me)' /\ Placed(me)'
  /\ c.at = "enter" /\ c.made = << >> /\ c.mark = <<cur', Len(nodes')>> /\ c.fn # "external"
  /\ InExpr(c) => c.expr \in 1 .. Len(nodes') /\ nodes'[c.expr] = Block
  /\ c.fn = "parameter" => Was(cur, {"(", ","})'
  /\ Calls(me, c) /\ DeclCalls(me, c) /\ Over(me, c)

(* Those that wait for the innermost activation, when it calls.            *)
LEMMA CallBlanks ==
  ASSUME Parse, stack # << >>, NEW top, top = Top, NEW me, NEW c, Hands(top, me, c),
         NEW k \in 1 .. Depth - 1, NEW f, f = stack[k]
  PROVE  /\ Blank(f)'
         /\ f.fn = "conditional" /\ f.at = "then" => nodes'[f.made[2]] = Block
<1>1. /\ f \in Frames /\ FrameOK(f) /\ Over(f, top)
      /\ top \in Frames /\ top = stack[Depth] /\ Depth \in Nat /\ Depth >= 1 /\ FrameOK(top)
  BY OfCaller, OfTop
<1>2. ASSUME InExpr(f)
      PROVE  /\ InExpr(top) /\ f.expr \in 1 .. Len(nodes) /\ nodes[f.expr] = Block
             /\ \A d \in DOMAIN f.made : f.made[d] \in 1 .. Len(nodes)
  <2>1. InExpr(top)
    BY <1>1, <1>2 DEF Over
  <2>2. ~(ret = "true" /\ Passing(top))
    BY <2>1 DEF Hands
  <2>3. nodes[f.expr] = Block
    BY <1>1, <1>2, <2>2 DEF FrameOK, Blank
  <2>4. /\ f.mark[2] <= Len(nodes) /\ f.mark[2] \in Nat /\ Len(nodes) \in Nat
        /\ f.expr \in 1 .. f.mark[2]
        /\ \A d \in DOMAIN f.made : f.made[d] \in f.mark[2] + 1 .. Len(nodes)
    BY <1>1, <1>2, SeqDomain DEF FrameOK, Spanned, Frames, Parse, Types
  <2>5. QED
    BY <2>1, <2>3, <2>4
<1>3. InExpr(f) => nodes'[f.expr] = Block
  BY <1>2 DEF Hands
<1>4. ASSUME f.fn = "conditional", f.at = "then"
      PROVE  nodes'[f.made[2]] = Block
  <2>1. InExpr(f)
    BY <1>4 DEF InExpr, ExprFns
  <2>2. nodes[f.made[2]] = Block
    BY <1>1, <1>4 DEF FrameOK, Pending
  <2>3. 2 \in DOMAIN f.made
    BY <1>1, <1>4 DEF FrameOK, Sized, Frames
  <2>4. f.made[2] \in 1 .. Len(nodes)
    BY <1>2, <2>1, <2>3
  <2>5. QED
    BY <1>2, <2>1, <2>2, <2>4 DEF Hands
<1>5. QED
  BY <1>3, <1>4 DEF Blank

(* The activation that goes on, and the one that begins.                   *)
LEMMA CallEnds ==
  ASSUME Parse, stack # << >>, NEW top, top = Top, NEW me \in Frames, NEW c \in Frames,
         Hands(top, me, c), tokens' = tokens, ended' = ended, ret' = NoRet
  PROVE  FrameOK(me)' /\ FrameOK(c)' /\ Told(c)' /\ DeclTold(c)'
<1>1. top \in Frames /\ FrameOK(top) /\ Len(nodes) \in Nat /\ Len(nodes') \in Nat
  BY OfTop, SeqDomain DEF Parse, Types, Hands
<1>2. /\ me.fn = top.fn /\ me.expr = top.expr /\ me.mark = top.mark /\ ~Alone(me)
      /\ c.at = "enter" /\ c.made = << >> /\ c.mark = <<cur', Len(nodes')>>
      /\ Len(nodes) <= Len(nodes')
  BY DEF Hands
<1>3. Entered(me)' /\ Entered(c)'
  BY <1>2 DEF Entered, Alone
<1>4. Sized(me)' /\ Sized(c)'
  <2>1. Sized(me)
    BY DEF Hands
  <2>2. QED
    BY <1>2, <2>1 DEF Sized, Passing, Failing, InOrder
<1>5. Spanned(me)'
  <2>1. top.mark[2] <= Len(nodes) /\ (InExpr(top) => top.expr \in 1 .. top.mark[2])
    BY <1>1 DEF FrameOK, Spanned
  <2>2. top.mark[2] \in Nat
    BY <1>1 DEF Frames
  <2>3. me.mark[2] <= Len(nodes')
    BY <1>1, <1>2, <2>1, <2>2
  <2>4. InExpr(top) => \A d \in DOMAIN me.made : me.made[d] \in me.mark[2] + 1 .. Len(nodes')
    BY DEF Hands
  <2>5. QED
    BY <1>2, <2>1, <2>3, <2>4 DEF Spanned, InExpr
<1>6. Spanned(c)' /\ Blank(c)'
  <2>1. InExpr(c) => c.expr \in 1 .. Len(nodes') /\ nodes'[c.expr] = Block
    BY DEF Hands
  <2>2. c.mark[2] = Len(nodes')
    BY <1>2
  <2>3. QED
    BY <1>1, <1>2, <2>1, <2>2 DEF Spanned, Blank
<1>7. Looked(me)' /\ Looked(c)'
  <2>1. Looked(me)
    BY DEF Hands
  <2>2. QED
    BY <1>2, <2>1 DEF Looked, Tried, Begun, Seen, Starts
<1>8. Pending(me)' /\ Placed(me)'
  BY DEF Hands
<1>9. Pending(c)' /\ Placed(c)'
  <2>1. c.fn = "parameter" => Was(c.mark[1], {"(", ","})'
    <3>1. c.mark[1] = cur'
      BY <1>2
    <3>2. c.fn = "parameter" => Was(cur, {"(", ","})'
      BY DEF Hands
    <3>3. QED
      BY <3>1, <3>2 DEF Was
  <2>2. c.mark[2] = Len(nodes')
    BY <1>2
  <2>3. QED
    BY <1>2, <2>1, <2>2 DEF Pending, Placed
<1>10. Blank(me)'
  <2>1. ASSUME InExpr(me)
        PROVE  nodes'[me.expr] = Block
    <3>1. InExpr(top)
      BY <1>2, <2>1 DEF InExpr
    <3>2. ~(ret = "true" /\ Passing(top)) /\ \A n \in 1 .. Len(nodes) : nodes'[n] = nodes[n]
      BY <3>1 DEF Hands
    <3>3. nodes[top.expr] = Block
      BY <1>1, <3>1, <3>2 DEF FrameOK, Blank
    <3>4. top.expr \in 1 .. top.mark[2] /\ top.mark[2] <= Len(nodes) /\ top.mark[2] \in Nat
      BY <1>1, <3>1 DEF FrameOK, Spanned, Frames
    <3>5. top.expr \in 1 .. Len(nodes)
      BY <1>1, <3>4
    <3>6. QED
      BY <1>2, <3>2, <3>3, <3>5
  <2>2. QED
    BY <2>1 DEF Blank
<1>11. Told(c)' /\ DeclTold(c)'
  BY <1>2 DEF Told, DeclTold, Failing, Passing
<1>12. QED
  BY <1>3, <1>4, <1>5, <1>6, <1>7, <1>8, <1>9, <1>10, <1>11 DEF FrameOK

(* A rule that calls.                                                      *)
LEMMA Called ==
  ASSUME Parse, stack # << >>, NEW top, top = Top, NEW me \in Frames, NEW c \in Frames,
         stack' = Front(stack) \o <<me, c>>, ret' = NoRet,
         tokens' = tokens, ended' = ended, Hands(top, me, c)
  PROVE  Parse' /\ NoTrace
<1>1. /\ top \in Frames /\ top = stack[Depth] /\ Depth \in Nat /\ Depth >= 1 /\ FrameOK(top)
      /\ (top.fn = "external" => Depth = 1)
  BY OfTop
<1>2. /\ stack' \in Seq(Frames) /\ Depth' = Depth + 1 /\ Top' = c
      /\ stack'[Depth] = me /\ stack'[Depth + 1] = c
      /\ \A i \in 1 .. Depth - 1 : stack'[i] = stack[i]
  BY FrontCall DEF Parse, Types, Depth, Top
<1>3. Types'
  BY <1>2 DEF Parse, Types, Hands
<1>4. Len(nodes) \in Nat /\ Len(nodes') \in Nat /\ Len(nodes) <= Len(nodes')
  BY SeqDomain DEF Parse, Types, Hands
<1>5. ASSUME NEW k \in 1 .. Depth - 1, NEW f, f = stack[k]
      PROVE  FrameOK(f)' /\ ~Alone(f) /\ (f.fn = "external" => k = 1)
  <2>1. f \in Frames /\ FrameOK(f) /\ ~Alone(f) /\ (f.fn = "external" => k = 1)
    BY <1>5, OfCaller
  <2>2. Blank(f)' /\ (f.fn = "conditional" /\ f.at = "then" => nodes'[f.made[2]] = Block)
    BY <1>5, CallBlanks
  <2>3. /\ f.mark[2] <= Len(nodes)
        /\ InExpr(f) => \A d \in DOMAIN f.made : f.made[d] \in f.mark[2] + 1 .. Len(nodes)
    BY <2>1 DEF FrameOK, Spanned
  <2>4. f.mark[2] \in Nat
    BY <2>1 DEF Frames
  <2>5. f.mark[2] <= Len(nodes') /\ (InExpr(f) => \A d \in DOMAIN f.made : f.made[d] <= Len(nodes'))
    BY <1>4, <2>3, <2>4
  <2>6. FrameOK(f)'
    BY <1>4, <2>1, <2>2, <2>5, FrameKept
  <2>7. QED
    BY <2>1, <2>6
<1>6. FrameOK(me)' /\ FrameOK(c)' /\ Told(c)' /\ DeclTold(c)'
  BY CallEnds
<1>7. \A k \in 1 .. Depth + 1 : k \in 1 .. Depth - 1 \/ k = Depth \/ k = Depth + 1
  BY <1>1
<1>8. ~Alone(me) /\ me.fn = top.fn /\ me.expr = top.expr /\ me.mark = top.mark /\ c.fn # "external"
  BY DEF Hands
<1>9. Activations'
  <2>1. ASSUME NEW k \in 1 .. Depth + 1, NEW f, f = stack'[k]
        PROVE  (Alone(f) => k = Depth + 1) /\ (f.fn = "external" => k = 1) /\ FrameOK(f)'
    <3>1. CASE k \in 1 .. Depth - 1
      BY <1>2, <1>5, <2>1, <3>1
    <3>2. CASE k = Depth
      BY <1>1, <1>2, <1>6, <1>8, <2>1, <3>2
    <3>3. CASE k = Depth + 1
      BY <1>2, <1>6, <1>8, <2>1, <3>3
    <3>4. QED
      BY <1>7, <3>1, <3>2, <3>3
  <2>2. QED
    BY <1>2, <2>1 DEF Activations, Alone
<1>10. Callers'
  <2>1. ASSUME NEW k \in 1 .. Depth, NEW f, f = stack'[k], NEW d, d = stack'[k + 1]
        PROVE  Calls(f, d)' /\ DeclCalls(f, d)'
    <3>1. CASE k = Depth
      <4>1. Calls(me, c) /\ DeclCalls(me, c)
        BY DEF Hands
      <4>2. QED
        BY <1>2, <2>1, <3>1, <4>1 DEF Calls, DeclCalls, Was
    <3>2. CASE k # Depth
      <4>1. k \in 1 .. Depth - 1 /\ (k + 1 # Depth => k + 1 \in 1 .. Depth - 1)
        BY <1>1, <3>2
      <4>2. PICK e : e = stack[k + 1]
        OBVIOUS
      <4>3. f = stack[k] /\ d.fn = e.fn /\ d.expr = e.expr /\ d.mark = e.mark
        BY <1>1, <1>2, <1>8, <2>1, <4>1, <4>2
      <4>4. Calls(f, e) /\ DeclCalls(f, e)
        BY <4>1, <4>2, <4>3 DEF Parse, Callers
      <4>5. QED
        BY <4>3, <4>4 DEF Calls, DeclCalls, Was, InExpr
    <3>3. QED
      BY <3>1, <3>2
  <2>2. (Depth + 1) - 1 = Depth
    BY <1>1
  <2>3. QED
    BY <1>2, <2>1, <2>2 DEF Callers
<1>11. Nested'
  <2>1. ASSUME NEW k \in 1 .. Depth + 1, NEW j \in 1 .. k - 1, NEW f, f = stack'[j], NEW d, d = stack'[k]
        PROVE  Over(f, d)
    <3>1. CASE k = Depth + 1 /\ j = Depth
      <4>1. Over(me, c)
        BY DEF Hands
      <4>2. QED
        BY <1>2, <2>1, <3>1, <4>1
    <3>2. CASE k = Depth + 1 /\ j # Depth
      <4>1. j \in 1 .. Depth - 1
        BY <1>1, <3>2
      <4>2. f = stack[j] /\ d = c
        BY <1>2, <2>1, <3>2, <4>1
      <4>3. f \in Frames /\ FrameOK(f) /\ Over(f, top)
        BY <4>1, <4>2, OfCaller
      <4>4. c.mark[2] = Len(nodes') /\ f.mark[2] \in Nat /\ top.mark[2] \in Nat /\ f.expr \in Nat /\ c.expr \in Nat
        <5>1. c.mark = <<cur', Len(nodes')>>
          BY DEF Hands
        <5>2. c.mark[2] = Len(nodes')
          BY <5>1
        <5>3. f.mark[2] \in Nat /\ f.expr \in Nat
          BY <4>3 DEF Frames
        <5>4. top.mark[2] \in Nat /\ c.expr \in Nat
          BY <1>1 DEF Frames
        <5>5. QED
          BY <5>2, <5>3, <5>4
      <4>5. top.mark[2] <= Len(nodes) /\ (InExpr(top) => top.expr \in 1 .. top.mark[2])
        BY <1>1 DEF FrameOK, Spanned
      <4>6. f.mark[2] <= c.mark[2]
        <5>1. f.mark[2] <= top.mark[2]
          BY <4>3 DEF Over
        <5>2. QED
          BY <1>4, <4>4, <4>5, <5>1
      <4>7. ASSUME InExpr(f)
            PROVE  /\ InExpr(c)
                   /\ \A i \in DOMAIN f.made : f.made[i] <= c.mark[2]
                   /\ f.expr <= c.expr
                   /\ f.expr = c.expr => Passing(f)
                   /\ f.fn = "conditional" /\ f.at = "then" => c.expr # f.made[2]
        <5>1. /\ InExpr(top) /\ f.expr <= top.expr /\ (f.expr = top.expr => Passing(f))
              /\ \A i \in DOMAIN f.made : f.made[i] <= top.mark[2]
          BY <4>3, <4>7 DEF Over
        <5>2. InExpr(c) /\ (c.expr > top.mark[2] \/ c.expr = top.expr)
          <6>1. InExpr(top) => c.expr > top.mark[2] \/ c.expr = top.expr
            BY DEF Hands
          <6>2. Over(me, c)
            BY DEF Hands
          <6>3. QED
            BY <1>8, <5>1, <6>1, <6>2 DEF Over, InExpr
        <5>3. top.expr <= c.expr /\ f.expr <= c.expr /\ (f.expr = c.expr => f.expr = top.expr)
          BY <1>1, <4>4, <4>5, <5>1, <5>2
        <5>4. ASSUME NEW i \in DOMAIN f.made
              PROVE  f.made[i] <= c.mark[2] /\ f.made[i] \in Nat
          <6>1. f.made[i] \in Nat
            BY <4>3, FrameFields
          <6>2. f.made[i] <= top.mark[2]
            BY <5>1
          <6>3. QED
            BY <1>4, <4>4, <4>5, <6>1, <6>2
        <5>5. ASSUME f.fn = "conditional", f.at = "then"
              PROVE  c.expr # f.made[2]
          <6>1. 2 \in DOMAIN f.made
            BY <4>3, <5>5 DEF FrameOK, Sized, Frames
          <6>2. f.made[2] <= top.mark[2] /\ f.made[2] \in Nat /\ top.expr # f.made[2]
            BY <4>3, <5>1, <5>4, <5>5, <6>1 DEF Over
          <6>3. QED
            BY <4>4, <5>2, <6>2
        <5>6. QED
          BY <5>1, <5>2, <5>3, <5>4, <5>5
      <4>8. f.fn = "conditional" => InExpr(f)
        BY DEF InExpr, ExprFns
      <4>9. QED
        BY <4>2, <4>6, <4>7, <4>8 DEF Over
    <3>3. CASE k # Depth + 1
      <4>1. k \in 1 .. Depth /\ j \in 1 .. Depth - 1 /\ (k # Depth => k \in 1 .. Depth - 1)
        BY <1>1, <3>3
      <4>2. PICK e : e = stack[k]
        OBVIOUS
      <4>3. f = stack[j] /\ d.fn = e.fn /\ d.expr = e.expr /\ d.mark = e.mark
        BY <1>1, <1>2, <1>8, <2>1, <4>1, <4>2
      <4>4. Over(f, e)
        BY <4>1, <4>2, <4>3 DEF Parse, Nested
      <4>5. QED
        BY <4>3, <4>4 DEF Over, InExpr
    <3>4. QED
      BY <3>1, <3>2, <3>3
  <2>2. QED
    BY <1>2, <2>1 DEF Nested
<1>12. Answered'
  BY <1>2, <1>6 DEF Answered
<1>13. NoTrace
  BY <1>1, <1>2 DEF NoTrace, NoRet
<1>14. QED
  BY <1>3, <1>9, <1>10, <1>11, <1>12, <1>13 DEF Parse

(* How an activation of no expression goes on as me, and calls nobody.     *)
GoesOn(top, me) ==
  /\ cur' \in Nat /\ IsSeq(nodes') /\ Len(nodes) <= Len(nodes')
  /\ me.fn = top.fn /\ me.expr = top.expr /\ me.mark = top.mark
  /\ \/ me.fn = "jump" /\ me.at = "value"
     \/ me.fn = "compound" /\ me.at = "open"
     \/ me.fn = "specifiers" /\ me.at = "more"
     \/ me.fn = "declarator" /\ me.at = "name"
  /\ Pending(me)' /\ Placed(me)'

(* A rule that looks at the next token and goes on.                        *)
LEMMA Continued ==
  ASSUME Parse, stack # << >>, NEW top, top = Top, NEW me \in Frames,
         Continue(me), tokens' = tokens, ended' = ended, GoesOn(top, me)
  PROVE  Parse' /\ NoTrace
<1>1. /\ top \in Frames /\ top = stack[Depth] /\ Depth \in Nat /\ Depth >= 1 /\ FrameOK(top)
  BY OfTop
<1>2. /\ stack' \in Seq(Frames) /\ Depth' = Depth /\ Top' = me
      /\ stack'[Depth] = me /\ ret' = NoRet
      /\ \A i \in 1 .. Depth - 1 : stack'[i] = stack[i]
  BY FrontAppend DEF Parse, Types, Depth, Top, Continue
<1>3. Types'
  BY <1>2 DEF Parse, Types, GoesOn
<1>4. Len(nodes) \in Nat /\ Len(nodes') \in Nat /\ Len(nodes) <= Len(nodes')
  BY SeqDomain DEF Parse, Types, GoesOn
<1>5. me.fn = top.fn /\ me.expr = top.expr /\ me.mark = top.mark /\ ~InExpr(me)
  BY DEF GoesOn, InExpr, ExprFns
<1>6. ASSUME NEW k \in 1 .. Depth - 1, NEW f, f = stack[k]
      PROVE  FrameOK(f)' /\ ~Alone(f) /\ (f.fn = "external" => k = 1)
  <2>1. f \in Frames /\ FrameOK(f) /\ ~Alone(f) /\ (f.fn = "external" => k = 1) /\ Over(f, top)
    BY <1>6, OfCaller
  <2>2. ~InExpr(f)
    BY <1>5, <2>1 DEF Over, InExpr
  <2>3. Blank(f)' /\ ~(f.fn = "conditional" /\ f.at = "then")
    BY <2>2 DEF Blank, InExpr, ExprFns
  <2>4. f.mark[2] <= Len(nodes) /\ f.mark[2] \in Nat
    BY <2>1, FrameFields DEF FrameOK, Spanned
  <2>5. f.mark[2] <= Len(nodes')
    BY <1>4, <2>4
  <2>6. FrameOK(f)'
    BY <1>4, <2>1, <2>2, <2>3, <2>5, FrameKept
  <2>7. QED
    BY <2>1, <2>6
<1>7. FrameOK(me)' /\ Told(me)' /\ DeclTold(me)' /\ me.fn # "external"
  <2>1. me.mark[2] <= Len(nodes) /\ me.mark[2] \in Nat
    BY <1>1, <1>5, FrameFields DEF FrameOK, Spanned
  <2>2. Spanned(me)'
    BY <1>4, <1>5, <2>1 DEF Spanned, InExpr
  <2>3. Entered(me)' /\ Sized(me)' /\ Looked(me)' /\ Blank(me)'
    BY <1>5 DEF GoesOn, Entered, Sized, Looked, Blank, InExpr, Passing, Failing, Tried, Begun
  <2>4. Told(me)' /\ DeclTold(me)' /\ me.fn # "external"
    BY DEF GoesOn, Told, DeclTold, Failing, Passing
  <2>5. QED
    BY <2>2, <2>3, <2>4 DEF FrameOK, GoesOn
<1>8. \A k \in 1 .. Depth : k \in 1 .. Depth - 1 \/ k = Depth
  BY <1>1
<1>9. Activations'
  <2>1. ASSUME NEW k \in 1 .. Depth, NEW f, f = stack'[k]
        PROVE  (Alone(f) => k = Depth) /\ (f.fn = "external" => k = 1) /\ FrameOK(f)'
    BY <1>2, <1>6, <1>7, <1>8, <2>1
  <2>2. QED
    BY <1>2, <2>1 DEF Activations, Alone
<1>10. Callers'
  <2>1. ASSUME NEW k \in 1 .. Depth - 1, NEW f, f = stack'[k], NEW d, d = stack'[k + 1]
        PROVE  Calls(f, d)' /\ DeclCalls(f, d)'
    <3>1. k + 1 = Depth \/ k + 1 \in 1 .. Depth - 1
      BY <1>1
    <3>2. PICK e : e = stack[k + 1]
      OBVIOUS
    <3>3. f = stack[k] /\ d.fn = e.fn /\ d.expr = e.expr /\ d.mark = e.mark
      BY <1>1, <1>2, <1>5, <2>1, <3>1, <3>2
    <3>4. Calls(f, e) /\ DeclCalls(f, e)
      BY <3>2, <3>3 DEF Parse, Callers
    <3>5. QED
      BY <3>3, <3>4 DEF Calls, DeclCalls, Was, InExpr
  <2>2. QED
    BY <1>2, <2>1 DEF Callers
<1>11. Nested'
  <2>1. ASSUME NEW k \in 1 .. Depth, NEW j \in 1 .. k - 1, NEW f, f = stack'[j], NEW d, d = stack'[k]
        PROVE  Over(f, d)
    <3>1. j \in 1 .. Depth - 1 /\ (k # Depth => k \in 1 .. Depth - 1)
      BY <1>1
    <3>2. PICK e : e = stack[k]
      OBVIOUS
    <3>3. f = stack[j] /\ d.fn = e.fn /\ d.expr = e.expr /\ d.mark = e.mark
      BY <1>1, <1>2, <1>5, <2>1, <3>1, <3>2
    <3>4. Over(f, e)
      BY <3>2, <3>3 DEF Parse, Nested
    <3>5. QED
      BY <3>3, <3>4 DEF Over, InExpr
  <2>2. QED
    BY <1>2, <2>1 DEF Nested
<1>12. Answered'
  BY <1>2, <1>7 DEF Answered
<1>13. NoTrace
  BY <1>2 DEF NoTrace, NoRet
<1>14. QED
  BY <1>3, <1>9, <1>10, <1>11, <1>12, <1>13 DEF Parse

-----------------------------------------------------------------------------
(* Activations, as they begin and go on                                    *)

(* g is the activation f, at another place.                                *)
Moves(g, f, at, made) ==
  /\ g \in Frames /\ g.fn = f.fn /\ g.at = at /\ g.expr = f.expr
  /\ g.lock = f.lock /\ g.level = f.level /\ g.made = made /\ g.mark = f.mark

(* An activation moves, and what it made is told anew or kept.             *)
LEMMA FrameMoved ==
  ASSUME NEW f \in Frames, NEW at \in Places
  PROVE  /\ \A made \in Seq(Nat) : Moves([f EXCEPT !.at = at, !.made = made], f, at, made)
         /\ Moves([f EXCEPT !.at = at], f, at, f.made)
  BY DEF Frames, Moves

(* g is an activation of fn that begins.                                   *)
Begins(g, fn, expr, mark) ==
  g \in Frames /\ g.fn = fn /\ g.at = "enter" /\ g.expr = expr /\ g.made = << >> /\ g.mark = mark

(* An activation that is called begins.                                    *)
LEMMA FrameCalled ==
  ASSUME NEW fn \in Fns, NEW expr \in Nat, NEW lock \in BOOLEAN, NEW level \in Int,
         NEW a \in Nat, NEW b \in Nat
  PROVE  Begins([Frame(fn, expr, lock, level) EXCEPT !.mark = <<a, b>>], fn, expr, <<a, b>>)
<1>1. << >> \in Seq(Nat)
  BY EmptySeq
<1>2. PICK f : f = Frame(fn, expr, lock, level)
  OBVIOUS
<1>3. /\ f \in Frames /\ f.fn = fn /\ f.at = "enter" /\ f.expr = expr /\ f.made = << >>
  <2>1. PICK mark \in Nat \X Nat : mark = <<0, 0>>
    OBVIOUS
  <2>2. PICK made \in Seq(Nat) : made = << >>
    BY <1>1
  <2>3. PICK at \in Places : at = "enter"
    BY DEF Places
  <2>4. f = [fn |-> fn, at |-> at, expr |-> expr, lock |-> lock, level |-> level,
             made |-> made, mark |-> mark]
    BY <1>2, <2>1, <2>2, <2>3 DEF Frame
  <2>5. f \in Frames
    BY <2>4 DEF Frames
  <2>6. QED
    BY <2>2, <2>3, <2>4, <2>5
<1>4. PICK mark \in Nat \X Nat : mark = <<a, b>>
  OBVIOUS
<1>5. PICK g : g = [f EXCEPT !.mark = mark]
  OBVIOUS
<1>6. g \in Frames /\ g.fn = fn /\ g.at = "enter" /\ g.expr = expr /\ g.made = << >> /\ g.mark = mark
  BY <1>3, <1>4, <1>5 DEF Frames
<1>7. QED
  BY <1>2, <1>4, <1>5, <1>6 DEF Begins

(* The blocks of an expression: the innermost one is still empty, ...      *)
LEMMA TopBlank ==
  ASSUME Parse, stack # << >>, NEW top, top = Top, InExpr(top), ~(ret = "true" /\ Passing(top))
  PROVE  /\ nodes[top.expr] = Block /\ top.expr \in 1 .. top.mark[2]
         /\ top.mark[2] \in Nat /\ top.mark[2] <= Len(nodes) /\ Len(nodes) \in Nat
<1>1. top \in Frames /\ FrameOK(top)
  BY OfTop
<1>2. QED
  BY <1>1, FrameFields, SeqDomain DEF FrameOK, Blank, Spanned, Parse, Types

(* Whoever is at its first token knows what the call has told.             *)
LEMMA TopTold ==
  ASSUME Parse, stack # << >>, NEW top, top = Top, Failing(top)
  PROVE  /\ InExpr(top) /\ Seen(top.mark[1]) /\ ret \in {"true", "false"}
         /\ ret = "true" <=> Starts(top.mark[1])
         /\ ret = "false" => /\ cur = top.mark[1] /\ Len(nodes) = top.mark[2] + Len(top.made)
         /\ InOrder(top)
         /\ Tried(top) => ret = "false"
<1>1. top \in Frames /\ FrameOK(top) /\ Told(top)
  BY OfTop
<1>2. InExpr(top)
  BY DEF Failing, Passing, InExpr, ExprFns
<1>3. InOrder(top)
  BY <1>1 DEF FrameOK, Sized
<1>4. QED
  BY <1>1, <1>2, <1>3 DEF Told, FrameOK, Looked

-----------------------------------------------------------------------------
(* The rules of expressions                                                *)

(* What each step keeps.                                                   *)
StepOK ==
  /\ status' = "parsing" => Parse'
  /\ NoTrace /\ AssertsOnlyInDeclarations' /\ NoAssignment' /\ Parsed'

(* A node is given a child.                                                *)
LEMMA ChildGiven ==
  ASSUME NEW ns, IsSeq(ns), NEW n, NEW c
  PROVE  SameBut(WithChild(ns, n, c), ns, n)
<1>1. PICK e : WithChild(ns, n, c) = [ns EXCEPT ![n] = e]
  BY DEF WithChild
<1>2. QED
  BY <1>1, SeqExcept, Zenon

(* A block takes a child, or becomes it.                                   *)
LEMMA CoalescedGiven ==
  ASSUME NEW ns, IsSeq(ns), NEW n, NEW c
  PROVE  SameBut(WithCoalesced(ns, n, c), ns, n)
<1>1. CASE ns[n].kids = << >>
  <2>1. WithCoalesced(ns, n, c) = [ns EXCEPT ![n] = ns[c]]
    BY <1>1 DEF WithCoalesced
  <2>2. QED
    BY <2>1, SeqExcept, Zenon
<1>2. CASE ns[n].kids # << >>
  BY <1>2, ChildGiven DEF WithCoalesced
<1>3. QED
  BY <1>1, <1>2

(* Where the innermost activation is.                                      *)
LEMMA AtPlace ==
  ASSUME Parse, NEW fn, NEW place, At(fn, place), NEW top, top = Top
  PROVE  /\ stack # << >> /\ status = "parsing" /\ Known
         /\ top.fn = fn /\ top.at = place /\ top \in Frames
         /\ FrameOK(top) /\ Told(top) /\ DeclTold(top)
         /\ Len(nodes) \in Nat /\ IsSeq(nodes) /\ cur \in Nat /\ Len(tokens) \in Nat
<1>1. stack # << >> /\ status = "parsing" /\ Known /\ top.fn = fn /\ top.at = place
  BY DEF At
<1>2. top \in Frames /\ FrameOK(top) /\ Told(top) /\ DeclTold(top)
  BY <1>1, OfTop
<1>3. QED
  BY <1>1, <1>2, SeqDomain DEF Parse, Types

(* A step that is an ordinary call, return or move.                        *)
LEMMA StepRests ==
  ASSUME status = "parsing", Rest, Parse', NoTrace
  PROVE  StepOK
  BY DEF StepOK, Rest, AssertsOnlyInDeclarations, NoAssignment, Parsed

(* A step that ends the parse.                                             *)
LEMMA StepGives ==
  ASSUME Parse, NEW outcome, Give(outcome), outcome \notin {"parsing", "parsed", "asserted", "assigning"}
  PROVE  StepOK
<1>1. Len(stack) \in Nat /\ stack' = stack /\ status' = outcome
  BY LenProperties DEF Parse, Types, Give
<1>2. NoTrace
  BY <1>1 DEF NoTrace
<1>3. QED
  BY <1>1, <1>2 DEF StepOK, AssertsOnlyInDeclarations, NoAssignment, Parsed

(* What a rule pops when it fails is what it pushed, in order.             *)
LEMMA UndoRight ==
  ASSUME Parse, stack # << >>, status = "parsing", NEW top, top = Top, Failing(top),
         ret = "false", Undo(top.made)
  PROVE  StepOK
<1>1. /\ top \in Frames /\ FrameOK(top) /\ Len(nodes) \in Nat /\ IsSeq(nodes) /\ cur \in Nat
  BY OfTop, SeqDomain DEF Parse, Types
<1>2. /\ InExpr(top) /\ Seen(top.mark[1]) /\ ~Starts(top.mark[1])
      /\ cur = top.mark[1] /\ Len(nodes) = top.mark[2] + Len(top.made) /\ InOrder(top)
  BY TopTold
<1>3. /\ top.mark[2] \in Nat /\ Len(top.made) \in Nat
      /\ DOMAIN top.made = 1 .. Len(top.made)
  BY <1>1, FrameFields
<1>4. PopsInOrder(top.made)
  BY <1>2, <1>3 DEF PopsInOrder, InOrder
<1>5. Len(nodes) - Len(top.made) = top.mark[2] /\ top.mark[2] <= Len(nodes)
  BY <1>2, <1>3
<1>6. /\ nodes' = SubSeq(nodes, 1, top.mark[2])
      /\ Return("false") /\ cur' = cur /\ Rest
  BY <1>4, <1>5 DEF Undo, Stay
<1>7. IsSeq(nodes') /\ Len(nodes') = top.mark[2] /\ \A i \in 1 .. top.mark[2] : nodes'[i] = nodes[i]
  BY <1>1, <1>3, <1>5, <1>6, SeqPrefix
<1>8. nodes[top.expr] = Block /\ top.expr \in 1 .. top.mark[2]
  BY <1>2, TopBlank
<1>9. top.mark = <<cur', Len(nodes')>>
  <2>1. top.mark = <<top.mark[1], top.mark[2]>>
    BY <1>1 DEF Frames
  <2>2. QED
    BY <1>2, <1>6, <1>7, <2>1
<1>10. Leaves(top, "false")
  <2>1. top.fn \notin {"specifiers", "declarator", "compound"}
    BY <1>2 DEF InExpr, ExprFns
  <2>2. cur' \in Nat /\ top.mark[2] <= Len(nodes') /\ nodes'[top.expr] = Block
    BY <1>1, <1>3, <1>6, <1>7, <1>8
  <2>3. QED
    BY <1>2, <1>7, <1>9, <2>1, <2>2 DEF Leaves
<1>11. Parse' /\ NoTrace
  BY <1>6, <1>10, Returned DEF Rest
<1>12. QED
  BY <1>6, <1>11, StepRests

(* An operand is a name or a number.                                       *)
LEMMA OperandStep ==
  ASSUME Parse, Operand
  PROVE  StepOK
<1>1. PICK top : top = Top
  OBVIOUS
<1>2. /\ At("unary", "enter") /\ Rest
      /\ stack # << >> /\ status = "parsing" /\ Known
      /\ top.fn = "unary" /\ top.at = "enter" /\ top \in Frames /\ FrameOK(top)
      /\ Len(nodes) \in Nat /\ IsSeq(nodes) /\ cur \in Nat /\ Len(tokens) \in Nat
  BY <1>1, AtPlace DEF Operand
<1>3. InExpr(top) /\ ~Passing(top) /\ top.mark = <<cur, Len(nodes)>>
  BY <1>2 DEF InExpr, ExprFns, Passing, FrameOK, Entered
<1>4. nodes[top.expr] = Block /\ top.expr \in 1 .. Len(nodes) /\ top.mark[1] = cur /\ top.mark[2] = Len(nodes)
  BY <1>1, <1>2, <1>3, TopBlank
<1>5. Seen(top.mark[1]) /\ (Starts(top.mark[1]) <=> Tok \in {"IDENT", "LITERAL"})
  BY <1>2, <1>4 DEF Seen, Starts, Known, Tok
<1>6. CASE Tok \in {"IDENT", "LITERAL"}
  <2>1. Opened(Top.expr) = nodes /\ PlaceIn(Top.expr) = top.expr
    BY <1>1, <1>4 DEF Opened, PlaceIn
  <2>2. PICK node : node = [Node(Tok, << >>) EXCEPT !.name = cur + 1]
    OBVIOUS
  <2>3. /\ nodes' = WithChild(Append(nodes, node), top.expr, Len(nodes) + 1)
        /\ cur' = cur + 1 /\ Return("true")
    BY <1>6, <2>1, <2>2 DEF Operand, Consume
  <2>4. PICK grown : grown = Append(nodes, node)
    OBVIOUS
  <2>5. IsSeq(grown) /\ Len(grown) = Len(nodes) + 1 /\ \A i \in 1 .. Len(nodes) : grown[i] = nodes[i]
    BY <1>2, <2>4, SeqAppend
  <2>6. nodes' = WithChild(grown, top.expr, Len(nodes) + 1)
    BY <2>3, <2>4
  <2>7. IsSeq(nodes') /\ Len(nodes') = Len(grown) /\ \A i \in 1 .. Len(grown) : i # top.expr => nodes'[i] = grown[i]
    BY <2>5, <2>6, ChildGiven DEF SameBut
  <2>8. \A i \in 1 .. Len(nodes) : i # top.expr => nodes'[i] = nodes[i]
    BY <1>2, <2>5, <2>7
  <2>9. top.mark[2] <= Len(nodes') /\ cur' \in Nat
    BY <1>2, <1>4, <2>3, <2>5, <2>7
  <2>10. Leaves(top, "true")
    BY <1>2, <1>4, <1>5, <1>6, <2>7, <2>8, <2>9 DEF Leaves
  <2>11. Parse' /\ NoTrace
    BY <1>1, <1>2, <2>3, <2>10, Returned DEF Rest
  <2>12. QED
    BY <1>2, <2>11, StepRests
<1>7. CASE Tok \notin {"IDENT", "LITERAL"}
  <2>1. nodes' = nodes /\ cur' = cur /\ Return("false")
    BY <1>7 DEF Operand, Stay
  <2>2. Leaves(top, "false")
    BY <1>2, <1>3, <1>4, <1>5, <1>7, <2>1 DEF Leaves
  <2>3. Parse' /\ NoTrace
    BY <1>1, <1>2, <2>1, <2>2, Returned DEF Rest
  <2>4. QED
    BY <1>2, <2>3, StepRests
<1>8. QED
  BY <1>6, <1>7

(* How an activation of an expression calls another.                       *)
ExprCall(top, me, c) ==
  /\ cur' \in Nat /\ IsSeq(nodes') /\ Len(nodes) <= Len(nodes')
  /\ \A n \in 1 .. Len(nodes) : nodes'[n] = nodes[n]
  /\ me.fn = top.fn /\ me.expr = top.expr /\ me.mark = top.mark /\ ~Alone(me)
  /\ \A d \in DOMAIN me.made : me.made[d] \in me.mark[2] + 1 .. Len(nodes')
  /\ Sized(me) /\ Looked(me) /\ Pending(me)'
  /\ c.at = "enter" /\ c.made = << >> /\ c.mark = <<cur', Len(nodes')>> /\ InExpr(c)
  /\ nodes'[c.expr] = Block
  /\ \/ c.expr = top.expr /\ Passing(me)
     \/ /\ c.expr \in top.mark[2] + 1 .. Len(nodes')
        /\ me.fn = "conditional" /\ me.at = "then" => c.expr # me.made[2]
  /\ Failing(me) => c.mark = <<me.mark[1], me.mark[2] + Len(me.made)>>
  /\ me.fn = "binop" /\ me.at = "lhs" => c.expr = me.made[1]

(* A rule of expressions that calls another keeps the invariant.           *)
LEMMA ExprCalls ==
  ASSUME Parse, stack # << >>, status = "parsing", Rest, NEW top, top = Top, InExpr(top),
         ~(ret = "true" /\ Passing(top)), NEW me \in Frames, NEW c \in Frames,
         stack' = Front(stack) \o <<me, c>>, ret' = NoRet, ExprCall(top, me, c)
  PROVE  StepOK
<1>1. /\ nodes[top.expr] = Block /\ top.expr \in 1 .. top.mark[2]
      /\ top.mark[2] \in Nat /\ top.mark[2] <= Len(nodes) /\ Len(nodes) \in Nat
  BY TopBlank
<1>2. /\ me.fn = top.fn /\ me.expr = top.expr /\ me.mark = top.mark /\ InExpr(me) /\ InExpr(c)
      /\ c.mark = <<cur', Len(nodes')>> /\ Len(nodes) <= Len(nodes') /\ Len(nodes') \in Nat
  BY SeqDomain DEF ExprCall, InExpr
<1>3. /\ me.fn \notin {"jump", "parameter", "external", "specifiers", "declarator", "compound"}
      /\ c.fn \notin {"parameter", "external"}
  BY <1>2 DEF InExpr, ExprFns
<1>4. c.expr > top.mark[2] \/ c.expr = top.expr
  BY <1>1, <1>2 DEF ExprCall
<1>5. c.expr \in 1 .. Len(nodes') /\ me.expr <= c.expr
  <2>1. c.expr = top.expr \/ c.expr \in top.mark[2] + 1 .. Len(nodes')
    BY DEF ExprCall
  <2>2. QED
    BY <1>1, <1>2, <2>1
<1>6. Calls(me, c) /\ DeclCalls(me, c)
  BY <1>2, <1>3 DEF ExprCall, Calls, DeclCalls
<1>7. Over(me, c)
  <2>1. c.mark[2] = Len(nodes')
    BY <1>2
  <2>2. \A d \in DOMAIN me.made : me.made[d] \in me.mark[2] + 1 .. Len(nodes')
    BY DEF ExprCall
  <2>3. \A d \in DOMAIN me.made : me.made[d] <= c.mark[2]
    BY <1>1, <1>2, <2>1, <2>2
  <2>4. me.expr = c.expr => Passing(me)
    BY <1>1, <1>2 DEF ExprCall
  <2>5. me.mark[2] <= c.mark[2]
    BY <1>1, <1>2, <2>1
  <2>6. me.fn = "conditional" /\ me.at = "then" => c.expr # me.made[2]
    BY DEF ExprCall, Passing
  <2>7. QED
    BY <1>2, <1>5, <2>3, <2>4, <2>5, <2>6 DEF Over
<1>8. Placed(me)'
  BY <1>3 DEF Placed
<1>9. Hands(top, me, c)
  <2>1. \A d \in DOMAIN me.made : me.made[d] \in me.mark[2] + 1 .. Len(nodes')
    BY DEF ExprCall
  <2>2. cur' \in Nat /\ IsSeq(nodes') /\ ~Alone(me) /\ \A n \in 1 .. Len(nodes) : nodes'[n] = nodes[n]
    BY DEF ExprCall
  <2>3. Sized(me) /\ Looked(me) /\ Pending(me)' /\ c.at = "enter" /\ c.made = << >> /\ nodes'[c.expr] = Block
    BY DEF ExprCall
  <2>4. QED
    BY <1>2, <1>3, <1>4, <1>5, <1>6, <1>7, <1>8, <2>1, <2>2, <2>3 DEF Hands
<1>10. Parse' /\ NoTrace
  BY <1>9, Called DEF Rest
<1>11. QED
  BY <1>10, StepRests

(* The activation of a rule of operators.                                  *)
LEMMA RuleCalled ==
  ASSUME NEW level \in Int, NEW expr \in Nat, NEW lock \in BOOLEAN, NEW a \in Nat, NEW b \in Nat
  PROVE  \E fn \in ExprFns :
           Begins([Rule(level, expr, lock) EXCEPT !.mark = <<a, b>>], fn, expr, <<a, b>>)
<1>1. {"unary", "binop"} \subseteq Fns \cap ExprFns /\ FALSE \in BOOLEAN /\ 0 \in Int
  BY DEF Fns, ExprFns
<1>2. PICK fn \in {"unary", "binop"}, l \in BOOLEAN, v \in Int : Rule(level, expr, lock) = Frame(fn, expr, l, v)
  BY <1>1 DEF Rule, Unary
<1>3. Begins([Frame(fn, expr, l, v) EXCEPT !.mark = <<a, b>>], fn, expr, <<a, b>>)
  BY <1>1, FrameCalled
<1>4. QED
  BY <1>1, <1>2, <1>3

(* The activations of the other rules of expressions.                      *)
LEMMA ExprCalled ==
  ASSUME NEW expr \in Nat, NEW lock \in BOOLEAN, NEW a \in Nat, NEW b \in Nat,
         NEW f \in {Expression(expr, lock), Conditional(expr), Unary(expr), Frame("assignment", expr, FALSE, 0)}
  PROVE  \E fn \in ExprFns : Begins([f EXCEPT !.mark = <<a, b>>], fn, expr, <<a, b>>)
<1>1. {"expression", "conditional", "unary", "assignment"} \subseteq Fns \cap ExprFns
  BY DEF Fns, ExprFns
<1>2. FALSE \in BOOLEAN /\ 0 \in Int
  OBVIOUS
<1>3. PICK fn \in {"expression", "conditional", "unary", "assignment"}, l \in BOOLEAN : f = Frame(fn, expr, l, 0)
  BY <1>2 DEF Expression, Conditional, Unary
<1>4. Begins([Frame(fn, expr, l, 0) EXCEPT !.mark = <<a, b>>], fn, expr, <<a, b>>)
  BY <1>1, <1>2, FrameCalled
<1>5. QED
  BY <1>1, <1>3, <1>4

(* What the arena is after a push.                                         *)
LEMMA Pushed ==
  ASSUME IsSeq(nodes), NEW new, IsSeq(new), Push(new)
  PROVE  Extends(nodes', nodes, new)
<1>1. nodes' = nodes \o new
  BY DEF Push
<1>2. QED
  BY <1>1, SeqConcat, Zenon

(* A rule of operators begins with its left operand.                       *)
LEMMA BinopEnterStep ==
  ASSUME Parse, BinopEnter
  PROVE  StepOK
<1>1. PICK top : top = Top
  OBVIOUS
<1>2. At("binop", "enter") /\ Push(<<Block>>) /\ cur' = cur /\ Rest
  BY DEF BinopEnter, Stay
<1>3. /\ stack # << >> /\ status = "parsing"
      /\ top.fn = "binop" /\ top.at = "enter" /\ top \in Frames /\ FrameOK(top)
      /\ Len(nodes) \in Nat /\ IsSeq(nodes) /\ cur \in Nat
  BY <1>1, <1>2, AtPlace
<1>4. InExpr(top) /\ ~Passing(top) /\ top.mark = <<cur, Len(nodes)>>
  BY <1>3 DEF InExpr, ExprFns, Passing, FrameOK, Entered
<1>5. PICK new : new = Len(nodes) + 1
  OBVIOUS
<1>6. new \in Nat /\ new = Fresh
  BY <1>3, <1>5 DEF Fresh
<1>7. IsSeq(nodes') /\ Len(nodes') = new /\ (\A n \in 1 .. Len(nodes) : nodes'[n] = nodes[n]) /\ nodes'[new] = Block
  <2>1. IsSeq(<<Block>>) /\ Len(<<Block>>) = 1 /\ <<Block>>[1] = Block
    BY SeqOne
  <2>2. Extends(nodes', nodes, <<Block>>)
    BY <1>2, <1>3, <2>1, Pushed
  <2>3. QED
    BY <1>3, <1>5, <2>1, <2>2 DEF Extends
<1>8. PICK made : made = <<new>>
  OBVIOUS
<1>9. made \in Seq(Nat) /\ Len(made) = 1 /\ made[1] = new /\ DOMAIN made = 1 .. 1
  BY <1>6, <1>8, SeqOne
<1>10. PICK me : me = [top EXCEPT !.at = "lhs", !.made = made]
  OBVIOUS
<1>11. me \in Frames /\ me.fn = "binop" /\ me.at = "lhs" /\ me.expr = top.expr /\ me.made = made /\ me.mark = top.mark
  <2>1. "lhs" \in Places
    BY DEF Places
  <2>2. Moves(me, top, "lhs", made)
    BY <1>3, <1>9, <1>10, <2>1, FrameMoved, Zenon
  <2>3. QED
    BY <1>3, <2>2 DEF Moves
<1>12. PICK c : c = [Rule(top.level - 1, new, FALSE) EXCEPT !.mark = <<cur', Len(nodes')>>]
  OBVIOUS
<1>13. /\ c \in Frames /\ c.at = "enter" /\ c.expr = new /\ c.made = << >>
       /\ c.mark = <<cur', Len(nodes')>> /\ InExpr(c)
  <2>1. top.level - 1 \in Int /\ FALSE \in BOOLEAN
    BY <1>3, FrameFields
  <2>2. cur' \in Nat /\ Len(nodes') \in Nat
    BY <1>2, <1>3, <1>6, <1>7
  <2>3. \E fn \in ExprFns : Begins(c, fn, new, <<cur', Len(nodes')>>)
    BY <1>6, <1>12, <2>1, <2>2, RuleCalled, Zenon
  <2>4. QED
    BY <2>3 DEF Begins, InExpr
<1>14. stack' = Front(stack) \o <<me, c>> /\ ret' = NoRet
  BY <1>1, <1>6, <1>8, <1>10, <1>12 DEF BinopEnter, Call
<1>15. ExprCall(top, me, c)
  <2>1. top.mark[1] = cur /\ top.mark[2] = Len(nodes)
    BY <1>4
  <2>2. Len(nodes) <= Len(nodes') /\ new \in top.mark[2] + 1 .. Len(nodes')
    BY <1>3, <1>5, <1>7, <2>1
  <2>3. InOrder(me)
    <3>1. me.mark[2] = Len(nodes) /\ DOMAIN me.made = 1 .. 1 /\ Len(me.made) = 1 /\ me.made[1] = Len(nodes) + 1
      BY <1>5, <1>9, <1>11, <2>1
    <3>2. QED
      BY <1>3, <3>1 DEF InOrder
  <2>4. Sized(me) /\ Looked(me) /\ Pending(me)' /\ ~Alone(me) /\ ~Passing(me)
    BY <1>9, <1>11, <2>3 DEF Sized, Looked, Pending, Alone, Passing, Tried, Begun
  <2>5. \A d \in DOMAIN me.made : me.made[d] \in me.mark[2] + 1 .. Len(nodes')
    BY <1>9, <1>11, <2>2
  <2>6. c.mark = <<me.mark[1], me.mark[2] + Len(me.made)>>
    BY <1>2, <1>5, <1>7, <1>9, <1>11, <1>13, <2>1
  <2>7. QED
    BY <1>2, <1>3, <1>7, <1>9, <1>11, <1>13, <2>2, <2>4, <2>5, <2>6 DEF ExprCall
<1>16. QED
  BY <1>1, <1>2, <1>3, <1>4, <1>11, <1>13, <1>14, <1>15, ExprCalls

(* An expression that was found: its block has been filled.                *)
LEMMA ExprFound ==
  ASSUME Parse, stack # << >>, status = "parsing", Rest, NEW top, top = Top, InExpr(top),
         Starts(top.mark[1]), SameBut(nodes', nodes, top.expr), cur' = cur, Return("true")
  PROVE  StepOK
<1>1. top \in Frames /\ FrameOK(top) /\ cur \in Nat /\ Len(nodes) \in Nat
  BY OfTop, SeqDomain DEF Parse, Types
<1>2. top.mark[2] \in Nat /\ top.mark[2] <= Len(nodes)
  BY <1>1, FrameFields DEF FrameOK, Spanned
<1>3. IsSeq(nodes') /\ Len(nodes') = Len(nodes) /\ \A i \in 1 .. Len(nodes) : i # top.expr => nodes'[i] = nodes[i]
  BY DEF SameBut
<1>4. \A i \in 1 .. top.mark[2] : i # top.expr => nodes'[i] = nodes[i]
  BY <1>1, <1>2, <1>3
<1>5. top.fn \notin {"specifiers", "declarator", "compound"} /\ Seen(top.mark[1])
  BY DEF InExpr, ExprFns, Seen, Starts
<1>6. Leaves(top, "true")
  BY <1>1, <1>2, <1>3, <1>4, <1>5 DEF Leaves
<1>7. Parse' /\ NoTrace
  BY <1>6, Returned DEF Rest
<1>8. QED
  BY <1>7, StepRests

(* The operator is there: the right operand is next.                       *)
LEMMA BinopOperatorStep ==
  ASSUME Parse, BinopOperator
  PROVE  StepOK
<1>1. PICK top : top = Top
  OBVIOUS
<1>2. PICK place \in {"lhs", "retry"} : At("binop", place)
  BY DEF BinopOperator
<1>3. ret = "true" /\ Rest
  BY DEF BinopOperator, HasLhs
<1>4. /\ stack # << >> /\ status = "parsing"
      /\ top.fn = "binop" /\ top.at = place /\ top \in Frames /\ FrameOK(top)
      /\ Len(nodes) \in Nat /\ IsSeq(nodes) /\ cur \in Nat
  BY <1>1, <1>2, AtPlace
<1>5. InExpr(top) /\ ~Passing(top) /\ Failing(top)
  BY <1>4 DEF InExpr, ExprFns, Passing, Failing
<1>6. Starts(top.mark[1])
  BY <1>1, <1>3, <1>4, <1>5, TopTold
<1>7. /\ DOMAIN top.made = 1 .. 1 /\ top.mark[2] \in Nat /\ top.mark[2] <= Len(nodes)
      /\ top.made[1] \in top.mark[2] + 1 .. Len(nodes)
  <2>1. Len(top.made) = 1
    BY <1>4 DEF FrameOK, Sized
  <2>2. DOMAIN top.made = 1 .. 1 /\ top.mark[2] \in Nat
    BY <1>4, <2>1, FrameFields
  <2>3. QED
    BY <1>4, <1>5, <2>2 DEF FrameOK, Spanned
<1>8. PICK lhs : lhs = top.made[1]
  OBVIOUS
<1>9. PICK rhs : rhs = Len(nodes) + 1
  OBVIOUS
<1>10. PICK op : op = Len(nodes) + 2
  OBVIOUS
<1>11. rhs \in Nat /\ op \in Nat /\ lhs \in Nat /\ Fresh = rhs /\ Fresh + 1 = op
  BY <1>4, <1>7, <1>8, <1>9, <1>10 DEF Fresh
<1>12. PICK node : node = Node(Operator, <<lhs, rhs>>)
  OBVIOUS
<1>13. Push(<<Block, node>>) /\ cur' = cur + 1
  BY <1>1, <1>8, <1>11, <1>12 DEF BinopOperator, Consume
<1>14. /\ IsSeq(nodes') /\ Len(nodes') = op /\ (\A n \in 1 .. Len(nodes) : nodes'[n] = nodes[n])
       /\ nodes'[rhs] = Block
  <2>1. IsSeq(<<Block, node>>) /\ Len(<<Block, node>>) = 2 /\ <<Block, node>>[1] = Block
    BY SeqTwo
  <2>2. Extends(nodes', nodes, <<Block, node>>)
    BY <1>4, <1>13, <2>1, Pushed
  <2>3. QED
    BY <1>4, <1>9, <1>10, <2>1, <2>2 DEF Extends
<1>15. PICK made : made = <<op, rhs, lhs>>
  OBVIOUS
<1>16. made \in Seq(Nat) /\ Len(made) = 3 /\ made[1] = op /\ made[2] = rhs /\ made[3] = lhs /\ DOMAIN made = 1 .. 3
  BY <1>11, <1>15, SeqThree
<1>17. PICK me : me = [top EXCEPT !.at = "rhs", !.made = made]
  OBVIOUS
<1>18. me \in Frames /\ me.fn = "binop" /\ me.at = "rhs" /\ me.expr = top.expr /\ me.made = made /\ me.mark = top.mark
  <2>1. "rhs" \in Places
    BY DEF Places
  <2>2. Moves(me, top, "rhs", made)
    BY <1>4, <1>16, <1>17, <2>1, FrameMoved, Zenon
  <2>3. QED
    BY <1>4, <2>2 DEF Moves
<1>19. PICK c : c = [Rule(top.level - 1, rhs, FALSE) EXCEPT !.mark = <<cur', Len(nodes')>>]
  OBVIOUS
<1>20. /\ c \in Frames /\ c.at = "enter" /\ c.expr = rhs /\ c.made = << >>
       /\ c.mark = <<cur', Len(nodes')>> /\ InExpr(c)
  <2>1. top.level - 1 \in Int /\ FALSE \in BOOLEAN
    BY <1>4, FrameFields
  <2>2. cur' \in Nat /\ Len(nodes') \in Nat
    BY <1>4, <1>11, <1>13, <1>14
  <2>3. \E fn \in ExprFns : Begins(c, fn, rhs, <<cur', Len(nodes')>>)
    BY <1>11, <1>19, <2>1, <2>2, RuleCalled, Zenon
  <2>4. QED
    BY <2>3 DEF Begins, InExpr
<1>21. stack' = Front(stack) \o <<me, c>> /\ ret' = NoRet
  BY <1>1, <1>8, <1>11, <1>15, <1>17, <1>19 DEF BinopOperator, Call
<1>22. ExprCall(top, me, c)
  <2>1. Len(nodes) <= Len(nodes') /\ rhs \in top.mark[2] + 1 .. Len(nodes')
    BY <1>4, <1>7, <1>9, <1>10, <1>14
  <2>2. Sized(me) /\ Looked(me) /\ Pending(me)' /\ ~Alone(me) /\ ~Failing(me)
    BY <1>6, <1>16, <1>18 DEF Sized, Looked, Pending, Alone, Passing, Failing, Tried, Begun
  <2>3. \A d \in 1 .. 3 : made[d] \in top.mark[2] + 1 .. Len(nodes')
    <3>1. op \in top.mark[2] + 1 .. Len(nodes') /\ lhs \in top.mark[2] + 1 .. Len(nodes')
      BY <1>4, <1>7, <1>8, <1>10, <1>14
    <3>2. \A d \in 1 .. 3 : d = 1 \/ d = 2 \/ d = 3
      OBVIOUS
    <3>3. QED
      BY <1>16, <2>1, <3>1, <3>2
  <2>4. cur' \in Nat
    BY <1>4, <1>13
  <2>5. QED
    BY <1>4, <1>14, <1>16, <1>18, <1>20, <2>1, <2>2, <2>3, <2>4 DEF ExprCall
<1>23. QED
  BY <1>1, <1>3, <1>4, <1>5, <1>18, <1>20, <1>21, <1>22, ExprCalls

(* No operator: the operand is all.                                        *)
LEMMA BinopPlainStep ==
  ASSUME Parse, BinopPlain
  PROVE  StepOK
<1>1. PICK top : top = Top
  OBVIOUS
<1>2. /\ At("binop", "lhs") /\ ret = "true" /\ Rest /\ cur' = cur /\ Return("true")
      /\ nodes' = WithCoalesced(nodes, top.expr, top.made[1])
  BY <1>1 DEF BinopPlain, HasLhs, Stay
<1>3. stack # << >> /\ status = "parsing" /\ top.fn = "binop" /\ top.at = "lhs" /\ IsSeq(nodes)
  BY <1>1, <1>2, AtPlace
<1>4. InExpr(top) /\ Failing(top)
  BY <1>3 DEF InExpr, ExprFns, Failing
<1>5. Starts(top.mark[1])
  BY <1>1, <1>2, <1>3, <1>4, TopTold
<1>6. SameBut(nodes', nodes, top.expr)
  BY <1>2, <1>3, CoalescedGiven
<1>7. QED
  BY <1>1, <1>2, <1>3, <1>4, <1>5, <1>6, ExprFound

(* No left operand: the rule tries itself in its place.                    *)
LEMMA BinopRetryStep ==
  ASSUME Parse, BinopRetry
  PROVE  StepOK
<1>1. PICK top : top = Top
  OBVIOUS
<1>2. At("binop", "lhs") /\ ret = "false" /\ nodes' = nodes /\ cur' = cur /\ Rest
  BY DEF BinopRetry, Stay
<1>3. /\ stack # << >> /\ status = "parsing"
      /\ top.fn = "binop" /\ top.at = "lhs" /\ top \in Frames /\ FrameOK(top) /\ Told(top)
      /\ Len(nodes) \in Nat /\ IsSeq(nodes) /\ cur \in Nat
  BY <1>1, <1>2, AtPlace
<1>4. InExpr(top) /\ ~Passing(top) /\ Failing(top)
  BY <1>3 DEF InExpr, ExprFns, Passing, Failing
<1>5. /\ Seen(top.mark[1]) /\ ~Starts(top.mark[1]) /\ InOrder(top)
      /\ cur = top.mark[1] /\ Len(nodes) = top.mark[2] + Len(top.made)
  BY <1>1, <1>2, <1>3, <1>4, TopTold
<1>6. /\ DOMAIN top.made = 1 .. 1 /\ Len(top.made) = 1 /\ top.mark[2] \in Nat /\ top.made \in Seq(Nat)
      /\ top.made[1] \in top.mark[2] + 1 .. Len(nodes)
  <2>1. Len(top.made) = 1
    BY <1>3 DEF FrameOK, Sized
  <2>2. DOMAIN top.made = 1 .. 1 /\ top.mark[2] \in Nat /\ top.made \in Seq(Nat)
    BY <1>3, <2>1, FrameFields
  <2>3. QED
    BY <1>3, <1>4, <2>1, <2>2 DEF FrameOK, Spanned
<1>7. PICK lhs \in Nat : lhs = top.made[1]
  BY <1>6
<1>8. PICK me : me = [top EXCEPT !.at = "retry"]
  OBVIOUS
<1>9. me \in Frames /\ me.fn = "binop" /\ me.at = "retry" /\ me.expr = top.expr /\ me.made = top.made /\ me.mark = top.mark
  <2>1. "retry" \in Places
    BY DEF Places
  <2>2. Moves(me, top, "retry", top.made)
    BY <1>3, <1>8, <2>1, FrameMoved, Zenon
  <2>3. QED
    BY <1>3, <2>2 DEF Moves
<1>10. PICK c : c = [Rule(top.level, lhs, TRUE) EXCEPT !.mark = <<cur', Len(nodes')>>]
  OBVIOUS
<1>11. /\ c \in Frames /\ c.at = "enter" /\ c.expr = lhs /\ c.made = << >>
       /\ c.mark = <<cur', Len(nodes')>> /\ InExpr(c)
  <2>1. top.level \in Int /\ TRUE \in BOOLEAN
    BY <1>3, FrameFields
  <2>2. cur' \in Nat /\ Len(nodes') \in Nat
    BY <1>2, <1>3
  <2>3. \E fn \in ExprFns : Begins(c, fn, lhs, <<cur', Len(nodes')>>)
    BY <1>7, <1>10, <2>1, <2>2, RuleCalled, Zenon
  <2>4. QED
    BY <2>3 DEF Begins, InExpr
<1>12. stack' = Front(stack) \o <<me, c>> /\ ret' = NoRet
  BY <1>1, <1>7, <1>8, <1>10 DEF BinopRetry, Call
<1>13. ExprCall(top, me, c)
  <2>1. Sized(me) /\ Looked(me) /\ Pending(me)' /\ ~Alone(me)
    BY <1>5, <1>6, <1>9 DEF Sized, Looked, Pending, Alone, Passing, Failing, Tried, Begun, InOrder
  <2>2. \A d \in DOMAIN me.made : me.made[d] \in me.mark[2] + 1 .. Len(nodes')
    BY <1>2, <1>6, <1>9
  <2>3. c.mark = <<me.mark[1], me.mark[2] + Len(me.made)>>
    BY <1>2, <1>5, <1>9, <1>11
  <2>4. nodes'[lhs] = Block
    BY <1>2, <1>3, <1>7 DEF Told
  <2>5. QED
    BY <1>2, <1>3, <1>6, <1>7, <1>9, <1>11, <2>1, <2>2, <2>3, <2>4 DEF ExprCall
<1>14. QED
  BY <1>1, <1>2, <1>3, <1>4, <1>9, <1>11, <1>12, <1>13, ExprCalls

(* No left operand, and none in its place.                                 *)
LEMMA BinopFailStep ==
  ASSUME Parse, BinopFail
  PROVE  StepOK
<1>1. PICK top : top = Top
  OBVIOUS
<1>2. PICK place \in {"lhs", "retry"} : At("binop", place)
  BY DEF BinopFail
<1>3. /\ stack # << >> /\ status = "parsing" /\ top.fn = "binop" /\ top.at = place
  BY <1>1, <1>2, AtPlace
<1>4. Failing(top) /\ (top.at = "retry" => Tried(top))
  BY <1>3 DEF Failing, Tried
<1>5. ret = "false"
  <2>1. ret \in {"true", "false"} /\ (Tried(top) => ret = "false")
    BY <1>1, <1>3, <1>4, TopTold
  <2>2. ~(ret = "true" /\ (top.at = "retry" => Tok = Operator))
    BY <1>1 DEF BinopFail, HasLhs
  <2>3. QED
    BY <1>3, <1>4, <2>1, <2>2
<1>6. Undo(top.made)
  BY <1>1 DEF BinopFail
<1>7. QED
  BY <1>1, <1>3, <1>4, <1>5, <1>6, UndoRight

(* Both operands are there: the operator goes into the block.              *)
LEMMA BinopDoneStep ==
  ASSUME Parse, BinopDone
  PROVE  StepOK
<1>1. PICK top : top = Top
  OBVIOUS
<1>2. /\ At("binop", "rhs") /\ Rest /\ cur' = cur /\ Return("true")
      /\ nodes' = WithChild(nodes, top.expr, top.made[1])
  BY <1>1 DEF BinopDone, Stay
<1>3. stack # << >> /\ status = "parsing" /\ top.fn = "binop" /\ top.at = "rhs" /\ IsSeq(nodes) /\ FrameOK(top)
  BY <1>1, <1>2, AtPlace
<1>4. InExpr(top) /\ Starts(top.mark[1])
  BY <1>3 DEF InExpr, ExprFns, FrameOK, Looked, Begun
<1>5. SameBut(nodes', nodes, top.expr)
  BY <1>2, <1>3, ChildGiven
<1>6. QED
  BY <1>1, <1>2, <1>3, <1>4, <1>5, ExprFound

(* The rules of operators.                                                 *)
LEMMA BinopStep ==
  ASSUME Parse, Binop
  PROVE  StepOK
<1>1. ASSUME BinopAbort
      PROVE  StepOK
  BY <1>1, StepGives DEF BinopAbort, Abort
<1>2. QED
  BY <1>1, BinopEnterStep, BinopOperatorStep, BinopPlainStep, BinopRetryStep, BinopFailStep,
     BinopDoneStep DEF Binop

(* A conditional begins with its condition.                                *)
LEMMA CondEnterStep ==
  ASSUME Parse, CondEnter
  PROVE  StepOK
<1>1. PICK top : top = Top
  OBVIOUS
<1>2. At("conditional", "enter") /\ Push(<<Block>>) /\ cur' = cur /\ Rest
  BY DEF CondEnter, Stay
<1>3. /\ stack # << >> /\ status = "parsing"
      /\ top.fn = "conditional" /\ top.at = "enter" /\ top \in Frames /\ FrameOK(top)
      /\ Len(nodes) \in Nat /\ IsSeq(nodes) /\ cur \in Nat
  BY <1>1, <1>2, AtPlace
<1>4. InExpr(top) /\ ~Passing(top) /\ top.mark = <<cur, Len(nodes)>>
  BY <1>3 DEF InExpr, ExprFns, Passing, FrameOK, Entered
<1>5. PICK new : new = Len(nodes) + 1
  OBVIOUS
<1>6. new \in Nat /\ new = Fresh
  BY <1>3, <1>5 DEF Fresh
<1>7. IsSeq(nodes') /\ Len(nodes') = new /\ (\A n \in 1 .. Len(nodes) : nodes'[n] = nodes[n]) /\ nodes'[new] = Block
  <2>1. IsSeq(<<Block>>) /\ Len(<<Block>>) = 1 /\ <<Block>>[1] = Block
    BY SeqOne
  <2>2. Extends(nodes', nodes, <<Block>>)
    BY <1>2, <1>3, <2>1, Pushed
  <2>3. QED
    BY <1>3, <1>5, <2>1, <2>2 DEF Extends
<1>8. PICK made : made = <<new>>
  OBVIOUS
<1>9. made \in Seq(Nat) /\ Len(made) = 1 /\ made[1] = new /\ DOMAIN made = 1 .. 1
  BY <1>6, <1>8, SeqOne
<1>10. PICK me : me = [top EXCEPT !.at = "cond", !.made = made]
  OBVIOUS
<1>11. me \in Frames /\ me.fn = "conditional" /\ me.at = "cond" /\ me.expr = top.expr /\ me.made = made /\ me.mark = top.mark
  <2>1. "cond" \in Places
    BY DEF Places
  <2>2. Moves(me, top, "cond", made)
    BY <1>3, <1>9, <1>10, <2>1, FrameMoved, Zenon
  <2>3. QED
    BY <1>3, <2>2 DEF Moves
<1>12. PICK c : c = [Rule(Len(Ops), new, FALSE) EXCEPT !.mark = <<cur', Len(nodes')>>]
  OBVIOUS
<1>13. /\ c \in Frames /\ c.at = "enter" /\ c.expr = new /\ c.made = << >>
       /\ c.mark = <<cur', Len(nodes')>> /\ InExpr(c)
  <2>1. Len(Ops) \in Int /\ FALSE \in BOOLEAN
    BY OpsAssumption, LenProperties
  <2>2. cur' \in Nat /\ Len(nodes') \in Nat
    BY <1>2, <1>3, <1>6, <1>7
  <2>3. \E fn \in ExprFns : Begins(c, fn, new, <<cur', Len(nodes')>>)
    BY <1>6, <1>12, <2>1, <2>2, RuleCalled, Zenon
  <2>4. QED
    BY <2>3 DEF Begins, InExpr
<1>14. stack' = Front(stack) \o <<me, c>> /\ ret' = NoRet
  BY <1>1, <1>6, <1>8, <1>10, <1>12 DEF CondEnter, Call
<1>15. ExprCall(top, me, c)
  <2>1. top.mark[1] = cur /\ top.mark[2] = Len(nodes)
    BY <1>4
  <2>2. Len(nodes) <= Len(nodes') /\ new \in top.mark[2] + 1 .. Len(nodes')
    BY <1>3, <1>5, <1>7, <2>1
  <2>3. InOrder(me)
    <3>1. me.mark[2] = Len(nodes) /\ DOMAIN me.made = 1 .. 1 /\ Len(me.made) = 1 /\ me.made[1] = Len(nodes) + 1
      BY <1>5, <1>9, <1>11, <2>1
    <3>2. QED
      BY <1>3, <3>1 DEF InOrder
  <2>4. Sized(me) /\ Looked(me) /\ Pending(me)' /\ ~Alone(me) /\ ~Passing(me)
    BY <1>9, <1>11, <2>3 DEF Sized, Looked, Pending, Alone, Passing, Tried, Begun
  <2>5. \A d \in DOMAIN me.made : me.made[d] \in me.mark[2] + 1 .. Len(nodes')
    BY <1>9, <1>11, <2>2
  <2>6. c.mark = <<me.mark[1], me.mark[2] + Len(me.made)>>
    BY <1>2, <1>5, <1>7, <1>9, <1>11, <1>13, <2>1
  <2>7. QED
    BY <1>2, <1>3, <1>7, <1>9, <1>11, <1>13, <2>2, <2>4, <2>5, <2>6 DEF ExprCall
<1>16. QED
  BY <1>1, <1>2, <1>3, <1>4, <1>11, <1>13, <1>14, <1>15, ExprCalls

(* No question mark: the condition is all; and what it was is known.       *)
LEMMA CondPlainStep ==
  ASSUME Parse, CondPlain
  PROVE  StepOK
<1>1. PICK top : top = Top
  OBVIOUS
<1>2. /\ At("conditional", "cond") /\ ret = "true" /\ Rest /\ cur' = cur /\ Return("true")
      /\ nodes' = WithChild(nodes, top.expr, top.made[1])
  BY <1>1 DEF CondPlain, Stay
<1>3. stack # << >> /\ status = "parsing" /\ top.fn = "conditional" /\ top.at = "cond" /\ IsSeq(nodes)
  BY <1>1, <1>2, AtPlace
<1>4. InExpr(top) /\ Failing(top)
  BY <1>3 DEF InExpr, ExprFns, Failing
<1>5. Starts(top.mark[1])
  BY <1>1, <1>2, <1>3, <1>4, TopTold
<1>6. SameBut(nodes', nodes, top.expr)
  BY <1>2, <1>3, ChildGiven
<1>7. QED
  BY <1>1, <1>2, <1>3, <1>4, <1>5, <1>6, ExprFound

(* A question mark: the two branches have blocks, and the first is next.   *)
LEMMA CondThenStep ==
  ASSUME Parse, CondThen
  PROVE  StepOK
<1>1. PICK top : top = Top
  OBVIOUS
<1>2. At("conditional", "cond") /\ ret = "true" /\ Rest
  BY DEF CondThen
<1>3. /\ stack # << >> /\ status = "parsing"
      /\ top.fn = "conditional" /\ top.at = "cond" /\ top \in Frames /\ FrameOK(top)
      /\ Len(nodes) \in Nat /\ IsSeq(nodes) /\ cur \in Nat
  BY <1>1, <1>2, AtPlace
<1>4. InExpr(top) /\ ~Passing(top) /\ Failing(top)
  BY <1>3 DEF InExpr, ExprFns, Passing, Failing
<1>5. Starts(top.mark[1])
  BY <1>1, <1>2, <1>3, <1>4, TopTold
<1>6. /\ DOMAIN top.made = 1 .. 1 /\ top.mark[2] \in Nat /\ top.mark[2] <= Len(nodes)
      /\ top.made[1] \in top.mark[2] + 1 .. Len(nodes)
  <2>1. Len(top.made) = 1
    BY <1>3 DEF FrameOK, Sized
  <2>2. DOMAIN top.made = 1 .. 1 /\ top.mark[2] \in Nat
    BY <1>3, <2>1, FrameFields
  <2>3. QED
    BY <1>3, <1>4, <2>2 DEF FrameOK, Spanned
<1>7. PICK cond : cond = top.made[1]
  OBVIOUS
<1>8. PICK then : then = Len(nodes) + 1
  OBVIOUS
<1>9. PICK else : else = Len(nodes) + 2
  OBVIOUS
<1>10. PICK if : if = Len(nodes) + 3
  OBVIOUS
<1>11. /\ then \in Nat /\ else \in Nat /\ if \in Nat /\ cond \in Nat
       /\ Fresh = then /\ Fresh + 1 = else /\ Fresh + 2 = if
  BY <1>3, <1>6, <1>7, <1>8, <1>9, <1>10 DEF Fresh
<1>12. PICK node : node = Node("IF", <<cond, then, else>>)
  OBVIOUS
<1>13. Push(<<Block, Block, node>>) /\ cur' = cur + 1
  BY <1>1, <1>7, <1>11, <1>12 DEF CondThen, Consume
<1>14. /\ IsSeq(nodes') /\ Len(nodes') = if /\ (\A n \in 1 .. Len(nodes) : nodes'[n] = nodes[n])
       /\ nodes'[then] = Block /\ nodes'[else] = Block
  <2>1. /\ IsSeq(<<Block, Block, node>>) /\ Len(<<Block, Block, node>>) = 3
        /\ <<Block, Block, node>>[1] = Block /\ <<Block, Block, node>>[2] = Block
    BY SeqThree
  <2>2. Extends(nodes', nodes, <<Block, Block, node>>)
    BY <1>3, <1>13, <2>1, Pushed
  <2>3. QED
    BY <1>3, <1>8, <1>9, <1>10, <2>1, <2>2 DEF Extends
<1>15. PICK made : made = <<if, else, then, cond>>
  OBVIOUS
<1>16. /\ made \in Seq(Nat) /\ Len(made) = 4 /\ DOMAIN made = 1 .. 4
       /\ made[1] = if /\ made[2] = else /\ made[3] = then /\ made[4] = cond
  BY <1>11, <1>15, SeqFour
<1>17. PICK me : me = [top EXCEPT !.at = "then", !.made = made]
  OBVIOUS
<1>18. me \in Frames /\ me.fn = "conditional" /\ me.at = "then" /\ me.expr = top.expr /\ me.made = made /\ me.mark = top.mark
  <2>1. "then" \in Places
    BY DEF Places
  <2>2. Moves(me, top, "then", made)
    BY <1>3, <1>16, <1>17, <2>1, FrameMoved, Zenon
  <2>3. QED
    BY <1>3, <2>2 DEF Moves
<1>19. PICK c : c = [Expression(then, FALSE) EXCEPT !.mark = <<cur', Len(nodes')>>]
  OBVIOUS
<1>20. /\ c \in Frames /\ c.at = "enter" /\ c.expr = then /\ c.made = << >>
       /\ c.mark = <<cur', Len(nodes')>> /\ InExpr(c)
  <2>1. cur' \in Nat /\ Len(nodes') \in Nat /\ FALSE \in BOOLEAN
    BY <1>3, <1>11, <1>13, <1>14
  <2>2. \E fn \in ExprFns : Begins(c, fn, then, <<cur', Len(nodes')>>)
    BY <1>11, <1>19, <2>1, ExprCalled, Zenon
  <2>3. QED
    BY <2>2 DEF Begins, InExpr
<1>21. stack' = Front(stack) \o <<me, c>> /\ ret' = NoRet
  BY <1>1, <1>7, <1>11, <1>15, <1>17, <1>19 DEF CondThen, Call
<1>22. ExprCall(top, me, c)
  <2>1. Len(nodes) <= Len(nodes') /\ then \in top.mark[2] + 1 .. Len(nodes') /\ then # else
    BY <1>3, <1>6, <1>8, <1>9, <1>10, <1>14
  <2>2. Sized(me) /\ Looked(me) /\ Pending(me)' /\ ~Alone(me) /\ ~Failing(me)
    BY <1>5, <1>14, <1>16, <1>18 DEF Sized, Looked, Pending, Alone, Passing, Failing, Tried, Begun
  <2>3. \A d \in 1 .. 4 : made[d] \in top.mark[2] + 1 .. Len(nodes')
    <3>1. /\ if \in top.mark[2] + 1 .. Len(nodes') /\ else \in top.mark[2] + 1 .. Len(nodes')
          /\ cond \in top.mark[2] + 1 .. Len(nodes')
      BY <1>3, <1>6, <1>7, <1>9, <1>10, <1>14
    <3>2. \A d \in 1 .. 4 : d = 1 \/ d = 2 \/ d = 3 \/ d = 4
      OBVIOUS
    <3>3. QED
      BY <1>16, <2>1, <3>1, <3>2
  <2>4. cur' \in Nat
    BY <1>3, <1>13
  <2>5. QED
    BY <1>3, <1>14, <1>16, <1>18, <1>20, <2>1, <2>2, <2>3, <2>4 DEF ExprCall
<1>23. QED
  BY <1>1, <1>2, <1>3, <1>4, <1>18, <1>20, <1>21, <1>22, ExprCalls

(* A colon: the second branch is a conditional.                            *)
LEMMA CondElseStep ==
  ASSUME Parse, CondElse
  PROVE  StepOK
<1>1. PICK top : top = Top
  OBVIOUS
<1>2. At("conditional", "then") /\ ret = "true" /\ nodes' = nodes /\ cur' = cur + 1 /\ Rest
  BY DEF CondElse, Consume
<1>3. /\ stack # << >> /\ status = "parsing"
      /\ top.fn = "conditional" /\ top.at = "then" /\ top \in Frames /\ FrameOK(top)
      /\ Len(nodes) \in Nat /\ IsSeq(nodes) /\ cur \in Nat
  BY <1>1, <1>2, AtPlace
<1>4. InExpr(top) /\ ~Passing(top) /\ Starts(top.mark[1]) /\ nodes[top.made[2]] = Block
  BY <1>3 DEF InExpr, ExprFns, Passing, FrameOK, Looked, Begun, Pending
<1>5. /\ DOMAIN top.made = 1 .. 4 /\ Len(top.made) = 4 /\ top.mark[2] \in Nat /\ top.made \in Seq(Nat)
      /\ \A d \in 1 .. 4 : top.made[d] \in top.mark[2] + 1 .. Len(nodes)
  <2>1. Len(top.made) = 4
    BY <1>3 DEF FrameOK, Sized
  <2>2. DOMAIN top.made = 1 .. 4 /\ top.mark[2] \in Nat /\ top.made \in Seq(Nat)
    BY <1>3, <2>1, FrameFields
  <2>3. QED
    BY <1>3, <1>4, <2>1, <2>2 DEF FrameOK, Spanned
<1>6. PICK else \in Nat : else = top.made[2]
  BY <1>5
<1>7. PICK me : me = [top EXCEPT !.at = "else"]
  OBVIOUS
<1>8. me \in Frames /\ me.fn = "conditional" /\ me.at = "else" /\ me.expr = top.expr /\ me.made = top.made /\ me.mark = top.mark
  <2>1. "else" \in Places
    BY DEF Places
  <2>2. Moves(me, top, "else", top.made)
    BY <1>3, <1>7, <2>1, FrameMoved, Zenon
  <2>3. QED
    BY <1>3, <2>2 DEF Moves
<1>9. PICK c : c = [Conditional(else) EXCEPT !.mark = <<cur', Len(nodes')>>]
  OBVIOUS
<1>10. /\ c \in Frames /\ c.at = "enter" /\ c.expr = else /\ c.made = << >>
       /\ c.mark = <<cur', Len(nodes')>> /\ InExpr(c)
  <2>1. cur' \in Nat /\ Len(nodes') \in Nat /\ FALSE \in BOOLEAN
    BY <1>2, <1>3
  <2>2. \E fn \in ExprFns : Begins(c, fn, else, <<cur', Len(nodes')>>)
    BY <1>6, <1>9, <2>1, ExprCalled, Zenon
  <2>3. QED
    BY <2>2 DEF Begins, InExpr
<1>11. stack' = Front(stack) \o <<me, c>> /\ ret' = NoRet
  BY <1>1, <1>6, <1>7, <1>9 DEF CondElse, Call
<1>12. ExprCall(top, me, c)
  <2>1. Sized(me) /\ Looked(me) /\ Pending(me)' /\ ~Alone(me) /\ ~Failing(me)
    BY <1>4, <1>5, <1>8 DEF Sized, Looked, Pending, Alone, Passing, Failing, Tried, Begun
  <2>2. \A d \in DOMAIN me.made : me.made[d] \in me.mark[2] + 1 .. Len(nodes')
    BY <1>2, <1>5, <1>8
  <2>3. else \in top.mark[2] + 1 .. Len(nodes') /\ nodes'[else] = Block /\ cur' \in Nat
    BY <1>2, <1>3, <1>4, <1>5, <1>6
  <2>4. QED
    BY <1>2, <1>3, <1>8, <1>10, <2>1, <2>2, <2>3 DEF ExprCall
<1>13. QED
  BY <1>1, <1>2, <1>3, <1>4, <1>8, <1>10, <1>11, <1>12, ExprCalls

(* All three are there: the conditional goes into the block.               *)
LEMMA CondDoneStep ==
  ASSUME Parse, CondDone
  PROVE  StepOK
<1>1. PICK top : top = Top
  OBVIOUS
<1>2. /\ At("conditional", "else") /\ Rest /\ cur' = cur /\ Return("true")
      /\ nodes' = WithChild(nodes, top.expr, top.made[1])
  BY <1>1 DEF CondDone, Stay
<1>3. stack # << >> /\ status = "parsing" /\ top.fn = "conditional" /\ top.at = "else" /\ IsSeq(nodes) /\ FrameOK(top)
  BY <1>1, <1>2, AtPlace
<1>4. InExpr(top) /\ Starts(top.mark[1])
  BY <1>3 DEF InExpr, ExprFns, FrameOK, Looked, Begun
<1>5. SameBut(nodes', nodes, top.expr)
  BY <1>2, <1>3, ChildGiven
<1>6. QED
  BY <1>1, <1>2, <1>3, <1>4, <1>5, ExprFound

(* No condition.                                                           *)
LEMMA CondFailStep ==
  ASSUME Parse, CondFail
  PROVE  StepOK
<1>1. PICK top : top = Top
  OBVIOUS
<1>2. At("conditional", "cond") /\ ret = "false" /\ Undo(top.made)
  BY <1>1 DEF CondFail
<1>3. /\ stack # << >> /\ status = "parsing" /\ top.fn = "conditional" /\ top.at = "cond"
  BY <1>1, <1>2, AtPlace
<1>4. Failing(top)
  BY <1>3 DEF Failing
<1>5. QED
  BY <1>1, <1>2, <1>3, <1>4, UndoRight

(* The rule of conditionals.                                               *)
LEMMA ConditionStep ==
  ASSUME Parse, Condition
  PROVE  StepOK
<1>1. ASSUME CondAbort
      PROVE  StepOK
  BY <1>1, StepGives DEF CondAbort, Abort
<1>2. QED
  BY <1>1, CondEnterStep, CondPlainStep, CondThenStep, CondElseStep, CondDoneStep, CondFailStep
     DEF Condition

(* An assignment begins as a conditional, in the same block.               *)
LEMMA AssignEnterStep ==
  ASSUME Parse, AssignEnter
  PROVE  StepOK
<1>1. PICK top : top = Top
  OBVIOUS
<1>2. At("assignment", "enter") /\ nodes' = nodes /\ cur' = cur /\ Rest
  BY DEF AssignEnter, Stay
<1>3. /\ stack # << >> /\ status = "parsing"
      /\ top.fn = "assignment" /\ top.at = "enter" /\ top \in Frames /\ FrameOK(top)
      /\ Len(nodes) \in Nat /\ IsSeq(nodes) /\ cur \in Nat
  BY <1>1, <1>2, AtPlace
<1>4. InExpr(top) /\ ~Passing(top) /\ top.mark = <<cur, Len(nodes)>> /\ top.made = << >>
  BY <1>3 DEF InExpr, ExprFns, Passing, FrameOK, Entered
<1>5. top.expr \in Nat /\ nodes[top.expr] = Block /\ Len(<< >>) = 0 /\ DOMAIN << >> = {}
  BY <1>1, <1>3, <1>4, TopBlank, FrameFields
<1>6. PICK me : me = [top EXCEPT !.at = "cond"]
  OBVIOUS
<1>7. me \in Frames /\ me.fn = "assignment" /\ me.at = "cond" /\ me.expr = top.expr /\ me.made = << >> /\ me.mark = top.mark
  <2>1. "cond" \in Places
    BY DEF Places
  <2>2. Moves(me, top, "cond", top.made)
    BY <1>3, <1>6, <2>1, FrameMoved, Zenon
  <2>3. QED
    BY <1>3, <1>4, <2>2 DEF Moves
<1>8. PICK c : c = [Conditional(top.expr) EXCEPT !.mark = <<cur', Len(nodes')>>]
  OBVIOUS
<1>9. /\ c \in Frames /\ c.at = "enter" /\ c.expr = top.expr /\ c.made = << >>
      /\ c.mark = <<cur', Len(nodes')>> /\ InExpr(c)
  <2>1. cur' \in Nat /\ Len(nodes') \in Nat /\ FALSE \in BOOLEAN
    BY <1>2, <1>3
  <2>2. \E fn \in ExprFns : Begins(c, fn, top.expr, <<cur', Len(nodes')>>)
    BY <1>5, <1>8, <2>1, ExprCalled, Zenon
  <2>3. QED
    BY <2>2 DEF Begins, InExpr
<1>10. stack' = Front(stack) \o <<me, c>> /\ ret' = NoRet
  BY <1>1, <1>6, <1>8 DEF AssignEnter, Call
<1>11. ExprCall(top, me, c)
  <2>1. Passing(me) /\ ~Alone(me) /\ InOrder(me)
    BY <1>5, <1>7 DEF Passing, Alone, InOrder
  <2>2. Sized(me) /\ Looked(me) /\ Pending(me)'
    BY <1>7, <2>1 DEF Sized, Looked, Pending, Tried, Begun
  <2>3. c.mark = <<me.mark[1], me.mark[2] + Len(me.made)>>
    BY <1>2, <1>3, <1>4, <1>5, <1>7, <1>9
  <2>4. QED
    BY <1>2, <1>3, <1>5, <1>7, <1>9, <2>1, <2>2, <2>3 DEF ExprCall
<1>12. QED
  BY <1>1, <1>2, <1>3, <1>4, <1>7, <1>9, <1>10, <1>11, ExprCalls

(* A rule that hands its block on has nothing to add when it was filled.   *)
LEMMA PassedOn ==
  ASSUME Parse, stack # << >>, status = "parsing", Rest, NEW top, top = Top, Passing(top),
         nodes' = nodes, cur' = cur, Return(ret)
  PROVE  StepOK
<1>1. /\ top \in Frames /\ FrameOK(top) /\ cur \in Nat /\ Len(nodes) \in Nat /\ IsSeq(nodes)
  BY OfTop, SeqDomain DEF Parse, Types
<1>2. Failing(top) /\ top.made = << >> /\ Len(<< >>) = 0
  BY <1>1 DEF Failing, FrameOK, Sized
<1>3. /\ InExpr(top) /\ ret \in {"true", "false"} /\ (ret = "true" <=> Starts(top.mark[1]))
      /\ Seen(top.mark[1])
      /\ ret = "false" => /\ cur = top.mark[1] /\ Len(nodes) = top.mark[2] + Len(top.made)
  BY <1>2, TopTold
<1>4. CASE ret = "true"
  BY <1>1, <1>3, <1>4, ExprFound DEF SameBut
<1>5. CASE ret = "false"
  <2>1. top.mark = <<cur', Len(nodes')>> /\ top.mark[2] = Len(nodes)
    <3>1. top.mark = <<top.mark[1], top.mark[2]>> /\ top.mark[2] \in Nat
      BY <1>1 DEF Frames
    <3>2. QED
      BY <1>2, <1>3, <1>5, <3>1
  <2>2. nodes[top.expr] = Block
    BY <1>3, <1>5, TopBlank
  <2>3. top.fn \notin {"specifiers", "declarator", "compound"}
    BY <1>3 DEF InExpr, ExprFns
  <2>4. /\ IsSeq(nodes') /\ cur' \in Nat /\ top.mark[2] <= Len(nodes') /\ nodes'[top.expr] = Block
        /\ \A i \in 1 .. top.mark[2] : i # top.expr => nodes'[i] = nodes[i]
    BY <1>1, <2>1, <2>2
  <2>5. Leaves(top, "false")
    BY <1>3, <1>5, <2>1, <2>3, <2>4 DEF Leaves
  <2>6. Parse' /\ NoTrace
    BY <1>5, <2>5, Returned DEF Rest
  <2>7. QED
    BY <2>6, StepRests
<1>6. QED
  BY <1>3, <1>4, <1>5

(* No conditional: a left side is tried in its place.                      *)
LEMMA AssignTryStep ==
  ASSUME Parse, AssignTry
  PROVE  StepOK
<1>1. PICK top : top = Top
  OBVIOUS
<1>2. At("assignment", "cond") /\ ret = "false" /\ cur' = cur /\ Rest
  BY DEF AssignTry, Stay
<1>3. /\ stack # << >> /\ status = "parsing"
      /\ top.fn = "assignment" /\ top.at = "cond" /\ top \in Frames /\ FrameOK(top)
      /\ Len(nodes) \in Nat /\ IsSeq(nodes) /\ cur \in Nat
  BY <1>1, <1>2, AtPlace
<1>4. InExpr(top) /\ Failing(top) /\ Passing(top)
  BY <1>3 DEF InExpr, ExprFns, Passing, Failing
<1>5. /\ Seen(top.mark[1]) /\ ~Starts(top.mark[1])
      /\ cur = top.mark[1] /\ Len(nodes) = top.mark[2]
  <2>1. top.made = << >> /\ Len(<< >>) = 0 /\ top.mark[2] \in Nat
    BY <1>3, <1>4, FrameFields DEF FrameOK, Sized
  <2>2. /\ Seen(top.mark[1]) /\ ~Starts(top.mark[1])
        /\ cur = top.mark[1] /\ Len(nodes) = top.mark[2] + Len(top.made)
    BY <1>1, <1>2, <1>3, <1>4, TopTold
  <2>3. QED
    BY <2>1, <2>2
<1>6. PICK lhs : lhs = Len(nodes) + 1
  OBVIOUS
<1>7. PICK rhs : rhs = Len(nodes) + 2
  OBVIOUS
<1>8. PICK assign : assign = Len(nodes) + 3
  OBVIOUS
<1>9. lhs \in Nat /\ rhs \in Nat /\ assign \in Nat /\ Fresh = lhs /\ Fresh + 1 = rhs /\ Fresh + 2 = assign
  BY <1>3, <1>6, <1>7, <1>8 DEF Fresh
<1>10. PICK node : node = Node("ASSIGN", <<lhs, lhs>>)
  OBVIOUS
<1>11. Push(<<Block, Block, node>>)
  BY <1>9, <1>10 DEF AssignTry
<1>12. /\ IsSeq(nodes') /\ Len(nodes') = assign /\ (\A n \in 1 .. Len(nodes) : nodes'[n] = nodes[n])
       /\ nodes'[lhs] = Block
  <2>1. /\ IsSeq(<<Block, Block, node>>) /\ Len(<<Block, Block, node>>) = 3
        /\ <<Block, Block, node>>[1] = Block
    BY SeqThree
  <2>2. Extends(nodes', nodes, <<Block, Block, node>>)
    BY <1>3, <1>11, <2>1, Pushed
  <2>3. QED
    BY <1>3, <1>6, <1>8, <2>1, <2>2 DEF Extends
<1>13. PICK made : made = <<assign, rhs, lhs>>
  OBVIOUS
<1>14. /\ made \in Seq(Nat) /\ Len(made) = 3 /\ DOMAIN made = 1 .. 3
       /\ made[1] = assign /\ made[2] = rhs /\ made[3] = lhs
  BY <1>9, <1>13, SeqThree
<1>15. PICK me : me = [top EXCEPT !.at = "unary", !.made = made]
  OBVIOUS
<1>16. me \in Frames /\ me.fn = "assignment" /\ me.at = "unary" /\ me.expr = top.expr /\ me.made = made /\ me.mark = top.mark
  <2>1. "unary" \in Places
    BY DEF Places
  <2>2. Moves(me, top, "unary", made)
    BY <1>3, <1>14, <1>15, <2>1, FrameMoved, Zenon
  <2>3. QED
    BY <1>3, <2>2 DEF Moves
<1>17. PICK c : c = [Unary(lhs) EXCEPT !.mark = <<cur', Len(nodes')>>]
  OBVIOUS
<1>18. /\ c \in Frames /\ c.at = "enter" /\ c.expr = lhs /\ c.made = << >>
       /\ c.mark = <<cur', Len(nodes')>> /\ InExpr(c)
  <2>1. cur' \in Nat /\ Len(nodes') \in Nat /\ FALSE \in BOOLEAN
    BY <1>2, <1>3, <1>9, <1>12
  <2>2. \E fn \in ExprFns : Begins(c, fn, lhs, <<cur', Len(nodes')>>)
    BY <1>9, <1>17, <2>1, ExprCalled, Zenon
  <2>3. QED
    BY <2>2 DEF Begins, InExpr
<1>19. stack' = Front(stack) \o <<me, c>> /\ ret' = NoRet
  BY <1>1, <1>9, <1>13, <1>15, <1>17 DEF AssignTry, Call
<1>20. ExprCall(top, me, c)
  <2>1. Len(nodes) <= Len(nodes') /\ lhs \in top.mark[2] + 1 .. Len(nodes')
    BY <1>3, <1>5, <1>6, <1>8, <1>12
  <2>2. \A d \in 1 .. 3 : d = 1 \/ d = 2 \/ d = 3
    OBVIOUS
  <2>3. InOrder(me)
    <3>1. /\ me.mark[2] = Len(nodes) /\ DOMAIN me.made = 1 .. 3 /\ Len(me.made) = 3
          /\ me.made[1] = Len(nodes) + 3 /\ me.made[2] = Len(nodes) + 2 /\ me.made[3] = Len(nodes) + 1
      BY <1>5, <1>6, <1>7, <1>8, <1>14, <1>16
    <3>2. QED
      BY <1>3, <2>2, <3>1 DEF InOrder
  <2>4. Sized(me) /\ Looked(me) /\ Pending(me)' /\ ~Alone(me)
    BY <1>5, <1>14, <1>16, <2>3 DEF Sized, Looked, Pending, Alone, Passing, Failing, Tried, Begun
  <2>5. \A d \in 1 .. 3 : made[d] \in top.mark[2] + 1 .. Len(nodes')
    <3>1. assign \in top.mark[2] + 1 .. Len(nodes') /\ rhs \in top.mark[2] + 1 .. Len(nodes')
      BY <1>3, <1>5, <1>7, <1>8, <1>12
    <3>2. QED
      BY <1>14, <2>1, <2>2, <3>1
  <2>6. c.mark = <<me.mark[1], me.mark[2] + Len(me.made)>>
    BY <1>2, <1>5, <1>8, <1>12, <1>14, <1>16, <1>18
  <2>7. QED
    BY <1>2, <1>3, <1>12, <1>14, <1>16, <1>18, <2>1, <2>4, <2>5, <2>6 DEF ExprCall
<1>21. QED
  BY <1>1, <1>2, <1>3, <1>4, <1>16, <1>18, <1>19, <1>20, ExprCalls

(* The left side fails where the conditional has failed.                   *)
LEMMA AssignFailStep ==
  ASSUME Parse, AssignFail
  PROVE  StepOK
<1>1. PICK top : top = Top
  OBVIOUS
<1>2. At("assignment", "unary")
  BY DEF AssignFail
<1>3. /\ stack # << >> /\ status = "parsing" /\ top.fn = "assignment" /\ top.at = "unary"
  BY <1>1, <1>2, AtPlace
<1>4. Failing(top) /\ Tried(top)
  BY <1>3 DEF Failing, Tried
<1>5. ret = "false"
  BY <1>1, <1>3, <1>4, TopTold
<1>6. Undo(top.made)
  BY <1>1, <1>5 DEF AssignFail
<1>7. QED
  BY <1>1, <1>3, <1>4, <1>5, <1>6, UndoRight

(* The rule of assignments.                                                *)
LEMMA AssignmentStep ==
  ASSUME Parse, Assignment
  PROVE  StepOK
<1>1. ASSUME AssignPlain
      PROVE  StepOK
  <2>1. PICK top : top = Top
    OBVIOUS
  <2>2. At("assignment", "cond") /\ nodes' = nodes /\ cur' = cur /\ Return(ret) /\ Rest
    BY <1>1 DEF AssignPlain, Stay
  <2>3. stack # << >> /\ status = "parsing" /\ top.fn = "assignment" /\ top.at = "cond"
    BY <2>1, <2>2, AtPlace
  <2>4. Passing(top)
    BY <2>3 DEF Passing
  <2>5. QED
    BY <2>1, <2>2, <2>3, <2>4, PassedOn
<1>2. QED
  BY <1>1, AssignEnterStep, AssignTryStep, AssignFailStep DEF Assignment

(* An expression is an assignment, in the same block, ...                  *)
LEMMA ExprEnterStep ==
  ASSUME Parse, ExprEnter
  PROVE  StepOK
<1>1. PICK top : top = Top
  OBVIOUS
<1>2. At("expression", "enter") /\ nodes' = nodes /\ cur' = cur /\ Rest
  BY DEF ExprEnter, Stay
<1>3. /\ stack # << >> /\ status = "parsing"
      /\ top.fn = "expression" /\ top.at = "enter" /\ top \in Frames /\ FrameOK(top)
      /\ Len(nodes) \in Nat /\ IsSeq(nodes) /\ cur \in Nat
  BY <1>1, <1>2, AtPlace
<1>4. InExpr(top) /\ ~Passing(top) /\ top.mark = <<cur, Len(nodes)>> /\ top.made = << >>
  BY <1>3 DEF InExpr, ExprFns, Passing, FrameOK, Entered
<1>5. top.expr \in Nat /\ nodes[top.expr] = Block /\ Len(<< >>) = 0 /\ DOMAIN << >> = {}
  BY <1>1, <1>3, <1>4, TopBlank, FrameFields
<1>6. PICK me : me = [top EXCEPT !.at = "first"]
  OBVIOUS
<1>7. me \in Frames /\ me.fn = "expression" /\ me.at = "first" /\ me.expr = top.expr /\ me.made = << >> /\ me.mark = top.mark
  <2>1. "first" \in Places
    BY DEF Places
  <2>2. Moves(me, top, "first", top.made)
    BY <1>3, <1>6, <2>1, FrameMoved, Zenon
  <2>3. QED
    BY <1>3, <1>4, <2>2 DEF Moves
<1>8. PICK c : c = [Frame("assignment", top.expr, FALSE, 0) EXCEPT !.mark = <<cur', Len(nodes')>>]
  OBVIOUS
<1>9. /\ c \in Frames /\ c.at = "enter" /\ c.expr = top.expr /\ c.made = << >>
      /\ c.mark = <<cur', Len(nodes')>> /\ InExpr(c)
  <2>1. cur' \in Nat /\ Len(nodes') \in Nat /\ FALSE \in BOOLEAN
    BY <1>2, <1>3
  <2>2. \E fn \in ExprFns : Begins(c, fn, top.expr, <<cur', Len(nodes')>>)
    BY <1>5, <1>8, <2>1, ExprCalled, Zenon
  <2>3. QED
    BY <2>2 DEF Begins, InExpr
<1>10. stack' = Front(stack) \o <<me, c>> /\ ret' = NoRet
  BY <1>1, <1>6, <1>8 DEF ExprEnter, Call
<1>11. ExprCall(top, me, c)
  <2>1. Passing(me) /\ ~Alone(me) /\ InOrder(me)
    BY <1>5, <1>7 DEF Passing, Alone, InOrder
  <2>2. Sized(me) /\ Looked(me) /\ Pending(me)'
    BY <1>7, <2>1 DEF Sized, Looked, Pending, Tried, Begun
  <2>3. c.mark = <<me.mark[1], me.mark[2] + Len(me.made)>>
    BY <1>2, <1>3, <1>4, <1>5, <1>7, <1>9
  <2>4. QED
    BY <1>2, <1>3, <1>5, <1>7, <1>9, <2>1, <2>2, <2>3 DEF ExprCall
<1>12. QED
  BY <1>1, <1>2, <1>3, <1>4, <1>7, <1>9, <1>10, <1>11, ExprCalls

(* ... and where there is none, it tries itself once more.                 *)
LEMMA ExprRetryStep ==
  ASSUME Parse, ExprRetry
  PROVE  StepOK
<1>1. PICK top : top = Top
  OBVIOUS
<1>2. At("expression", "first") /\ ret = "false" /\ nodes' = nodes /\ cur' = cur /\ Rest
  BY DEF ExprRetry, Stay
<1>3. /\ stack # << >> /\ status = "parsing"
      /\ top.fn = "expression" /\ top.at = "first" /\ top \in Frames /\ FrameOK(top)
      /\ Len(nodes) \in Nat /\ IsSeq(nodes) /\ cur \in Nat
  BY <1>1, <1>2, AtPlace
<1>4. InExpr(top) /\ Failing(top) /\ Passing(top)
  BY <1>3 DEF InExpr, ExprFns, Passing, Failing
<1>5. top.made = << >> /\ Len(<< >>) = 0 /\ DOMAIN << >> = {} /\ top.mark[2] \in Nat /\ top.expr \in Nat
  BY <1>3, <1>4, FrameFields DEF FrameOK, Sized
<1>6. /\ Seen(top.mark[1]) /\ ~Starts(top.mark[1])
      /\ cur = top.mark[1] /\ Len(nodes) = top.mark[2] + Len(top.made)
  BY <1>1, <1>2, <1>3, <1>4, TopTold
<1>7. nodes[top.expr] = Block
  BY <1>1, <1>2, <1>3, <1>4, TopBlank
<1>8. PICK me : me = [top EXCEPT !.at = "retry"]
  OBVIOUS
<1>9. me \in Frames /\ me.fn = "expression" /\ me.at = "retry" /\ me.expr = top.expr /\ me.made = << >> /\ me.mark = top.mark
  <2>1. "retry" \in Places
    BY DEF Places
  <2>2. Moves(me, top, "retry", top.made)
    BY <1>3, <1>8, <2>1, FrameMoved, Zenon
  <2>3. QED
    BY <1>3, <1>5, <2>2 DEF Moves
<1>10. PICK c : c = [Expression(top.expr, TRUE) EXCEPT !.mark = <<cur', Len(nodes')>>]
  OBVIOUS
<1>11. /\ c \in Frames /\ c.at = "enter" /\ c.expr = top.expr /\ c.made = << >>
       /\ c.mark = <<cur', Len(nodes')>> /\ InExpr(c)
  <2>1. cur' \in Nat /\ Len(nodes') \in Nat /\ TRUE \in BOOLEAN
    BY <1>2, <1>3
  <2>2. \E fn \in ExprFns : Begins(c, fn, top.expr, <<cur', Len(nodes')>>)
    BY <1>5, <1>10, <2>1, ExprCalled, Zenon
  <2>3. QED
    BY <2>2 DEF Begins, InExpr
<1>12. stack' = Front(stack) \o <<me, c>> /\ ret' = NoRet
  BY <1>1, <1>8, <1>10 DEF ExprRetry, Call
<1>13. ExprCall(top, me, c)
  <2>1. Passing(me) /\ ~Alone(me) /\ InOrder(me)
    BY <1>5, <1>9 DEF Passing, Alone, InOrder
  <2>2. Sized(me) /\ Looked(me) /\ Pending(me)'
    BY <1>6, <1>9, <2>1 DEF Sized, Looked, Pending, Tried, Begun
  <2>3. c.mark = <<me.mark[1], me.mark[2] + Len(me.made)>>
    BY <1>2, <1>5, <1>6, <1>9, <1>11
  <2>4. QED
    BY <1>2, <1>3, <1>5, <1>7, <1>9, <1>11, <2>1, <2>2, <2>3 DEF ExprCall
<1>14. QED
  BY <1>1, <1>2, <1>3, <1>4, <1>9, <1>11, <1>12, <1>13, ExprCalls

(* The rule of expressions.                                                *)
LEMMA ExprStep ==
  ASSUME Parse, Expr
  PROVE  StepOK
<1>1. ASSUME ExprEnd
      PROVE  StepOK
  <2>1. PICK top : top = Top
    OBVIOUS
  <2>2. PICK place \in {"first", "retry"} : At("expression", place)
    BY <1>1 DEF ExprEnd
  <2>3. stack # << >> /\ status = "parsing" /\ top.fn = "expression" /\ top.at = place
    BY <2>1, <2>2, AtPlace
  <2>4. CASE Top.at = "retry" /\ ret = "true"
    BY <1>1, <2>4, StepGives DEF ExprEnd, Abort
  <2>5. CASE ~(Top.at = "retry" /\ ret = "true")
    <3>1. nodes' = nodes /\ cur' = cur /\ Return(ret) /\ Rest
      BY <1>1, <2>5 DEF ExprEnd, Stay
    <3>2. Passing(top)
      BY <2>3 DEF Passing
    <3>3. QED
      BY <2>1, <2>3, <3>1, <3>2, PassedOn
  <2>6. QED
    BY <2>4, <2>5
<1>2. QED
  BY <1>1, ExprEnterStep, ExprRetryStep DEF Expr

-----------------------------------------------------------------------------
(* Statements                                                              *)

(* How an activation of no expression calls another.                       *)
PlainCall(top, me, c) ==
  /\ cur' \in Nat /\ IsSeq(nodes') /\ Len(nodes) <= Len(nodes')
  /\ me.fn = top.fn /\ me.expr = top.expr /\ me.mark = top.mark /\ ~Alone(me)
  /\ Sized(me) /\ Placed(me)'
  /\ c.at = "enter" /\ c.made = << >> /\ c.mark = <<cur', Len(nodes')>> /\ c.fn # "external"
  /\ InExpr(c) => c.expr \in 1 .. Len(nodes') /\ nodes'[c.expr] = Block
  /\ c.fn = "parameter" => Was(cur, {"(", ","})'
  /\ DeclCalls(me, c)

(* A rule of statements or declarations that calls keeps the invariant.    *)
LEMMA PlainCalls ==
  ASSUME Parse, stack # << >>, status = "parsing", Rest, NEW top, top = Top, ~InExpr(top),
         NEW me \in Frames, NEW c \in Frames,
         stack' = Front(stack) \o <<me, c>>, ret' = NoRet, PlainCall(top, me, c)
  PROVE  StepOK
<1>1. /\ top \in Frames /\ FrameOK(top) /\ Len(nodes) \in Nat /\ Len(nodes') \in Nat
      /\ top.mark[2] \in Nat
  BY OfTop, SeqDomain, FrameFields DEF Parse, Types, PlainCall
<1>2. /\ me.fn = top.fn /\ me.mark = top.mark /\ ~InExpr(me) /\ ~Alone(me)
      /\ c.mark = <<cur', Len(nodes')>> /\ Len(nodes) <= Len(nodes')
  BY DEF PlainCall, InExpr
<1>3. me.fn \notin {"binop", "conditional", "assignment", "expression"}
  BY <1>2 DEF InExpr, ExprFns
<1>4. Calls(me, c)
  BY <1>3 DEF Calls, Failing, Passing
<1>5. Over(me, c)
  <2>1. c.mark[2] = Len(nodes') /\ top.mark[2] <= Len(nodes)
    BY <1>1, <1>2 DEF FrameOK, Spanned
  <2>2. me.mark[2] <= c.mark[2]
    BY <1>1, <1>2, <2>1
  <2>3. QED
    BY <1>2, <1>3, <2>2 DEF Over
<1>6. Looked(me) /\ Pending(me)'
  BY <1>2, <1>3 DEF Looked, Tried, Begun, Pending, Alone
<1>7. Hands(top, me, c)
  BY <1>2, <1>4, <1>5, <1>6 DEF PlainCall, Hands, InExpr
<1>8. Parse' /\ NoTrace
  BY <1>7, Called DEF Rest
<1>9. QED
  BY <1>8, StepRests

(* How it returns.                                                         *)
PlainReturn(top, v) ==
  /\ cur' \in Nat /\ IsSeq(nodes') /\ Len(nodes) <= Len(nodes')
  /\ v = "false" => top.at = "enter" /\ cur' = cur /\ nodes' = nodes
  /\ top.fn = "specifiers" => cur' = cur /\ nodes' = nodes /\ (v = "false" => Tok \notin Specifiers)
  /\ top.fn = "declarator" /\ v = "true" => Len(nodes') = top.mark[2] \/ Was(cur, {")"})'
  /\ top.fn = "compound" /\ v = "false" => Tok # "{"

(* A rule of statements or declarations that returns keeps it.             *)
LEMMA PlainReturns ==
  ASSUME Parse, stack # << >>, status = "parsing", Known, Rest, NEW top, top = Top,
         ~InExpr(top), top.fn # "external", NEW v \in {"true", "false"}, Return(v), PlainReturn(top, v)
  PROVE  StepOK
<1>1. /\ top \in Frames /\ FrameOK(top) /\ Len(nodes) \in Nat /\ Len(nodes') \in Nat
      /\ top.mark[2] \in Nat /\ top.mark[2] <= Len(nodes)
  BY OfTop, SeqDomain, FrameFields DEF Parse, Types, PlainReturn, FrameOK, Spanned
<1>2. tokens' = tokens /\ ended' = ended
  BY DEF Rest
<1>3. top.mark[2] <= Len(nodes')
  <2>1. Len(nodes) <= Len(nodes')
    BY DEF PlainReturn
  <2>2. QED
    BY <1>1, <2>1
<1>4. v = "false" => top.mark = <<cur', Len(nodes')>>
  BY <1>1 DEF PlainReturn, FrameOK, Entered
<1>5. v = "false" /\ (top.fn = "specifiers" \/ top.fn = "compound") => Known' /\ Tok' = Tok
  BY <1>2 DEF PlainReturn, Known, Tok
<1>6. top.fn = "specifiers" => Len(nodes') = top.mark[2]
  BY <1>1 DEF PlainReturn, FrameOK, Placed
<1>7. Leaves(top, v)
  BY <1>3, <1>4, <1>5, <1>6 DEF PlainReturn, Leaves
<1>8. Parse' /\ NoTrace
  BY <1>2, <1>7, Returned
<1>9. QED
  BY <1>8, StepRests

(* A return statement has a block for its value.                           *)
LEMMA JumpEnterStep ==
  ASSUME Parse, JumpEnter
  PROVE  StepOK
<1>1. PICK top : top = Top
  OBVIOUS
<1>2. At("jump", "enter") /\ Rest
  BY DEF JumpEnter
<1>3. /\ stack # << >> /\ status = "parsing" /\ Known
      /\ top.fn = "jump" /\ top.at = "enter" /\ top \in Frames /\ FrameOK(top)
      /\ Len(nodes) \in Nat /\ IsSeq(nodes) /\ cur \in Nat
  BY <1>1, <1>2, AtPlace
<1>4. ~InExpr(top)
  BY <1>3 DEF InExpr, ExprFns
<1>5. CASE Tok = "return"
  <2>1. PICK value : value = Len(nodes) + 1
    OBVIOUS
  <2>2. PICK jump : jump = Len(nodes) + 2
    OBVIOUS
  <2>3. value \in Nat /\ jump \in Nat /\ Fresh = value /\ Fresh + 1 = jump
    BY <1>3, <2>1, <2>2 DEF Fresh
  <2>4. PICK node : node = Node("RETURN", <<Fresh>>)
    OBVIOUS
  <2>5. PICK made : made = <<jump, value>>
    OBVIOUS
  <2>6. made \in Seq(Nat) /\ Len(made) = 2 /\ made[2] = value
    BY <2>3, <2>5, SeqTwo
  <2>7. PICK me : me = [top EXCEPT !.at = "value", !.made = made]
    OBVIOUS
  <2>8. Push(<<Block, node>>) /\ cur' = cur + 1 /\ Continue(me)
    BY <1>1, <1>5, <2>3, <2>4, <2>5, <2>7 DEF JumpEnter, Consume
  <2>9. me \in Frames /\ me.fn = "jump" /\ me.at = "value" /\ me.expr = top.expr /\ me.made = made /\ me.mark = top.mark
    <3>1. "value" \in Places
      BY DEF Places
    <3>2. Moves(me, top, "value", made)
      BY <1>3, <2>6, <2>7, <3>1, FrameMoved, Zenon
    <3>3. QED
      BY <1>3, <3>2 DEF Moves
  <2>10. IsSeq(nodes') /\ Len(nodes') = Len(nodes) + 2 /\ nodes'[value] = Block
    <3>1. IsSeq(<<Block, node>>) /\ Len(<<Block, node>>) = 2 /\ <<Block, node>>[1] = Block
      BY SeqTwo
    <3>2. Extends(nodes', nodes, <<Block, node>>)
      BY <1>3, <2>8, <3>1, Pushed
    <3>3. QED
      BY <1>3, <2>1, <3>1, <3>2 DEF Extends
  <2>11. value \in DOMAIN nodes'
    BY <1>3, <2>1, <2>10, SeqDomain
  <2>12. Pending(me)' /\ Placed(me)'
    BY <2>6, <2>8, <2>9, <2>10, <2>11 DEF Pending, Placed, Continue
  <2>13. cur' \in Nat /\ Len(nodes) <= Len(nodes')
    BY <1>3, <2>8, <2>10
  <2>14. GoesOn(top, me)
    BY <1>3, <2>9, <2>10, <2>12, <2>13 DEF GoesOn
  <2>15. Parse' /\ NoTrace
    BY <1>1, <1>2, <1>3, <2>8, <2>9, <2>14, Continued DEF Rest
  <2>16. QED
    BY <1>2, <1>3, <2>15, StepRests
<1>6. CASE Tok # "return"
  <2>1. nodes' = nodes /\ cur' = cur /\ Return("false")
    BY <1>6 DEF JumpEnter, Stay
  <2>2. PlainReturn(top, "false")
    BY <1>3, <2>1 DEF PlainReturn
  <2>3. QED
    BY <1>1, <1>2, <1>3, <1>4, <2>1, <2>2, PlainReturns
<1>7. QED
  BY <1>5, <1>6

(* The value is an expression.                                             *)
LEMMA JumpValueStep ==
  ASSUME Parse, JumpValue
  PROVE  StepOK
<1>1. PICK top : top = Top
  OBVIOUS
<1>2. At("jump", "value") /\ nodes' = nodes /\ cur' = cur /\ Rest
  BY DEF JumpValue, Stay
<1>3. /\ stack # << >> /\ status = "parsing"
      /\ top.fn = "jump" /\ top.at = "value" /\ top \in Frames /\ FrameOK(top)
      /\ Len(nodes) \in Nat /\ IsSeq(nodes) /\ cur \in Nat
  BY <1>1, <1>2, AtPlace
<1>4. ~InExpr(top)
  BY <1>3 DEF InExpr, ExprFns
<1>5. top.made[2] \in 1 .. Len(nodes) /\ nodes[top.made[2]] = Block
  BY <1>3, SeqDomain DEF FrameOK, Pending
<1>6. PICK value \in Nat : value = top.made[2]
  BY <1>3, <1>5
<1>7. PICK me : me = [top EXCEPT !.at = "semi"]
  OBVIOUS
<1>8. me \in Frames /\ me.fn = "jump" /\ me.at = "semi" /\ me.expr = top.expr /\ me.made = top.made /\ me.mark = top.mark
  <2>1. "semi" \in Places
    BY DEF Places
  <2>2. Moves(me, top, "semi", top.made)
    BY <1>3, <1>7, <2>1, FrameMoved, Zenon
  <2>3. QED
    BY <1>3, <2>2 DEF Moves
<1>9. PICK c : c = [Expression(value, FALSE) EXCEPT !.mark = <<cur', Len(nodes')>>]
  OBVIOUS
<1>10. /\ c \in Frames /\ c.at = "enter" /\ c.expr = value /\ c.made = << >>
       /\ c.mark = <<cur', Len(nodes')>> /\ InExpr(c)
  <2>1. cur' \in Nat /\ Len(nodes') \in Nat /\ FALSE \in BOOLEAN
    BY <1>2, <1>3
  <2>2. \E fn \in ExprFns : Begins(c, fn, value, <<cur', Len(nodes')>>)
    BY <1>6, <1>9, <2>1, ExprCalled, Zenon
  <2>3. QED
    BY <2>2 DEF Begins, InExpr
<1>11. stack' = Front(stack) \o <<me, c>> /\ ret' = NoRet
  BY <1>1, <1>6, <1>7, <1>9 DEF JumpValue, Call
<1>12. PlainCall(top, me, c)
  <2>1. Sized(me) /\ Placed(me)' /\ ~Alone(me) /\ DeclCalls(me, c)
    BY <1>8 DEF Sized, Placed, Alone, Failing, Passing, DeclCalls
  <2>2. c.fn \notin {"parameter", "external"}
    BY <1>10 DEF InExpr, ExprFns
  <2>3. /\ IsSeq(nodes') /\ Len(nodes) <= Len(nodes') /\ cur' \in Nat
        /\ c.expr \in 1 .. Len(nodes') /\ nodes'[c.expr] = Block
    BY <1>2, <1>3, <1>5, <1>6, <1>10
  <2>4. QED
    BY <1>3, <1>8, <1>10, <2>1, <2>2, <2>3 DEF PlainCall
<1>13. QED
  BY <1>1, <1>2, <1>3, <1>4, <1>8, <1>10, <1>11, <1>12, PlainCalls

(* The statement goes into the body.                                       *)
LEMMA JumpDoneStep ==
  ASSUME Parse, JumpDone
  PROVE  StepOK
<1>1. PICK top : top = Top
  OBVIOUS
<1>2. PICK place \in {"value", "semi"} : At("jump", place)
  BY DEF JumpDone
<1>3. /\ nodes' = WithChild(nodes, top.expr, top.made[1]) /\ cur' = cur + 1 /\ Return("true") /\ Rest
  BY <1>1 DEF JumpDone, Consume
<1>4. /\ stack # << >> /\ status = "parsing" /\ Known /\ top.fn = "jump"
      /\ Len(nodes) \in Nat /\ IsSeq(nodes) /\ cur \in Nat
  BY <1>1, <1>2, AtPlace
<1>5. ~InExpr(top)
  BY <1>4 DEF InExpr, ExprFns
<1>6. SameBut(nodes', nodes, top.expr)
  BY <1>3, <1>4, ChildGiven
<1>7. PlainReturn(top, "true")
  BY <1>3, <1>4, <1>6 DEF PlainReturn, SameBut
<1>8. QED
  BY <1>1, <1>3, <1>4, <1>5, <1>7, PlainReturns

(* A body begins with a brace.                                             *)
LEMMA CompoundEnterStep ==
  ASSUME Parse, CompoundEnter
  PROVE  StepOK
<1>1. PICK top : top = Top
  OBVIOUS
<1>2. At("compound", "enter") /\ nodes' = nodes /\ Rest
  BY DEF CompoundEnter
<1>3. /\ stack # << >> /\ status = "parsing" /\ Known
      /\ top.fn = "compound" /\ top.at = "enter" /\ top \in Frames /\ FrameOK(top)
      /\ Len(nodes) \in Nat /\ IsSeq(nodes) /\ cur \in Nat
  BY <1>1, <1>2, AtPlace
<1>4. ~InExpr(top)
  BY <1>3 DEF InExpr, ExprFns
<1>5. CASE Tok = "{"
  <2>1. PICK me : me = [top EXCEPT !.at = "open"]
    OBVIOUS
  <2>2. cur' = cur + 1 /\ Continue(me)
    BY <1>1, <1>5, <2>1 DEF CompoundEnter, Consume
  <2>3. me \in Frames /\ me.fn = "compound" /\ me.at = "open" /\ me.expr = top.expr /\ me.mark = top.mark
    <3>1. "open" \in Places
      BY DEF Places
    <3>2. Moves(me, top, "open", top.made)
      BY <1>3, <2>1, <3>1, FrameMoved, Zenon
    <3>3. QED
      BY <1>3, <3>2 DEF Moves
  <2>4. Pending(me)' /\ Placed(me)'
    BY <2>3 DEF Pending, Placed
  <2>5. cur' \in Nat /\ IsSeq(nodes') /\ Len(nodes) <= Len(nodes')
    BY <1>2, <1>3, <2>2
  <2>6. GoesOn(top, me)
    BY <1>3, <2>3, <2>4, <2>5 DEF GoesOn
  <2>7. Parse' /\ NoTrace
    BY <1>1, <1>2, <1>3, <2>2, <2>3, <2>6, Continued DEF Rest
  <2>8. QED
    BY <1>2, <1>3, <2>7, StepRests
<1>6. CASE Tok # "{"
  <2>1. cur' = cur /\ Return("false")
    BY <1>6 DEF CompoundEnter, Stay
  <2>2. IsSeq(nodes') /\ Len(nodes) <= Len(nodes') /\ cur' \in Nat
    BY <1>2, <1>3, <2>1
  <2>3. PlainReturn(top, "false")
    BY <1>2, <1>3, <1>6, <2>1, <2>2 DEF PlainReturn
  <2>4. QED
    BY <1>1, <1>2, <1>3, <1>4, <2>1, <2>3, PlainReturns
<1>7. QED
  BY <1>5, <1>6

(* It ends with one.                                                       *)
LEMMA CompoundEndStep ==
  ASSUME Parse, CompoundEmpty \/ CompoundClose
  PROVE  StepOK
<1>1. PICK top : top = Top
  OBVIOUS
<1>2. PICK place \in {"open", "more"} : At("compound", place)
  BY DEF CompoundEmpty, CompoundClose
<1>3. nodes' = nodes /\ cur' = cur + 1 /\ Return("true") /\ Rest
  BY DEF CompoundEmpty, CompoundClose, Consume
<1>4. /\ stack # << >> /\ status = "parsing" /\ Known /\ top.fn = "compound"
      /\ Len(nodes) \in Nat /\ IsSeq(nodes) /\ cur \in Nat
  BY <1>1, <1>2, AtPlace
<1>5. ~InExpr(top)
  BY <1>4 DEF InExpr, ExprFns
<1>6. PlainReturn(top, "true")
  BY <1>3, <1>4 DEF PlainReturn
<1>7. QED
  BY <1>1, <1>3, <1>4, <1>5, <1>6, PlainReturns

(* Its first statement has a block.                                        *)
LEMMA CompoundListStep ==
  ASSUME Parse, CompoundList
  PROVE  StepOK
<1>1. PICK top : top = Top
  OBVIOUS
<1>2. At("compound", "open") /\ nodes' = Opened(top.expr) /\ cur' = cur /\ Rest
  BY <1>1 DEF CompoundList, Stay
<1>3. /\ stack # << >> /\ status = "parsing"
      /\ top.fn = "compound" /\ top.at = "open" /\ top \in Frames
      /\ Len(nodes) \in Nat /\ IsSeq(nodes) /\ cur \in Nat
  BY <1>1, <1>2, AtPlace
<1>4. ~InExpr(top)
  BY <1>3 DEF InExpr, ExprFns
<1>5. IsSeq(nodes') /\ Len(nodes') \in Nat /\ Len(nodes) <= Len(nodes')
  <2>1. CASE nodes' = nodes
    BY <1>3, <2>1
  <2>2. CASE nodes' = Append(nodes, Block)
    BY <1>3, <2>2, SeqAppend
  <2>3. QED
    BY <1>2, <2>1, <2>2 DEF Opened
<1>6. PICK inner \in Nat : inner = PlaceIn(top.expr)
  BY <1>3, FrameFields DEF PlaceIn, Fresh
<1>7. PICK made : made = <<inner>>
  OBVIOUS
<1>8. made \in Seq(Nat) /\ Len(made) = 1
  BY <1>7, SeqOne
<1>9. PICK me : me = [top EXCEPT !.at = "first", !.made = made]
  OBVIOUS
<1>10. me \in Frames /\ me.fn = "compound" /\ me.at = "first" /\ me.expr = top.expr /\ me.made = made /\ me.mark = top.mark
  <2>1. "first" \in Places
    BY DEF Places
  <2>2. Moves(me, top, "first", made)
    BY <1>3, <1>8, <1>9, <2>1, FrameMoved, Zenon
  <2>3. QED
    BY <1>3, <2>2 DEF Moves
<1>11. PICK c : c = [Frame("jump", inner, FALSE, 0) EXCEPT !.mark = <<cur', Len(nodes')>>]
  OBVIOUS
<1>12. /\ c \in Frames /\ c.fn = "jump" /\ c.at = "enter" /\ c.made = << >>
       /\ c.mark = <<cur', Len(nodes')>>
  <2>1. cur' \in Nat /\ Len(nodes') \in Nat /\ FALSE \in BOOLEAN /\ 0 \in Int /\ "jump" \in Fns
    BY <1>2, <1>3, <1>5 DEF Fns
  <2>2. Begins(c, "jump", inner, <<cur', Len(nodes')>>)
    BY <1>6, <1>11, <2>1, FrameCalled, Zenon
  <2>3. QED
    BY <2>2 DEF Begins
<1>13. stack' = Front(stack) \o <<me, c>> /\ ret' = NoRet
  BY <1>1, <1>6, <1>7, <1>9, <1>11 DEF CompoundList, Call
<1>14. PlainCall(top, me, c)
  <2>1. Sized(me) /\ Placed(me)' /\ ~Alone(me) /\ DeclCalls(me, c)
    BY <1>8, <1>10 DEF Sized, Placed, Alone, Failing, Passing, DeclCalls
  <2>2. QED
    BY <1>2, <1>3, <1>5, <1>10, <1>12, <2>1 DEF PlainCall, InExpr, ExprFns
<1>15. QED
  BY <1>1, <1>2, <1>3, <1>4, <1>10, <1>12, <1>13, <1>14, PlainCalls

(* So have those that follow.                                              *)
LEMMA CompoundMoreStep ==
  ASSUME Parse, CompoundMore
  PROVE  StepOK
<1>1. PICK top : top = Top
  OBVIOUS
<1>2. PICK place \in {"first", "more"} : At("compound", place)
  BY DEF CompoundMore
<1>3. nodes' = nodes /\ cur' = cur /\ Rest
  BY DEF CompoundMore, Stay
<1>4. /\ stack # << >> /\ status = "parsing"
      /\ top.fn = "compound" /\ top.at = place /\ top \in Frames /\ FrameOK(top)
      /\ Len(nodes) \in Nat /\ IsSeq(nodes) /\ cur \in Nat
  BY <1>1, <1>2, AtPlace
<1>5. ~InExpr(top)
  BY <1>4 DEF InExpr, ExprFns
<1>6. Len(top.made) = 1
  BY <1>4 DEF FrameOK, Sized
<1>7. PICK inner \in Nat : inner = top.made[1]
  BY <1>4, <1>6, FrameFields
<1>8. PICK me : me = [top EXCEPT !.at = "more"]
  OBVIOUS
<1>9. me \in Frames /\ me.fn = "compound" /\ me.at = "more" /\ me.expr = top.expr /\ me.made = top.made /\ me.mark = top.mark
  <2>1. "more" \in Places
    BY DEF Places
  <2>2. Moves(me, top, "more", top.made)
    BY <1>4, <1>8, <2>1, FrameMoved, Zenon
  <2>3. QED
    BY <1>4, <2>2 DEF Moves
<1>10. PICK c : c = [Frame("jump", inner, FALSE, 0) EXCEPT !.mark = <<cur', Len(nodes')>>]
  OBVIOUS
<1>11. /\ c \in Frames /\ c.fn = "jump" /\ c.at = "enter" /\ c.made = << >>
       /\ c.mark = <<cur', Len(nodes')>>
  <2>1. cur' \in Nat /\ Len(nodes') \in Nat /\ FALSE \in BOOLEAN /\ 0 \in Int /\ "jump" \in Fns
    BY <1>3, <1>4 DEF Fns
  <2>2. Begins(c, "jump", inner, <<cur', Len(nodes')>>)
    BY <1>7, <1>10, <2>1, FrameCalled, Zenon
  <2>3. QED
    BY <2>2 DEF Begins
<1>12. stack' = Front(stack) \o <<me, c>> /\ ret' = NoRet
  BY <1>1, <1>7, <1>8, <1>10 DEF CompoundMore, Call
<1>13. PlainCall(top, me, c)
  <2>1. Sized(me) /\ Placed(me)' /\ ~Alone(me) /\ DeclCalls(me, c)
    BY <1>6, <1>9 DEF Sized, Placed, Alone, Failing, Passing, DeclCalls
  <2>2. QED
    BY <1>3, <1>4, <1>9, <1>11, <2>1 DEF PlainCall, InExpr, ExprFns
<1>14. QED
  BY <1>1, <1>3, <1>4, <1>5, <1>9, <1>11, <1>12, <1>13, PlainCalls

(* The rules of statements.                                                *)
LEMMA StatementStep ==
  ASSUME Parse, Statement
  PROVE  StepOK
<1>1. ASSUME JumpAbort \/ CompoundAbort
      PROVE  StepOK
  BY <1>1, StepGives DEF JumpAbort, CompoundAbort, Abort
<1>2. QED
  BY <1>1, JumpEnterStep, JumpValueStep, JumpDoneStep, CompoundEnterStep, CompoundEndStep,
     CompoundListStep, CompoundMoreStep DEF Statement

-----------------------------------------------------------------------------
(* Declarations                                                            *)

(* A token that was taken is the one behind the parser.                    *)
LEMMA TokenTaken ==
  ASSUME Parse, Rest, cur' = cur + 1, NEW S, Tok \in S, "INVALID" \notin S
  PROVE  Was(cur, S)'
<1>1. cur \in Nat /\ Len(tokens) \in Nat /\ tokens' = tokens
  BY SeqDomain DEF Parse, Types, Rest
<1>2. cur < Len(tokens) /\ tokens[cur + 1] \in S
  BY DEF Tok
<1>3. cur' \in 1 .. Len(tokens) /\ tokens[cur'] \in S
  BY <1>1, <1>2
<1>4. QED
  BY <1>1, <1>3 DEF Was

(* Where the assertion may fail: behind what opens or divides parameters,  *)
(* or behind what closes them.                                             *)
MayAssert ==
  \/ tokens[cur] \in {"(", ","} /\ Tok \notin Specifiers
  \/ tokens[cur] = ")" /\ Tok # "{"

(* There it fails.                                                         *)
LEMMA StepAsserts ==
  ASSUME Parse, Give("asserted"), MayAssert
  PROVE  StepOK
<1>1. status' = "asserted"
  BY DEF Give
<1>2. NoTrace
  <2>1. Len(stack) \in Nat /\ stack' = stack
    BY LenProperties DEF Parse, Types, Give
  <2>2. ~(Len(stack') < Len(stack))
    BY <2>1
  <2>3. QED
    BY <2>2 DEF NoTrace
<1>3. cur' = cur /\ tokens' = tokens
  BY DEF Give
<1>4. AssertsOnlyInDeclarations'
  BY <1>3 DEF MayAssert, AssertsOnlyInDeclarations, Tok
<1>5. QED
  BY <1>1, <1>2, <1>4 DEF StepOK, NoAssignment, Parsed

(* The specifiers are taken one by one.                                    *)
LEMMA SpecifiersTurnStep ==
  ASSUME Parse, SpecifiersTurn
  PROVE  StepOK
<1>1. PICK top : top = Top
  OBVIOUS
<1>2. PICK place \in {"enter", "more"} : At("specifiers", place)
  BY DEF SpecifiersTurn
<1>3. nodes' = nodes /\ Rest
  BY DEF SpecifiersTurn
<1>4. /\ stack # << >> /\ status = "parsing" /\ Known
      /\ top.fn = "specifiers" /\ top.at = place /\ top \in Frames /\ FrameOK(top)
      /\ Len(nodes) \in Nat /\ IsSeq(nodes) /\ cur \in Nat
  BY <1>1, <1>2, AtPlace
<1>5. ~InExpr(top) /\ Len(nodes) = top.mark[2]
  BY <1>4 DEF InExpr, ExprFns, FrameOK, Placed
<1>6. CASE Tok \in Specifiers
  <2>1. PICK me : me = [top EXCEPT !.at = "more"]
    OBVIOUS
  <2>2. cur' = cur + 1 /\ Continue(me)
    BY <1>1, <1>6, <2>1 DEF SpecifiersTurn, Consume
  <2>3. me \in Frames /\ me.fn = "specifiers" /\ me.at = "more" /\ me.expr = top.expr /\ me.mark = top.mark
    <3>1. "more" \in Places
      BY DEF Places
    <3>2. Moves(me, top, "more", top.made)
      BY <1>4, <2>1, <3>1, FrameMoved, Zenon
    <3>3. QED
      BY <1>4, <3>2 DEF Moves
  <2>4. Pending(me)' /\ Placed(me)'
    BY <1>3, <1>5, <2>3 DEF Pending, Placed
  <2>5. cur' \in Nat /\ IsSeq(nodes') /\ Len(nodes) <= Len(nodes')
    BY <1>3, <1>4, <2>2
  <2>6. GoesOn(top, me)
    BY <1>4, <2>3, <2>4, <2>5 DEF GoesOn
  <2>7. Parse' /\ NoTrace
    BY <1>1, <1>3, <1>4, <2>2, <2>3, <2>6, Continued DEF Rest
  <2>8. QED
    BY <1>3, <1>4, <2>7, StepRests
<1>7. CASE Tok \notin Specifiers
  <2>1. PICK v \in {"true", "false"} : v = IF top.at = "more" THEN "true" ELSE "false"
    OBVIOUS
  <2>2. cur' = cur /\ Return(v)
    BY <1>1, <1>7, <2>1 DEF SpecifiersTurn, Stay
  <2>3. IsSeq(nodes') /\ Len(nodes) <= Len(nodes') /\ cur' \in Nat /\ (v = "false" => top.at = "enter")
    BY <1>3, <1>4, <2>1, <2>2
  <2>4. PlainReturn(top, v)
    BY <1>3, <1>4, <1>7, <2>2, <2>3 DEF PlainReturn
  <2>5. QED
    BY <1>1, <1>3, <1>4, <1>5, <2>2, <2>4, PlainReturns
<1>8. QED
  BY <1>6, <1>7

(* A declarator is a name, ...                                             *)
LEMMA DeclaratorNameStep ==
  ASSUME Parse, DeclaratorName
  PROVE  StepOK
<1>1. PICK top : top = Top
  OBVIOUS
<1>2. At("declarator", "enter") /\ cur' = cur + 1 /\ Rest
  BY DEF DeclaratorName, Consume
<1>3. /\ stack # << >> /\ status = "parsing" /\ Known
      /\ top.fn = "declarator" /\ top.at = "enter" /\ top \in Frames /\ FrameOK(top)
      /\ Len(nodes) \in Nat /\ IsSeq(nodes) /\ cur \in Nat
  BY <1>1, <1>2, AtPlace
<1>4. top.mark[2] = Len(nodes)
  BY <1>3 DEF FrameOK, Entered
<1>5. PICK e : nodes' = [nodes EXCEPT ![top.expr] = e]
  BY <1>1 DEF DeclaratorName
<1>6. SameBut(nodes', nodes, top.expr)
  BY <1>3, <1>5, SeqExcept, Zenon
<1>7. IsSeq(nodes') /\ Len(nodes') = Len(nodes)
  BY <1>6 DEF SameBut
<1>8. PICK me : me = [top EXCEPT !.at = "name"]
  OBVIOUS
<1>9. Continue(me)
  BY <1>1, <1>8 DEF DeclaratorName
<1>10. me \in Frames /\ me.fn = "declarator" /\ me.at = "name" /\ me.expr = top.expr /\ me.mark = top.mark
  <2>1. "name" \in Places
    BY DEF Places
  <2>2. Moves(me, top, "name", top.made)
    BY <1>3, <1>8, <2>1, FrameMoved, Zenon
  <2>3. QED
    BY <1>3, <2>2 DEF Moves
<1>11. Pending(me)' /\ Placed(me)'
  BY <1>4, <1>7, <1>10 DEF Pending, Placed
<1>12. cur' \in Nat /\ Len(nodes) <= Len(nodes')
  BY <1>2, <1>3, <1>7
<1>13. GoesOn(top, me)
  BY <1>3, <1>7, <1>10, <1>11, <1>12 DEF GoesOn
<1>14. Parse' /\ NoTrace
  BY <1>1, <1>2, <1>3, <1>9, <1>10, <1>13, Continued DEF Rest
<1>15. QED
  BY <1>2, <1>3, <1>14, StepRests

(* ... which leaves the arena as it was, ...                               *)
LEMMA DeclaratorPlainStep ==
  ASSUME Parse, DeclaratorPlain
  PROVE  StepOK
<1>1. PICK top : top = Top
  OBVIOUS
<1>2. At("declarator", "name") /\ nodes' = nodes /\ cur' = cur /\ Return("true") /\ Rest
  BY DEF DeclaratorPlain, Stay
<1>3. /\ stack # << >> /\ status = "parsing" /\ Known
      /\ top.fn = "declarator" /\ top.at = "name" /\ top \in Frames /\ FrameOK(top)
      /\ Len(nodes) \in Nat /\ IsSeq(nodes) /\ cur \in Nat
  BY <1>1, <1>2, AtPlace
<1>4. ~InExpr(top) /\ Len(nodes) = top.mark[2]
  BY <1>3 DEF InExpr, ExprFns, FrameOK, Placed
<1>5. IsSeq(nodes') /\ Len(nodes) <= Len(nodes') /\ cur' \in Nat /\ Len(nodes') = top.mark[2]
  BY <1>2, <1>3, <1>4
<1>6. PlainReturn(top, "true")
  BY <1>3, <1>5 DEF PlainReturn
<1>7. QED
  BY <1>1, <1>2, <1>3, <1>4, <1>6, PlainReturns

(* ... or a name with parameters, ...                                      *)
LEMMA DeclaratorParamsStep ==
  ASSUME Parse, DeclaratorParams
  PROVE  StepOK
<1>1. PICK top : top = Top
  OBVIOUS
<1>2. At("declarator", "name") /\ Tok = "(" /\ cur' = cur + 1 /\ Rest
  BY DEF DeclaratorParams, Consume
<1>3. /\ stack # << >> /\ status = "parsing" /\ Known
      /\ top.fn = "declarator" /\ top.at = "name" /\ top \in Frames
      /\ Len(nodes) \in Nat /\ IsSeq(nodes) /\ cur \in Nat
  BY <1>1, <1>2, AtPlace
<1>4. ~InExpr(top)
  BY <1>3 DEF InExpr, ExprFns
<1>5. PICK type, e, reset, old : reset = [nodes EXCEPT ![type] = e] /\ nodes' = Append(reset, old)
  BY DEF DeclaratorParams
<1>6. SameBut(reset, nodes, type)
  BY <1>3, <1>5, SeqExcept, Zenon
<1>7. IsSeq(reset) /\ Len(reset) = Len(nodes)
  BY <1>6 DEF SameBut
<1>8. IsSeq(nodes') /\ Len(nodes') = Len(nodes) + 1
  BY <1>5, <1>7, SeqAppend
<1>9. PICK expr \in Nat : expr = top.expr
  BY <1>3, FrameFields
<1>10. PICK me : me = [top EXCEPT !.at = "params"]
  OBVIOUS
<1>11. me \in Frames /\ me.fn = "declarator" /\ me.at = "params" /\ me.expr = top.expr /\ me.mark = top.mark
  <2>1. "params" \in Places
    BY DEF Places
  <2>2. Moves(me, top, "params", top.made)
    BY <1>3, <1>10, <2>1, FrameMoved, Zenon
  <2>3. QED
    BY <1>3, <2>2 DEF Moves
<1>12. PICK c : c = [Frame("parameter", expr, FALSE, 0) EXCEPT !.mark = <<cur', Len(nodes')>>]
  OBVIOUS
<1>13. cur' \in Nat /\ Len(nodes') \in Nat /\ Len(nodes) <= Len(nodes')
  BY <1>2, <1>3, <1>8
<1>14. /\ c \in Frames /\ c.fn = "parameter" /\ c.at = "enter" /\ c.made = << >>
       /\ c.mark = <<cur', Len(nodes')>>
  <2>1. FALSE \in BOOLEAN /\ 0 \in Int /\ "parameter" \in Fns
    BY DEF Fns
  <2>2. Begins(c, "parameter", expr, <<cur', Len(nodes')>>)
    BY <1>9, <1>12, <1>13, <2>1, FrameCalled, Zenon
  <2>3. QED
    BY <2>2 DEF Begins
<1>15. stack' = Front(stack) \o <<me, c>> /\ ret' = NoRet
  BY <1>1, <1>9, <1>10, <1>12 DEF DeclaratorParams, Call
<1>16. PlainCall(top, me, c)
  <2>1. Was(cur, {"(", ","})'
    BY <1>2, TokenTaken
  <2>2. Sized(me) /\ Placed(me)' /\ ~Alone(me) /\ DeclCalls(me, c)
    BY <1>11 DEF Sized, Placed, Alone, Failing, Passing, DeclCalls
  <2>3. ~InExpr(c) /\ c.fn # "external"
    BY <1>14 DEF InExpr, ExprFns
  <2>4. QED
    BY <1>3, <1>8, <1>11, <1>13, <1>14, <2>1, <2>2, <2>3 DEF PlainCall
<1>17. QED
  BY <1>1, <1>2, <1>3, <1>4, <1>11, <1>14, <1>15, <1>16, PlainCalls

(* ... one after the other, ...                                            *)
LEMMA DeclaratorNextStep ==
  ASSUME Parse, DeclaratorNext
  PROVE  StepOK
<1>1. PICK top : top = Top
  OBVIOUS
<1>2. At("declarator", "params") /\ nodes' = nodes /\ cur' = cur + 1 /\ Rest
  BY DEF DeclaratorNext, Consume
<1>3. /\ stack # << >> /\ status = "parsing" /\ Known
      /\ top.fn = "declarator" /\ top.at = "params" /\ top \in Frames
      /\ Len(nodes) \in Nat /\ IsSeq(nodes) /\ cur \in Nat
  BY <1>1, <1>2, AtPlace
<1>4. ~InExpr(top)
  BY <1>3 DEF InExpr, ExprFns
<1>5. PICK expr \in Nat : expr = top.expr
  BY <1>3, FrameFields
<1>6. PICK c : c = [Frame("parameter", expr, FALSE, 0) EXCEPT !.mark = <<cur', Len(nodes')>>]
  OBVIOUS
<1>7. cur' \in Nat /\ Len(nodes') \in Nat /\ Len(nodes) <= Len(nodes') /\ IsSeq(nodes')
  BY <1>2, <1>3
<1>8. /\ c \in Frames /\ c.fn = "parameter" /\ c.at = "enter" /\ c.made = << >>
      /\ c.mark = <<cur', Len(nodes')>>
  <2>1. FALSE \in BOOLEAN /\ 0 \in Int /\ "parameter" \in Fns
    BY DEF Fns
  <2>2. Begins(c, "parameter", expr, <<cur', Len(nodes')>>)
    BY <1>5, <1>6, <1>7, <2>1, FrameCalled, Zenon
  <2>3. QED
    BY <2>2 DEF Begins
<1>9. stack' = Front(stack) \o <<top, c>> /\ ret' = NoRet
  BY <1>1, <1>5, <1>6 DEF DeclaratorNext, Call
<1>10. PlainCall(top, top, c)
  <2>1. Tok \in {"(", ","}
    BY DEF DeclaratorNext
  <2>2. Was(cur, {"(", ","})'
    BY <1>2, <2>1, TokenTaken
  <2>3. Sized(top) /\ Placed(top)' /\ ~Alone(top) /\ DeclCalls(top, c)
    BY <1>3 DEF Sized, Placed, Alone, Failing, Passing, DeclCalls
  <2>4. ~InExpr(c) /\ c.fn # "external"
    BY <1>8 DEF InExpr, ExprFns
  <2>5. QED
    BY <1>3, <1>7, <1>8, <2>2, <2>3, <2>4 DEF PlainCall
<1>11. QED
  BY <1>1, <1>2, <1>3, <1>4, <1>8, <1>9, <1>10, PlainCalls

(* ... or a declarator in parentheses.                                     *)
LEMMA DeclaratorParenStep ==
  ASSUME Parse, DeclaratorParen
  PROVE  StepOK
<1>1. PICK top : top = Top
  OBVIOUS
<1>2. At("declarator", "enter") /\ nodes' = nodes /\ cur' = cur + 1 /\ Rest
  BY DEF DeclaratorParen, Consume
<1>3. /\ stack # << >> /\ status = "parsing" /\ Known
      /\ top.fn = "declarator" /\ top.at = "enter" /\ top \in Frames
      /\ Len(nodes) \in Nat /\ IsSeq(nodes) /\ cur \in Nat
  BY <1>1, <1>2, AtPlace
<1>4. ~InExpr(top)
  BY <1>3 DEF InExpr, ExprFns
<1>5. PICK expr \in Nat : expr = top.expr
  BY <1>3, FrameFields
<1>6. PICK me : me = [top EXCEPT !.at = "paren"]
  OBVIOUS
<1>7. me \in Frames /\ me.fn = "declarator" /\ me.at = "paren" /\ me.expr = top.expr /\ me.mark = top.mark
  <2>1. "paren" \in Places
    BY DEF Places
  <2>2. Moves(me, top, "paren", top.made)
    BY <1>3, <1>6, <2>1, FrameMoved, Zenon
  <2>3. QED
    BY <1>3, <2>2 DEF Moves
<1>8. PICK c : c = [Frame("declarator", expr, FALSE, 0) EXCEPT !.mark = <<cur', Len(nodes')>>]
  OBVIOUS
<1>9. cur' \in Nat /\ Len(nodes') \in Nat /\ Len(nodes) <= Len(nodes') /\ IsSeq(nodes')
  BY <1>2, <1>3
<1>10. /\ c \in Frames /\ c.fn = "declarator" /\ c.at = "enter" /\ c.made = << >>
       /\ c.mark = <<cur', Len(nodes')>>
  <2>1. FALSE \in BOOLEAN /\ 0 \in Int /\ "declarator" \in Fns
    BY DEF Fns
  <2>2. Begins(c, "declarator", expr, <<cur', Len(nodes')>>)
    BY <1>5, <1>8, <1>9, <2>1, FrameCalled, Zenon
  <2>3. QED
    BY <2>2 DEF Begins
<1>11. stack' = Front(stack) \o <<me, c>> /\ ret' = NoRet
  BY <1>1, <1>5, <1>6, <1>8 DEF DeclaratorParen, Call
<1>12. PlainCall(top, me, c)
  <2>1. Sized(me) /\ Placed(me)' /\ ~Alone(me) /\ DeclCalls(me, c)
    BY <1>7 DEF Sized, Placed, Alone, Failing, Passing, DeclCalls
  <2>2. ~InExpr(c) /\ c.fn \notin {"external", "parameter"}
    BY <1>10 DEF InExpr, ExprFns
  <2>3. QED
    BY <1>3, <1>7, <1>9, <1>10, <2>1, <2>2 DEF PlainCall
<1>13. QED
  BY <1>1, <1>2, <1>3, <1>4, <1>7, <1>10, <1>11, <1>12, PlainCalls

(* A parenthesis ends both.                                                *)
LEMMA DeclaratorCloseStep ==
  ASSUME Parse, DeclaratorClose
  PROVE  StepOK
<1>1. PICK top : top = Top
  OBVIOUS
<1>2. PICK place \in {"params", "paren"} : At("declarator", place)
  BY DEF DeclaratorClose
<1>3. Tok = ")" /\ nodes' = nodes /\ cur' = cur + 1 /\ Return("true") /\ Rest
  BY DEF DeclaratorClose, Consume
<1>4. /\ stack # << >> /\ status = "parsing" /\ Known /\ top.fn = "declarator"
      /\ Len(nodes) \in Nat /\ IsSeq(nodes) /\ cur \in Nat
  BY <1>1, <1>2, AtPlace
<1>5. ~InExpr(top)
  BY <1>4 DEF InExpr, ExprFns
<1>6. Was(cur, {")"})'
  BY <1>3, TokenTaken
<1>7. IsSeq(nodes') /\ Len(nodes) <= Len(nodes') /\ cur' \in Nat
  BY <1>3, <1>4
<1>8. PlainReturn(top, "true")
  BY <1>4, <1>6, <1>7 DEF PlainReturn
<1>9. QED
  BY <1>1, <1>3, <1>4, <1>5, <1>8, PlainReturns

(* Neither is no declarator.                                               *)
LEMMA DeclaratorNoneStep ==
  ASSUME Parse, DeclaratorNone
  PROVE  StepOK
<1>1. PICK top : top = Top
  OBVIOUS
<1>2. At("declarator", "enter") /\ nodes' = nodes /\ cur' = cur /\ Return("false") /\ Rest
  BY DEF DeclaratorNone, Stay
<1>3. /\ stack # << >> /\ status = "parsing" /\ Known
      /\ top.fn = "declarator" /\ top.at = "enter"
      /\ Len(nodes) \in Nat /\ IsSeq(nodes) /\ cur \in Nat
  BY <1>1, <1>2, AtPlace
<1>4. ~InExpr(top)
  BY <1>3 DEF InExpr, ExprFns
<1>5. IsSeq(nodes') /\ Len(nodes) <= Len(nodes') /\ cur' \in Nat
  BY <1>2, <1>3
<1>6. PlainReturn(top, "false")
  BY <1>2, <1>3, <1>5 DEF PlainReturn
<1>7. QED
  BY <1>1, <1>2, <1>3, <1>4, <1>6, PlainReturns

(* A parameter has a type and a variable, in this order.                   *)
LEMMA ParameterEnterStep ==
  ASSUME Parse, ParameterEnter
  PROVE  StepOK
<1>1. PICK top : top = Top
  OBVIOUS
<1>2. At("parameter", "enter") /\ cur' = cur /\ Rest
  BY DEF ParameterEnter, Stay
<1>3. /\ stack # << >> /\ status = "parsing" /\ Known
      /\ top.fn = "parameter" /\ top.at = "enter" /\ top \in Frames /\ FrameOK(top)
      /\ Len(nodes) \in Nat /\ IsSeq(nodes) /\ cur \in Nat
  BY <1>1, <1>2, AtPlace
<1>4. ~InExpr(top) /\ top.mark[1] = cur
  BY <1>3 DEF InExpr, ExprFns, FrameOK, Entered
<1>5. PICK new \in Nat : new = Fresh
  BY <1>3 DEF Fresh
<1>6. PICK a, b : a = Node("NEW_TYPE", << >>) /\ b = Node("NEW_VAR", <<Fresh, NIL>>)
  OBVIOUS
<1>7. Push(<<a, b>>)
  BY <1>6 DEF ParameterEnter
<1>8. IsSeq(nodes') /\ Len(nodes') = Len(nodes) + 2
  <2>1. IsSeq(<<a, b>>) /\ Len(<<a, b>>) = 2
    BY SeqTwo
  <2>2. Extends(nodes', nodes, <<a, b>>)
    BY <1>3, <1>7, <2>1, Pushed
  <2>3. QED
    BY <2>1, <2>2 DEF Extends
<1>9. PICK made : made = <<new, new + 1>>
  OBVIOUS
<1>10. made \in Seq(Nat) /\ Len(made) = 2 /\ made[2] = made[1] + 1
  BY <1>5, <1>9, SeqTwo
<1>11. PICK me : me = [top EXCEPT !.at = "specs", !.made = made]
  OBVIOUS
<1>12. me \in Frames /\ me.fn = "parameter" /\ me.at = "specs" /\ me.expr = top.expr /\ me.made = made /\ me.mark = top.mark
  <2>1. "specs" \in Places
    BY DEF Places
  <2>2. Moves(me, top, "specs", made)
    BY <1>3, <1>10, <1>11, <2>1, FrameMoved, Zenon
  <2>3. QED
    BY <1>3, <2>2 DEF Moves
<1>13. PICK c : c = [Frame("specifiers", new + 1, FALSE, 0) EXCEPT !.mark = <<cur', Len(nodes')>>]
  OBVIOUS
<1>14. cur' \in Nat /\ Len(nodes') \in Nat /\ Len(nodes) <= Len(nodes')
  BY <1>2, <1>3, <1>8
<1>15. /\ c \in Frames /\ c.fn = "specifiers" /\ c.at = "enter" /\ c.made = << >>
       /\ c.mark = <<cur', Len(nodes')>>
  <2>1. FALSE \in BOOLEAN /\ 0 \in Int /\ "specifiers" \in Fns /\ new + 1 \in Nat
    BY <1>5 DEF Fns
  <2>2. Begins(c, "specifiers", new + 1, <<cur', Len(nodes')>>)
    BY <1>13, <1>14, <2>1, FrameCalled, Zenon
  <2>3. QED
    BY <2>2 DEF Begins
<1>16. stack' = Front(stack) \o <<me, c>> /\ ret' = NoRet
  BY <1>1, <1>5, <1>9, <1>11, <1>13 DEF ParameterEnter, Call
<1>17. PlainCall(top, me, c)
  <2>1. Placed(me)'
    <3>1. Was(top.mark[1], {"(", ","})
      BY <1>3 DEF FrameOK, Placed
    <3>2. QED
      BY <1>2, <1>10, <1>12, <3>1 DEF Placed, Was, Rest
  <2>2. Sized(me) /\ ~Alone(me)
    BY <1>12 DEF Sized, Alone, Failing, Passing
  <2>3. c.mark[1] = me.mark[1]
    BY <1>2, <1>4, <1>12, <1>15
  <2>4. DeclCalls(me, c) /\ ~InExpr(c)
    BY <1>12, <1>15, <2>3 DEF DeclCalls, InExpr, ExprFns
  <2>5. QED
    BY <1>3, <1>8, <1>12, <1>14, <1>15, <2>1, <2>2, <2>4 DEF PlainCall
<1>18. QED
  BY <1>1, <1>2, <1>3, <1>4, <1>12, <1>15, <1>16, <1>17, PlainCalls

(* Behind the specifiers it has a declarator.                              *)
LEMMA ParameterDeclaratorStep ==
  ASSUME Parse, ParameterDeclarator
  PROVE  StepOK
<1>1. PICK top : top = Top
  OBVIOUS
<1>2. At("parameter", "specs") /\ nodes' = nodes /\ cur' = cur /\ Rest
  BY DEF ParameterDeclarator, Stay
<1>3. /\ stack # << >> /\ status = "parsing" /\ Known
      /\ top.fn = "parameter" /\ top.at = "specs" /\ top \in Frames /\ FrameOK(top)
      /\ Len(nodes) \in Nat /\ IsSeq(nodes) /\ cur \in Nat
  BY <1>1, <1>2, AtPlace
<1>4. ~InExpr(top) /\ Len(top.made) = 2
  BY <1>3 DEF InExpr, ExprFns, FrameOK, Placed
<1>5. PICK var \in Nat : var = top.made[2]
  BY <1>3, <1>4, FrameFields
<1>6. PICK me : me = [top EXCEPT !.at = "decl"]
  OBVIOUS
<1>7. me \in Frames /\ me.fn = "parameter" /\ me.at = "decl" /\ me.expr = top.expr /\ me.mark = top.mark
  <2>1. "decl" \in Places
    BY DEF Places
  <2>2. Moves(me, top, "decl", top.made)
    BY <1>3, <1>6, <2>1, FrameMoved, Zenon
  <2>3. QED
    BY <1>3, <2>2 DEF Moves
<1>8. PICK c : c = [Frame("declarator", var, FALSE, 0) EXCEPT !.mark = <<cur', Len(nodes')>>]
  OBVIOUS
<1>9. cur' \in Nat /\ Len(nodes') \in Nat /\ Len(nodes) <= Len(nodes') /\ IsSeq(nodes')
  BY <1>2, <1>3
<1>10. /\ c \in Frames /\ c.fn = "declarator" /\ c.at = "enter" /\ c.made = << >>
       /\ c.mark = <<cur', Len(nodes')>>
  <2>1. FALSE \in BOOLEAN /\ 0 \in Int /\ "declarator" \in Fns
    BY DEF Fns
  <2>2. Begins(c, "declarator", var, <<cur', Len(nodes')>>)
    BY <1>5, <1>8, <1>9, <2>1, FrameCalled, Zenon
  <2>3. QED
    BY <2>2 DEF Begins
<1>11. stack' = Front(stack) \o <<me, c>> /\ ret' = NoRet
  BY <1>1, <1>5, <1>6, <1>8 DEF ParameterDeclarator, Call
<1>12. PlainCall(top, me, c)
  <2>1. Placed(me)'
    <3>1. Was(top.mark[1], {"(", ","})
      BY <1>3 DEF FrameOK, Placed
    <3>2. QED
      BY <1>2, <1>7, <3>1 DEF Placed, Was, Rest
  <2>2. Sized(me) /\ ~Alone(me) /\ DeclCalls(me, c)
    BY <1>7 DEF Sized, Alone, Failing, Passing, DeclCalls
  <2>3. ~InExpr(c) /\ c.fn \notin {"external", "parameter"}
    BY <1>10 DEF InExpr, ExprFns
  <2>4. QED
    BY <1>3, <1>7, <1>9, <1>10, <2>1, <2>2, <2>3 DEF PlainCall
<1>13. QED
  BY <1>1, <1>2, <1>3, <1>4, <1>7, <1>10, <1>11, <1>12, PlainCalls

(* Without them what it made is popped, and the order is wrong.            *)
LEMMA ParameterFailStep ==
  ASSUME Parse, ParameterFail
  PROVE  StepOK
<1>1. PICK top : top = Top
  OBVIOUS
<1>2. At("parameter", "specs") /\ ret = "false" /\ Undo(top.made)
  BY <1>1 DEF ParameterFail
<1>3. /\ top.fn = "parameter" /\ top.at = "specs" /\ top \in Frames /\ FrameOK(top) /\ DeclTold(top)
      /\ Len(nodes) \in Nat
  BY <1>1, <1>2, AtPlace
<1>4. Len(top.made) = 2 /\ top.made[2] = top.made[1] + 1
  BY <1>3 DEF FrameOK, Placed
<1>5. DOMAIN top.made = 1 .. 2
  BY <1>3, <1>4, FrameFields
<1>6. ~PopsInOrder(top.made)
  <2>1. SUFFICES ASSUME PopsInOrder(top.made)
                 PROVE  FALSE
    OBVIOUS
  <2>2. top.made[1] = Len(nodes) + 1 - 1 /\ top.made[2] = Len(nodes) + 1 - 2
    BY <1>5, <2>1 DEF PopsInOrder
  <2>3. QED
    BY <1>3, <1>4, <2>2
<1>7. Give("asserted")
  BY <1>2, <1>6 DEF Undo
<1>8. cur = top.mark[1] /\ Tok \notin Specifiers
  BY <1>2, <1>3 DEF DeclTold
<1>9. Was(top.mark[1], {"(", ","})
  BY <1>3 DEF FrameOK, Placed
<1>10. MayAssert
  BY <1>8, <1>9 DEF MayAssert, Was
<1>11. QED
  BY <1>7, <1>10, StepAsserts

(* The function's type takes it.                                           *)
LEMMA ParameterDoneStep ==
  ASSUME Parse, ParameterDone
  PROVE  StepOK
<1>1. PICK top : top = Top
  OBVIOUS
<1>2. At("parameter", "decl")
  BY DEF ParameterDone
<1>3. /\ stack # << >> /\ status = "parsing" /\ Known /\ top.fn = "parameter"
      /\ Len(nodes) \in Nat /\ IsSeq(nodes) /\ cur \in Nat
  BY <1>1, <1>2, AtPlace
<1>4. CASE ret = "true"
  <2>1. PICK type, var : nodes' = WithChild(nodes, type, var)
    BY <1>4 DEF ParameterDone
  <2>2. cur' = cur /\ Return("true") /\ Rest
    BY <1>4 DEF ParameterDone, Stay
  <2>3. SameBut(nodes', nodes, type)
    BY <1>3, <2>1, ChildGiven
  <2>4. ~InExpr(top)
    BY <1>3 DEF InExpr, ExprFns
  <2>5. PlainReturn(top, "true")
    BY <1>3, <2>2, <2>3 DEF PlainReturn, SameBut
  <2>6. QED
    BY <1>1, <1>3, <2>2, <2>4, <2>5, PlainReturns
<1>5. CASE ret # "true"
  BY <1>5, StepGives DEF ParameterDone, Abort
<1>6. QED
  BY <1>4, <1>5

(* The rules of declarations.                                              *)
LEMMA DeclarationStep ==
  ASSUME Parse, Declaration
  PROVE  StepOK
<1>1. ASSUME DeclaratorAbort
      PROVE  StepOK
  BY <1>1, StepGives DEF DeclaratorAbort, Abort
<1>2. QED
  BY <1>1, SpecifiersTurnStep, DeclaratorNameStep, DeclaratorPlainStep, DeclaratorParamsStep,
     DeclaratorNextStep, DeclaratorParenStep, DeclaratorCloseStep, DeclaratorNoneStep,
     ParameterEnterStep, ParameterDeclaratorStep, ParameterFailStep, ParameterDoneStep
     DEF Declaration

-----------------------------------------------------------------------------
(* External declarations                                                   *)

(* An external declaration has a type, a body and a variable.              *)
LEMMA ExternalEnterStep ==
  ASSUME Parse, ExternalEnter
  PROVE  StepOK
<1>1. PICK top : top = Top
  OBVIOUS
<1>2. At("external", "enter") /\ cur' = cur /\ Rest
  BY DEF ExternalEnter, Stay
<1>3. /\ stack # << >> /\ status = "parsing" /\ Known
      /\ top.fn = "external" /\ top.at = "enter" /\ top \in Frames
      /\ Len(nodes) \in Nat /\ IsSeq(nodes) /\ cur \in Nat
  BY <1>1, <1>2, AtPlace
<1>4. ~InExpr(top)
  BY <1>3 DEF InExpr, ExprFns
<1>5. PICK new \in Nat : new = Fresh /\ new = Len(nodes) + 1
  BY <1>3 DEF Fresh
<1>6. PICK a, b, d : a = Node("NEW_TYPE", << >>) /\ b = Block /\ d = Node("NEW_VAR", <<Fresh, Fresh + 1>>)
  OBVIOUS
<1>7. Push(<<a, b, d>>)
  BY <1>6 DEF ExternalEnter
<1>8. IsSeq(nodes') /\ Len(nodes') = Len(nodes) + 3
  <2>1. IsSeq(<<a, b, d>>) /\ Len(<<a, b, d>>) = 3
    BY SeqThree
  <2>2. Extends(nodes', nodes, <<a, b, d>>)
    BY <1>3, <1>7, <2>1, Pushed
  <2>3. QED
    BY <2>1, <2>2 DEF Extends
<1>9. PICK made : made = <<new + 2, new + 1, new>>
  OBVIOUS
<1>10. made \in Seq(Nat) /\ Len(made) = 3 /\ made[1] = new + 2 /\ made[2] = new + 1 /\ made[3] = new
  BY <1>5, <1>9, SeqThree
<1>11. PICK me : me = [top EXCEPT !.at = "specs", !.made = made]
  OBVIOUS
<1>12. me \in Frames /\ me.fn = "external" /\ me.at = "specs" /\ me.expr = top.expr /\ me.made = made /\ me.mark = top.mark
  <2>1. "specs" \in Places
    BY DEF Places
  <2>2. Moves(me, top, "specs", made)
    BY <1>3, <1>10, <1>11, <2>1, FrameMoved, Zenon
  <2>3. QED
    BY <1>3, <2>2 DEF Moves
<1>13. PICK c : c = [Frame("specifiers", new + 2, FALSE, 0) EXCEPT !.mark = <<cur', Len(nodes')>>]
  OBVIOUS
<1>14. cur' \in Nat /\ Len(nodes') \in Nat /\ Len(nodes) <= Len(nodes') /\ Len(nodes') = new + 2
  BY <1>2, <1>3, <1>5, <1>8
<1>15. /\ c \in Frames /\ c.fn = "specifiers" /\ c.at = "enter" /\ c.made = << >>
       /\ c.mark = <<cur', Len(nodes')>>
  <2>1. FALSE \in BOOLEAN /\ 0 \in Int /\ "specifiers" \in Fns /\ new + 2 \in Nat
    BY <1>5 DEF Fns
  <2>2. Begins(c, "specifiers", new + 2, <<cur', Len(nodes')>>)
    BY <1>13, <1>14, <2>1, FrameCalled, Zenon
  <2>3. QED
    BY <2>2 DEF Begins
<1>16. stack' = Front(stack) \o <<me, c>> /\ ret' = NoRet
  BY <1>1, <1>5, <1>9, <1>11, <1>13 DEF ExternalEnter, Call
<1>17. PlainCall(top, me, c)
  <2>1. \A i \in 1 .. 3 : made[i] = made[1] + 1 - i
    BY <1>5, <1>10
  <2>2. Placed(me)'
    BY <1>10, <1>12, <2>1 DEF Placed
  <2>3. Sized(me) /\ ~Alone(me)
    BY <1>12 DEF Sized, Alone, Failing, Passing
  <2>4. c.mark[2] = me.made[1]
    BY <1>10, <1>12, <1>14, <1>15
  <2>5. DeclCalls(me, c) /\ ~InExpr(c)
    BY <1>12, <1>15, <2>4 DEF DeclCalls, InExpr, ExprFns
  <2>6. QED
    BY <1>3, <1>8, <1>12, <1>14, <1>15, <2>2, <2>3, <2>5 DEF PlainCall
<1>18. QED
  BY <1>1, <1>2, <1>3, <1>4, <1>12, <1>15, <1>16, <1>17, PlainCalls

(* It goes on with a declarator ...                                        *)
LEMMA ExternalDeclaratorStep ==
  ASSUME Parse, ExternalDeclarator
  PROVE  StepOK
<1>1. PICK top : top = Top
  OBVIOUS
<1>2. At("external", "specs") /\ nodes' = nodes /\ cur' = cur /\ Rest
  BY DEF ExternalDeclarator, Stay
<1>3. /\ stack # << >> /\ status = "parsing" /\ Known
      /\ top.fn = "external" /\ top.at = "specs" /\ top \in Frames /\ FrameOK(top) /\ DeclTold(top)
      /\ Len(nodes) \in Nat /\ IsSeq(nodes) /\ cur \in Nat
  BY <1>1, <1>2, AtPlace
<1>4. /\ ~InExpr(top) /\ Len(top.made) = 3
      /\ \A d \in 1 .. 3 : top.made[d] = top.made[1] + 1 - d
  BY <1>3 DEF InExpr, ExprFns, FrameOK, Placed
<1>5. PICK decl \in Nat : decl = top.made[1]
  BY <1>3, <1>4, FrameFields
<1>6. Len(nodes) = decl
  BY <1>3, <1>5 DEF DeclTold
<1>7. PICK me : me = [top EXCEPT !.at = "decl"]
  OBVIOUS
<1>8. me \in Frames /\ me.fn = "external" /\ me.at = "decl" /\ me.expr = top.expr /\ me.made = top.made /\ me.mark = top.mark
  <2>1. "decl" \in Places
    BY DEF Places
  <2>2. Moves(me, top, "decl", top.made)
    BY <1>3, <1>7, <2>1, FrameMoved, Zenon
  <2>3. QED
    BY <1>3, <2>2 DEF Moves
<1>9. PICK c : c = [Frame("declarator", decl, FALSE, 0) EXCEPT !.mark = <<cur', Len(nodes')>>]
  OBVIOUS
<1>10. cur' \in Nat /\ Len(nodes') \in Nat /\ Len(nodes) <= Len(nodes') /\ IsSeq(nodes')
  BY <1>2, <1>3
<1>11. /\ c \in Frames /\ c.fn = "declarator" /\ c.at = "enter" /\ c.made = << >>
       /\ c.mark = <<cur', Len(nodes')>>
  <2>1. FALSE \in BOOLEAN /\ 0 \in Int /\ "declarator" \in Fns
    BY DEF Fns
  <2>2. Begins(c, "declarator", decl, <<cur', Len(nodes')>>)
    BY <1>5, <1>9, <1>10, <2>1, FrameCalled, Zenon
  <2>3. QED
    BY <2>2 DEF Begins
<1>12. stack' = Front(stack) \o <<me, c>> /\ ret' = NoRet
  BY <1>1, <1>5, <1>7, <1>9 DEF ExternalDeclarator, Call
<1>13. PlainCall(top, me, c)
  <2>1. Placed(me)'
    BY <1>4, <1>8 DEF Placed
  <2>2. Sized(me) /\ ~Alone(me)
    BY <1>8 DEF Sized, Alone, Failing, Passing
  <2>3. c.mark[2] = me.made[1]
    BY <1>2, <1>5, <1>6, <1>8, <1>11
  <2>4. DeclCalls(me, c) /\ ~InExpr(c)
    BY <1>8, <1>11, <2>3 DEF DeclCalls, InExpr, ExprFns
  <2>5. c.fn \notin {"parameter", "external"}
    BY <1>11
  <2>6. QED
    BY <1>3, <1>8, <1>10, <1>11, <2>1, <2>2, <2>4, <2>5 DEF PlainCall
<1>14. QED
  BY <1>1, <1>2, <1>3, <1>4, <1>8, <1>11, <1>12, <1>13, PlainCalls

(* ... and a body, which follows the parenthesis of the parameters if      *)
(* these left anything.                                                    *)
LEMMA ExternalBodyStep ==
  ASSUME Parse, ExternalBody
  PROVE  StepOK
<1>1. PICK top : top = Top
  OBVIOUS
<1>2. At("external", "decl") /\ ret = "true" /\ nodes' = nodes /\ cur' = cur /\ Rest
  BY DEF ExternalBody, Stay
<1>3. /\ stack # << >> /\ status = "parsing" /\ Known
      /\ top.fn = "external" /\ top.at = "decl" /\ top \in Frames /\ FrameOK(top) /\ DeclTold(top)
      /\ Len(nodes) \in Nat /\ IsSeq(nodes) /\ cur \in Nat
  BY <1>1, <1>2, AtPlace
<1>4. /\ ~InExpr(top) /\ Len(top.made) = 3
      /\ \A d \in 1 .. 3 : top.made[d] = top.made[1] + 1 - d
  BY <1>3 DEF InExpr, ExprFns, FrameOK, Placed
<1>5. PICK body \in Nat : body = top.made[2]
  BY <1>3, <1>4, FrameFields
<1>6. Len(nodes) = top.made[1] \/ Was(cur, {")"})
  BY <1>2, <1>3 DEF DeclTold
<1>7. PICK me : me = [top EXCEPT !.at = "body"]
  OBVIOUS
<1>8. me \in Frames /\ me.fn = "external" /\ me.at = "body" /\ me.expr = top.expr /\ me.made = top.made /\ me.mark = top.mark
  <2>1. "body" \in Places
    BY DEF Places
  <2>2. Moves(me, top, "body", top.made)
    BY <1>3, <1>7, <2>1, FrameMoved, Zenon
  <2>3. QED
    BY <1>3, <2>2 DEF Moves
<1>9. PICK c : c = [Frame("compound", body, FALSE, 0) EXCEPT !.mark = <<cur', Len(nodes')>>]
  OBVIOUS
<1>10. cur' \in Nat /\ Len(nodes') \in Nat /\ Len(nodes) <= Len(nodes') /\ IsSeq(nodes')
  BY <1>2, <1>3
<1>11. /\ c \in Frames /\ c.fn = "compound" /\ c.at = "enter" /\ c.made = << >>
       /\ c.mark = <<cur', Len(nodes')>>
  <2>1. FALSE \in BOOLEAN /\ 0 \in Int /\ "compound" \in Fns
    BY DEF Fns
  <2>2. Begins(c, "compound", body, <<cur', Len(nodes')>>)
    BY <1>5, <1>9, <1>10, <2>1, FrameCalled, Zenon
  <2>3. QED
    BY <2>2 DEF Begins
<1>12. stack' = Front(stack) \o <<me, c>> /\ ret' = NoRet
  BY <1>1, <1>5, <1>7, <1>9 DEF ExternalBody, Call
<1>13. PlainCall(top, me, c)
  <2>1. Placed(me)'
    BY <1>4, <1>8 DEF Placed
  <2>2. Sized(me) /\ ~Alone(me)
    BY <1>8 DEF Sized, Alone, Failing, Passing
  <2>3. c.mark[1] = cur /\ c.mark[2] = Len(nodes)
    BY <1>2, <1>11
  <2>4. c.mark[2] = me.made[1] \/ Was(c.mark[1], {")"})
    BY <1>6, <1>8, <2>3
  <2>5. DeclCalls(me, c) /\ ~InExpr(c)
    BY <1>8, <1>11, <2>4 DEF DeclCalls, InExpr, ExprFns
  <2>6. c.fn \notin {"parameter", "external"}
    BY <1>11
  <2>7. QED
    BY <1>3, <1>8, <1>10, <1>11, <2>1, <2>2, <2>5, <2>6 DEF PlainCall
<1>14. QED
  BY <1>1, <1>2, <1>3, <1>4, <1>8, <1>11, <1>12, <1>13, PlainCalls

(* The outermost activation, as it begins.                                 *)
Outermost ==
  /\ stack = <<Frame("external", 0, FALSE, 0)>> /\ ret = NoRet
  /\ IsSeq(nodes) /\ IsSeq(tokens) /\ cur \in Nat

(* The invariant holds when the outermost activation begins.               *)
LEMMA OutermostParse == Outermost => Parse
<1> SUFFICES ASSUME Outermost PROVE Parse
  OBVIOUS
<1>1. PICK f : f = Frame("external", 0, FALSE, 0)
  OBVIOUS
<1>2. PICK made \in Seq(Nat) : made = << >>
  BY EmptySeq
<1>3. PICK mark \in Nat \X Nat : mark = <<0, 0>>
  OBVIOUS
<1>4. "external" \in Fns /\ "enter" \in Places /\ 0 \in Int /\ 0 \in Nat /\ FALSE \in BOOLEAN
  BY DEF Fns, Places
<1>5. f = [fn |-> "external", at |-> "enter", expr |-> 0, lock |-> FALSE, level |-> 0,
           made |-> made, mark |-> mark]
  BY <1>1, <1>2, <1>3 DEF Frame
<1>6. /\ f \in Frames /\ f.fn = "external" /\ f.at = "enter" /\ f.made = << >> /\ f.mark[2] = 0
  BY <1>2, <1>3, <1>4, <1>5 DEF Frames
<1>7. stack \in Seq(Frames) /\ Len(stack) = 1 /\ stack[1] = f /\ Top = f
  <2>1. stack = <<f>>
    BY <1>1 DEF Outermost
  <2>2. stack \in Seq(Frames) /\ Len(stack) = 1 /\ stack[1] = f
    BY <1>6, <2>1
  <2>3. QED
    BY <2>2 DEF Top, Last
<1>8. Types
  BY <1>7 DEF Types, Outermost
<1>9. FrameOK(f)
  <2>1. Spanned(f)
    BY <1>6, SeqDomain DEF Spanned, Outermost, InExpr, ExprFns
  <2>2. Entered(f)
    BY <1>6 DEF Outermost, Entered
  <2>3. Sized(f) /\ Looked(f) /\ Blank(f) /\ Pending(f) /\ Placed(f)
    BY <1>6 DEF Sized, Looked, Blank, Pending, Placed, InExpr, ExprFns, Passing, Failing, Tried, Begun
  <2>4. QED
    BY <2>1, <2>2, <2>3 DEF FrameOK
<1>10. Told(f) /\ DeclTold(f)
  BY <1>6 DEF Told, DeclTold, Failing, Passing
<1>11. Activations
  BY <1>6, <1>7, <1>9 DEF Activations, Depth
<1>12. Answered
  BY <1>7, <1>10 DEF Answered
<1>13. Callers
  BY <1>7 DEF Callers, Depth
<1>14. Nested
  BY <1>7 DEF Nested, Depth
<1>15. QED
  BY <1>8, <1>11, <1>12, <1>13, <1>14 DEF Parse

(* The same of the next state.                                             *)
LEMMA OutermostParseNext == Outermost' => Parse'
BY OutermostParse, PTL

(* A function is kept, and the rule begins anew.                           *)
LEMMA ExternalDoneStep ==
  ASSUME Parse, ExternalDone
  PROVE  StepOK
<1>1. PICK top : top = Top
  OBVIOUS
<1>2. At("external", "body") /\ cur' = cur /\ tokens' = tokens /\ status' = status
  BY DEF ExternalDone, Stay
<1>3. /\ stack # << >> /\ status = "parsing" /\ top.fn = "external"
      /\ Len(nodes) \in Nat /\ IsSeq(nodes) /\ cur \in Nat
  BY <1>1, <1>2, AtPlace
<1>4. stack \in Seq(Frames) /\ Len(stack) = 1
  BY <1>1, <1>3, OfTop DEF Parse, Types, Depth
<1>5. PICK f : f = Frame("external", 0, FALSE, 0)
  OBVIOUS
<1>6. stack' = <<f>> /\ ret' = NoRet
  <2>1. stack' = Append(Front(stack), f) /\ ret' = NoRet
    BY <1>5 DEF ExternalDone, Continue
  <2>2. Front(stack) = << >>
    BY <1>3, <1>4, FrontType, EmptySeq
  <2>3. QED
    BY <2>1, <2>2
<1>7. PICK n, d : nodes' = WithChild(nodes, n, d)
  BY DEF ExternalDone
<1>8. SameBut(nodes', nodes, n)
  BY <1>3, <1>7, ChildGiven
<1>9. IsSeq(nodes')
  BY <1>8 DEF SameBut
<1>10. Outermost'
  BY <1>2, <1>3, <1>5, <1>6, <1>9 DEF Outermost, Parse, Types
<1>11. Parse'
  BY <1>10, OutermostParseNext
<1>12. NoTrace
  BY <1>6 DEF NoTrace, NoRet
<1>13. QED
  BY <1>2, <1>3, <1>11, <1>12 DEF StepOK, AssertsOnlyInDeclarations, NoAssignment, Parsed

(* Anything else is undone: behind parameters, the order is wrong.         *)
LEMMA ExternalNilStep ==
  ASSUME Parse, ExternalNil
  PROVE  StepOK
<1>1. PICK top : top = Top
  OBVIOUS
<1>2. PICK place \in {"decl", "body"} : At("external", place)
  BY DEF ExternalNil
<1>3. ret = "false"
  BY DEF ExternalNil
<1>4. /\ stack # << >> /\ status = "parsing" /\ Known
      /\ top.fn = "external" /\ top.at = place /\ top \in Frames /\ FrameOK(top) /\ DeclTold(top)
      /\ Len(nodes) \in Nat
  BY <1>1, <1>2, AtPlace
<1>5. CASE PopsInOrder(top.made)
  <2>1. Return(NoRet) /\ status' = "parsed"
    BY <1>1, <1>5 DEF ExternalNil
  <2>2. NoTrace
    BY <2>1 DEF NoTrace, Return, NoRet
  <2>3. QED
    BY <2>1, <2>2 DEF StepOK, AssertsOnlyInDeclarations, NoAssignment, Parsed, Return
<1>6. CASE ~PopsInOrder(top.made)
  <2>1. Give("asserted")
    BY <1>1, <1>6 DEF ExternalNil
  <2>2. Len(nodes) # top.made[1]
    <3>1. Len(top.made) = 3 /\ \A d \in 1 .. 3 : top.made[d] = top.made[1] + 1 - d
      BY <1>4 DEF FrameOK, Placed
    <3>2. DOMAIN top.made = 1 .. 3
      BY <1>4, <3>1, FrameFields
    <3>3. QED
      BY <1>6, <3>1, <3>2 DEF PopsInOrder
  <2>3. Was(cur, {")"}) /\ Tok # "{"
    BY <1>3, <1>4, <2>2 DEF DeclTold
  <2>4. MayAssert
    BY <2>3 DEF MayAssert, Was
  <2>5. QED
    BY <2>1, <2>4, StepAsserts
<1>7. QED
  BY <1>5, <1>6

(* The rules of external declarations.                                     *)
LEMMA ExternalStep ==
  ASSUME Parse, External
  PROVE  StepOK
BY ExternalEnterStep, ExternalDeclaratorStep, ExternalBodyStep, ExternalDoneStep, ExternalNilStep
   DEF External

-----------------------------------------------------------------------------
(* The source comes into sight                                             *)

(* What is known of the tokens stays.                                      *)
LEMMA Sighted ==
  ASSUME Parse, ~Known, Reveal
  PROVE  /\ IsSeq(tokens') /\ Len(tokens) \in Nat /\ Len(tokens') \in Nat /\ Len(tokens) <= Len(tokens')
         /\ \A i \in 1 .. Len(tokens) : tokens'[i] = tokens[i]
<1>1. IsSeq(tokens) /\ Len(tokens) \in Nat
  BY SeqDomain DEF Parse, Types
<1>2. CASE tokens' = tokens
  BY <1>1, <1>2
<1>3. ASSUME NEW t, tokens' = Append(tokens, t)
      PROVE  /\ IsSeq(tokens') /\ Len(tokens') = Len(tokens) + 1
             /\ \A i \in 1 .. Len(tokens) : tokens'[i] = tokens[i]
  BY <1>1, <1>3, SeqAppend
<1>4. tokens' = tokens \/ \E t : tokens' = Append(tokens, t)
  BY DEF Reveal
<1>5. QED
  BY <1>1, <1>2, <1>3, <1>4

(* So what an activation knows stays.                                      *)
LEMMA SightKept ==
  ASSUME Parse, ~Known, Reveal, NEW f \in Frames
  PROVE  /\ Seen(f.mark[1]) => Seen(f.mark[1])' /\ (Starts(f.mark[1])' <=> Starts(f.mark[1]))
         /\ Starts(f.mark[1]) => Starts(f.mark[1])'
         /\ \A S : Was(f.mark[1], S) => f.mark[1] \in 1 .. Len(tokens') /\ tokens'[f.mark[1]] \in S
<1>1. PICK m \in Nat : m = f.mark[1]
  BY FrameFields
<1>2. /\ Len(tokens) \in Nat /\ Len(tokens') \in Nat /\ Len(tokens) <= Len(tokens')
      /\ \A i \in 1 .. Len(tokens) : tokens'[i] = tokens[i]
  BY Sighted
<1>3. m < Len(tokens) => m < Len(tokens') /\ tokens'[m + 1] = tokens[m + 1]
  <2>1. m < Len(tokens) => m + 1 \in 1 .. Len(tokens) /\ m < Len(tokens')
    BY <1>2
  <2>2. QED
    BY <1>2, <2>1
<1>4. ~ended
  BY DEF Known
<1>5. Seen(m) => Seen(m)' /\ (Starts(m)' <=> Starts(m))
  BY <1>3, <1>4 DEF Seen, Starts
<1>6. Starts(m) => Starts(m)'
  BY <1>3 DEF Starts
<1>7. ASSUME NEW S, Was(m, S)
      PROVE  m \in 1 .. Len(tokens') /\ tokens'[m] \in S
  BY <1>2, <1>7 DEF Was
<1>8. QED
  BY <1>1, <1>5, <1>6, <1>7 DEF Seen, Starts

(* A token comes into sight, or the end.                                   *)
LEMMA RevealStep ==
  ASSUME Parse, Reveal
  PROVE  StepOK
<1>1. /\ status = "parsing" /\ ~Known
      /\ cur' = cur /\ nodes' = nodes /\ stack' = stack /\ ret' = ret /\ status' = status
  BY DEF Reveal
<1>2. Types'
  BY <1>1, Sighted DEF Parse, Types
<1>3. ASSUME NEW f \in Frames, FrameOK(f)
      PROVE  FrameOK(f)'
  <2>1. Entered(f)' /\ Sized(f)' /\ Spanned(f)' /\ Blank(f)' /\ Pending(f)'
    BY <1>1, <1>3 DEF FrameOK, Entered, Sized, Spanned, Blank, Pending, Top
  <2>2. Looked(f)'
    BY <1>1, <1>3, SightKept DEF FrameOK, Looked
  <2>3. Placed(f)'
    <3>1. f.fn = "parameter" => Was(f.mark[1], {"(", ","})'
      BY <1>1, <1>3, SightKept DEF FrameOK, Placed, Was
    <3>2. QED
      BY <1>1, <1>3, <3>1 DEF FrameOK, Placed
  <2>4. QED
    BY <2>1, <2>2, <2>3 DEF FrameOK
<1>4. Activations'
  <2>1. ASSUME NEW k \in 1 .. Depth, NEW f, f = stack[k]
        PROVE  (Alone(f) => k = Depth) /\ (f.fn = "external" => k = 1) /\ FrameOK(f)'
    BY <1>3, <2>1, OfActivation
  <2>2. QED
    BY <1>1, <2>1 DEF Activations, Depth, Alone
<1>5. Was(cur, {")"}) => Was(cur, {")"})'
  <2>1. \A i \in 1 .. Len(tokens) : i \in 1 .. Len(tokens') /\ tokens'[i] = tokens[i]
    BY <1>1, Sighted
  <2>2. QED
    BY <1>1, <2>1 DEF Was
<1>6. Answered'
  <2>1. SUFFICES ASSUME stack # << >>, NEW f, f = Top
                 PROVE  Told(f)' /\ DeclTold(f)'
    BY <1>1 DEF Answered, Top
  <2>2. f \in Frames /\ Told(f) /\ DeclTold(f)
    BY <2>1, OfTop
  <2>3. Told(f)'
    BY <1>1, <2>2, SightKept DEF Told
  <2>4. DeclTold(f)'
    BY <1>1, <1>5, <2>2 DEF DeclTold
  <2>5. QED
    BY <2>3, <2>4
<1>7. Callers'
  <2>1. ASSUME NEW k \in 1 .. Depth - 1, NEW f, f = stack[k], NEW c, c = stack[k + 1]
        PROVE  Calls(f, c)' /\ DeclCalls(f, c)'
    <3>1. Calls(f, c) /\ DeclCalls(f, c)
      BY <2>1 DEF Parse, Callers
    <3>2. Depth \in Nat /\ k + 1 \in 1 .. Depth
      BY LenProperties DEF Parse, Types, Depth
    <3>3. c \in Frames
      BY <2>1, <3>2, OfActivation
    <3>4. Was(c.mark[1], {")"}) => Was(c.mark[1], {")"})'
      BY <1>1, <3>3, SightKept DEF Was
    <3>5. QED
      BY <3>1, <3>4 DEF Calls, DeclCalls
  <2>2. QED
    BY <1>1, <2>1 DEF Callers, Depth
<1>8. Nested'
  BY <1>1 DEF Parse, Nested, Depth, Over
<1>9. NoTrace
  <2>1. Len(stack) \in Nat
    BY LenProperties DEF Parse, Types
  <2>2. ~(Len(stack') < Len(stack))
    BY <1>1, <2>1
  <2>3. QED
    BY <2>2 DEF NoTrace
<1>10. Parse'
  BY <1>2, <1>4, <1>6, <1>7, <1>8 DEF Parse
<1>11. QED
  BY <1>1, <1>9, <1>10 DEF StepOK, AssertsOnlyInDeclarations, NoAssignment, Parsed

-----------------------------------------------------------------------------
(* The front end                                                           *)

(* What every step keeps.                                                  *)
LEMMA FrontInitOK ==
  ASSUME FrontInit
  PROVE  FrontInv
<1>1. ParserInit
  BY DEF FrontInit
<1>2. PICK e : nodes = <<e, Block>>
  BY <1>1 DEF ParserInit
<1>3. IsSeq(nodes)
  BY <1>2, SeqTwo
<1>4. IsSeq(<< >>)
  BY EmptySeq DEF IsSeq
<1>5. Outermost
  BY <1>1, <1>3, <1>4 DEF ParserInit, Outermost
<1>6. Parse
  BY <1>5, OutermostParse
<1>7. status = "parsing"
  BY <1>1 DEF ParserInit
<1>8. LexFirst
  BY <1>1, <1>4 DEF FrontInit, ParserInit, LexerInit, LexFirst
<1>9. QED
  BY <1>6, <1>7, <1>8 DEF FrontInv, AssertsOnlyInDeclarations, NoAssignment, Parsed

(* A step of the parser.                                                   *)
LEMMA ParserStep ==
  ASSUME FrontInv, ParserNext
  PROVE  StepOK
<1>1. CASE Coalesce
  <2>1. status = "parsed" /\ status' = "done" /\ ret' = ret
    BY <1>1 DEF Coalesce
  <2>2. NoTrace
    BY <2>1 DEF FrontInv, Parsed, NoTrace, NoRet
  <2>3. QED
    BY <2>1, <2>2 DEF StepOK, AssertsOnlyInDeclarations, NoAssignment, Parsed
<1>2. CASE ~Coalesce
  <2>1. status = "parsing"
    BY <1>2 DEF ParserNext, Operand, Binop, BinopEnter, BinopOperator, BinopPlain, BinopRetry,
         BinopFail, BinopDone, BinopAbort, Condition, CondEnter, CondPlain, CondThen, CondElse,
         CondDone, CondAbort, CondFail, Assignment, AssignEnter, AssignPlain, AssignTry, AssignFail,
         Expr, ExprEnter, ExprRetry, ExprEnd, Statement, JumpEnter, JumpValue, JumpDone, JumpAbort,
         CompoundEnter, CompoundEmpty, CompoundList, CompoundMore, CompoundClose, CompoundAbort,
         Declaration, SpecifiersTurn, DeclaratorName, DeclaratorPlain, DeclaratorParams,
         DeclaratorNext, DeclaratorParen, DeclaratorClose, DeclaratorAbort, DeclaratorNone,
         ParameterEnter, ParameterDeclarator, ParameterFail, ParameterDone, External,
         ExternalEnter, ExternalDeclarator, ExternalBody, ExternalDone, ExternalNil, Reveal, At
  <2>2. Parse
    BY <2>1 DEF FrontInv
  <2>3. QED
    BY <1>2, <2>2, OperandStep, BinopStep, ConditionStep, AssignmentStep, ExprStep,
       StatementStep, DeclarationStep, ExternalStep, RevealStep DEF ParserNext
<1>3. QED
  BY <1>1, <1>2

(* A step of the front end.                                                *)
LEMMA FrontStep ==
  ASSUME FrontInv, [FrontNext]_frontVars
  PROVE  FrontInv' /\ (parserVars' # parserVars => NoTrace)
<1>1. CASE Parsing
  <2>1. ~lexing /\ ParserNext /\ lexing' = lexing
    BY <1>1 DEF Parsing, lexerVars
  <2>2. StepOK
    BY <2>1, ParserStep
  <2>3. QED
    BY <2>1, <2>2 DEF StepOK, FrontInv, LexFirst
<1>2. CASE UNCHANGED parserVars /\ (lexing' => lexing /\ IsSeq(lexed'))
  <2>1. /\ tokens' = tokens /\ ended' = ended /\ cur' = cur /\ nodes' = nodes
        /\ stack' = stack /\ ret' = ret /\ status' = status
    BY <1>2 DEF parserVars
  <2>2. LexFirst'
    BY <1>2, <2>1 DEF FrontInv, LexFirst
  <2>3. ASSUME Parse
        PROVE  Parse'
    <3>1. Types'
      BY <2>1, <2>3 DEF Parse, Types
    <3>2. ASSUME NEW f, FrameOK(f)
          PROVE  FrameOK(f)'
      <4>1. Entered(f)' /\ Sized(f)' /\ Spanned(f)' /\ Blank(f)' /\ Pending(f)'
        BY <2>1, <3>2 DEF FrameOK, Entered, Sized, Spanned, Blank, Pending, Top
      <4>2. Looked(f)'
        BY <2>1, <3>2 DEF FrameOK, Looked, Seen, Starts
      <4>3. Placed(f)'
        BY <2>1, <3>2 DEF FrameOK, Placed, Was
      <4>4. QED
        BY <4>1, <4>2, <4>3 DEF FrameOK
    <3>3. Activations'
      BY <2>1, <2>3, <3>2 DEF Parse, Activations, Depth, Alone
    <3>4. Answered'
      BY <2>1, <2>3 DEF Parse, Answered, Told, DeclTold, Top, Seen, Starts, Was, Known, Tok
    <3>5. Callers' /\ Nested'
      BY <2>1, <2>3 DEF Parse, Callers, Nested, Depth, Calls, DeclCalls, Over, Was
    <3>6. QED
      BY <3>1, <3>3, <3>4, <3>5 DEF Parse
  <2>4. QED
    BY <1>2, <2>1, <2>2, <2>3 DEF FrontInv, AssertsOnlyInDeclarations, NoAssignment, Parsed, Tok
<1>3. CASE Lexing
  <2>1. IsSeq(lexed')
    <3>1. lexing
      BY <1>3 DEF Lexing, LexToken, LexStuck
    <3>2. IsSeq(lexed)
      BY <3>1 DEF FrontInv, LexFirst
    <3>3. (\E t : lexed' = Append(lexed, t)) \/ lexed' = lexed
      BY <1>3 DEF Lexing, LexToken, LexStuck
    <3>4. QED
      BY <3>2, <3>3, SeqAppend
  <2>2. UNCHANGED parserVars /\ lexing
    BY <1>3 DEF Lexing, LexToken, LexStuck
  <2>3. QED
    BY <1>2, <2>1, <2>2
<1>4. CASE Lexed
  <2>1. /\ lexing /\ ~lexing' /\ tokens' = [k \in DOMAIN lexed |-> lexed[k].type]
        /\ cur' = cur /\ nodes' = nodes /\ stack' = stack /\ ret' = ret /\ status' = status
    BY <1>4 DEF Lexed, LexEnd
  <2>2. /\ stack = <<Frame("external", 0, FALSE, 0)>> /\ ret = NoRet /\ status = "parsing"
        /\ IsSeq(lexed) /\ Parse
    BY <2>1 DEF FrontInv, LexFirst
  <2>3. IsSeq(tokens')
    <3>1. DOMAIN lexed = 1 .. Len(lexed) /\ Len(lexed) \in Nat
      BY <2>2, SeqDomain
    <3>2. PICK n \in Nat : n = Len(lexed)
      BY <3>1
    <3>3. tokens' = [k \in 1 .. n |-> tokens'[k]]
      BY <2>1, <3>1, <3>2
    <3>4. QED
      BY <3>3, SeqFunction
  <2>4. Outermost'
    BY <2>1, <2>2, <2>3 DEF Outermost, Parse, Types
  <2>5. Parse'
    BY <2>4, OutermostParseNext
  <2>6. NoTrace
    BY <2>1, <2>2 DEF NoTrace, NoRet
  <2>7. QED
    BY <2>1, <2>2, <2>5, <2>6 DEF FrontInv, LexFirst, AssertsOnlyInDeclarations, NoAssignment, Parsed
<1>5. CASE UNCHANGED frontVars
  <2>1. UNCHANGED <<parserVars, lexed, lexing>>
    BY <1>5 DEF frontVars, lexerVars
  <2>2. QED
    BY <1>2, <2>1 DEF FrontInv, LexFirst
<1>6. QED
  BY <1>1, <1>3, <1>4, <1>5 DEF FrontNext

(* Whatever the source, the activations are nested as the grammar nests    *)
(* them, and each knows what the call that ended last has told it.         *)
THEOREM FrontInvariant == FrontSpec => []FrontInv
<1>1. FrontInit => FrontInv
  BY FrontInitOK
<1>2. FrontInv /\ [FrontNext]_frontVars => FrontInv'
  BY FrontStep
<1>3. QED
  BY <1>1, <1>2, PTL DEF FrontSpec

(* A rule that says false has consumed nothing and left nothing behind: no *)
(* token, no node, and nothing in the block that it was to fill; so        *)
(* another rule may be tried in its place (cc/parser.c, each rule's        *)
(* cc_ast_pop_node).                                                       *)
THEOREM FailuresLeaveNoTrace == FrontSpec => FailureLeavesNoTrace
<1>1. FrontInv /\ [FrontNext]_frontVars =>
        [ret' = "false" /\ Len(stack') < Len(stack) =>
           /\ Top.mark = <<cur', Len(nodes')>>
           /\ Top.fn \in {"unary", "binop", "conditional", "assignment", "expression"} =>
                nodes'[Top.expr] = Block]_parserVars
  BY FrontStep DEF NoTrace, ExprFns
<1>2. QED
  BY <1>1, FrontInvariant, PTL DEF FrontSpec, FailureLeavesNoTrace

(* The assertion of cc_ast_pop_node fails for a parameter without a        *)
(* specifier and for a function with parameters and no body, and nowhere   *)
(* else: no expression and no statement ever pops out of order.            *)
THEOREM OnlyDeclarationsAssert == FrontSpec => []AssertsOnlyInDeclarations
<1>1. FrontInv => AssertsOnlyInDeclarations
  BY DEF FrontInv
<1>2. QED
  BY <1>1, FrontInvariant, PTL

(* An assignment is never parsed: where its left side is tried alone, a    *)
(* conditional has just failed, and so no operand is there.                *)
THEOREM NothingIsAssigned == FrontSpec => []NoAssignment
<1>1. FrontInv => NoAssignment
  BY DEF FrontInv
<1>2. QED
  BY <1>1, FrontInvariant, PTL

(* As far as the lexer has come, it has cut the text into tokens.          *)
THEOREM LexerInvariant == FrontSpec => []LexerInv
<1>1. FrontInit => LexerInv
  BY LexerBegins DEF FrontInit
<1>2. [FrontNext]_frontVars => [LexerNext]_lexerVars
  BY DEF FrontNext, Lexing, Lexed, Parsing, LexerNext, frontVars
<1>3. LexerInv /\ [FrontNext]_frontVars => LexerInv'
  BY <1>2, LexerStep
<1>4. QED
  BY <1>1, <1>3, PTL DEF FrontSpec

(* The tokens that the lexer has cut are the text: none overlaps another,  *)
(* each ends where it should, and together they are every character that   *)
(* is no blank (cc/lexer.c, cc_lexer_lex).                                 *)
THEOREM TokensAreTheText == FrontSpec => []TokensAreText
<1>1. LexerInv => TokensAreText
  BY LexerRight
<1>2. QED
  BY <1>1, LexerInvariant, PTL

===============================================================================
