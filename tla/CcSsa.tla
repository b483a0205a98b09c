-------------------------------- MODULE CcSsa --------------------------------
(***************************************************************************)
(* The intermediate representation of the compiler (cc/ssa.h, cc/ssa.c):   *)
(* tokens, the ids they define and use, the substitution that the          *)
(* optimiser is made of and the last-use test that the register allocator  *)
(* relies on.                                                              *)
(*                                                                         *)
(* What a program means is kept symbolic: a term is either a parameter or  *)
(* an operator applied to two terms.  Two programs that build the same     *)
(* term compute the same number, whatever the operators are.               *)
(***************************************************************************)
EXTENDS Integers, Sequences

CONSTANTS
  BinOps,         \* the arithmetic token types: ADD, SUB, ..., OR
  NParams,        \* how many parameters the functions of the source declare
  MaxArgs,        \* CC_SSA_MAX_ARGS, the argument slots of a token
  IdMod,          \* 2^12: an id is an unsigned _BitInt(12)
  LenMod,         \* 2^8: a window's length is an unsigned _BitInt(8)
  FirstTemporal   \* CC_SSA_FIRST_TEMPORAL

TokenTypes == {"NONE", "RETURN", "IDENTITY"} \cup BinOps

ASSUME BinOpsAssumption ==
  {"NONE", "RETURN", "IDENTITY", "BLOCK", "IF"} \cap BinOps = {}
ASSUME NParamsAssumption == NParams \in Nat
ASSUME MaxArgsAssumption == MaxArgs \in Nat /\ MaxArgs >= 2
ASSUME ModAssumption == IdMod \in Nat /\ LenMod \in Nat \ {0}
ASSUME FirstTemporalAssumption ==
  /\ FirstTemporal \in Nat
  /\ NParams + 2 <= FirstTemporal
  /\ FirstTemporal < IdMod

Ids == 0 .. IdMod - 1
Slots == 0 .. MaxArgs - 1

ID_NULL == 0                    \* an eliminated or absent operand
ID_PARAM_Slip(n) == n - 2       \* a slip: below NULL instead of above RETVAL
ID_PARAM(n) == n + 2
ParamIds == {ID_PARAM(n) : n \in 0 .. NParams - 1}

(* A token: RAW_DATA, CALL, BRANCH and PHI are declared by the code but no *)
(* pass creates them.  Every width is CC_SSA_WIDTH_SET(..) = 0.            *)
Tokens == [type : TokenTypes, res : Ids, args : [Slots -> Ids]]

(* An initialiser that names args[0] and args[1] zeroes the other slots.   *)
Args(a, b) == [k \in Slots |-> CASE k = 0 -> a [] k = 1 -> b [] OTHER -> ID_NULL]

-----------------------------------------------------------------------------
(* What the tokens compute *)

NoTerm == <<"undefined">>
ParamTerm(n) == <<"param", n>>
Apply(op, x, y) == <<op, x, y>>

(* The value a token gives its result when the ids denote the terms m.     *)
Denotes(t, m) ==
  CASE t.type \in BinOps -> Apply(t.type, m[t.args[0]], m[t.args[1]])
    [] OTHER -> m[t.args[0]]

(* The slots that the meaning of a token depends on.                       *)
UsedSlots(t) ==
  CASE t.type \in BinOps -> {0, 1}
    [] t.type = "NONE" -> {}
    [] OTHER -> {0}

-----------------------------------------------------------------------------
(* A function is a window of the one array of tokens.                      *)

Windows == [pos : Nat, len : 0 .. LenMod - 1]
Window(f) == f.pos + 1 .. f.pos + f.len

(* cc_ssa_is_used_in: every slot counts, and so does the result.           *)
IsUsedIn(t, id) == t.res = id \/ \E k \in Slots : t.args[k] = id

(* cc_ssa_is_last_use: no token of the window from offset on mentions id.  *)
IsLastUse(tk, f, offset, id) ==
  \A i \in offset .. f.len - 1 : ~IsUsedIn(tk[f.pos + 1 + i], id)

(* cc_ssa_replace_with: in the tokens of the window from offset on.        *)
Substitute_FirstSlot(t, from, to) ==       \* a slip: always writes args[0]
  [t EXCEPT !.args[0] = IF \E k \in Slots : t.args[k] = from THEN to ELSE @]
Substitute(t, from, to) ==
  [t EXCEPT !.args = [k \in Slots |-> IF t.args[k] = from THEN to ELSE t.args[k]]]

ReplaceWith_Past(tk, f, offset, from, to) ==   \* a slip: past the window's end
  [p \in 1 .. Len(tk) |->
     IF p >= f.pos + 1 + offset THEN Substitute(tk[p], from, to) ELSE tk[p]]

ReplaceWith(tk, f, offset, from, to) ==
  [p \in 1 .. Len(tk) |->
     IF p \in f.pos + 1 + offset .. f.pos + f.len
       THEN Substitute(tk[p], from, to) ELSE tk[p]]
=============================================================================
