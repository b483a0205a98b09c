------------------------------ MODULE CcOptimise -----------------------------
(***************************************************************************)
(* The optimiser: cc_ssa_optimise (cc/ssa.c).  Function after function, the*)
(* identity pass and then the reused pass walk the function's window.  One *)
(* step is one iteration of a loop of the code.                            *)
(***************************************************************************)
EXTENDS CcEmit

VARIABLES
  fn,     \* the loop of cc_ssa_optimise, from 1
  pass,   \* the pass that is running on it
  oi,     \* the loop variable i of either pass
  oj      \* the loop variable j of the reused pass

passVars == <<fn, pass, oi, oj>>
optVars == <<emitVars, passVars>>

func == funcs[fn]
At(k) == func.pos + 1 + k     \* index of the window's k-th token
itok == toks[At(oi)]
jtok == toks[At(oj)]

OptimiseInit == EmitInit /\ fn = 1 /\ pass = "identity" /\ oi = 0 /\ oj = 1

Eliminate(tk, p) == [tk EXCEPT ![p].type = "NONE"]

Working(p) == phase = "optimise" /\ fn <= Len(funcs) /\ pass = p

-----------------------------------------------------------------------------
(* cc_ssa_optimise_identity                                                *)

(* The body of the if: uses of the result become uses of the operand.  The *)
(* assertion stops the compiler should either id be null.                  *)
EliminateIdentity_Late ==       \* a slip: the token right after is skipped
  /\ Working("identity")
  /\ oi < func.len
  /\ itok.type = "IDENTITY"
  /\ toks' = Eliminate(
        ReplaceWith(toks, func, oi + 2, itok.res, itok.args[0]), At(oi))
  /\ oi' = oi + 1
  /\ UNCHANGED <<phase, funcs, nextId, nodes, stack, heard, src, fn, pass, oj>>

EliminateIdentity_Kept ==       \* a slip: renamed everywhere, yet not removed
  /\ Working("identity")
  /\ oi < func.len
  /\ itok.type = "IDENTITY"
  /\ toks' = ReplaceWith(toks, func, oi + 1, itok.res, itok.args[0])
  /\ oi' = oi + 1
  /\ UNCHANGED <<phase, funcs, nextId, nodes, stack, heard, src, fn, pass, oj>>

EliminateIdentity ==
  /\ Working("identity")
  /\ oi < func.len
  /\ itok.type = "IDENTITY"
  /\ IF itok.res = ID_NULL \/ itok.args[0] = ID_NULL
       THEN phase' = "aborted" /\ UNCHANGED <<toks, oi>>
       ELSE /\ toks' = Eliminate(
                 ReplaceWith(toks, func, oi + 1, itok.res, itok.args[0]), At(oi))
            /\ oi' = oi + 1
            /\ UNCHANGED phase
  /\ UNCHANGED <<funcs, nextId, nodes, stack, heard, src, fn, pass, oj>>

KeepToken ==
  /\ Working("identity")
  /\ oi < func.len
  /\ itok.type # "IDENTITY"
  /\ oi' = oi + 1
  /\ UNCHANGED <<emitVars, fn, pass, oj>>

IdentityDone ==
  /\ Working("identity")
  /\ oi >= func.len
  /\ pass' = "reused" /\ oi' = 0 /\ oj' = 1
  /\ UNCHANGED <<emitVars, fn>>

-----------------------------------------------------------------------------
(* cc_ssa_optimise_reused                                                  *)

(* The memcmp spans the size of one element of args: the first slot only.  *)
SameToken(t, u) == t.type = u.type /\ t.args[0] = u.args[0]

MergeReused ==
  /\ Working("reused")
  /\ oi < func.len /\ oj < func.len
  /\ SameToken(itok, jtok)
  /\ toks' = Eliminate(ReplaceWith(toks, func, oj + 1, jtok.res, itok.res), At(oj))
  /\ oj' = oj + 1
  /\ UNCHANGED <<phase, funcs, nextId, nodes, stack, heard, src, fn, pass, oi>>

KeepBoth ==
  /\ Working("reused")
  /\ oi < func.len /\ oj < func.len
  /\ ~SameToken(itok, jtok)
  /\ oj' = oj + 1
  /\ UNCHANGED <<emitVars, fn, pass, oi>>

NextCandidate_Twice ==       \* a slip: the outer loop advances twice a turn
  /\ Working("reused")
  /\ oi < func.len /\ oj >= func.len
  /\ oi' = oi + 2 /\ oj' = oi + 3
  /\ UNCHANGED <<emitVars, fn, pass>>

NextCandidate ==
  /\ Working("reused")
  /\ oi < func.len /\ oj >= func.len
  /\ oi' = oi + 1 /\ oj' = oi + 2
  /\ UNCHANGED <<emitVars, fn, pass>>

ReusedDone ==
  /\ Working("reused")
  /\ oi >= func.len
  /\ fn' = fn + 1 /\ pass' = "identity" /\ oi' = 0 /\ oj' = 1
  /\ UNCHANGED emitVars

-----------------------------------------------------------------------------
(* Every function is optimised: the driver goes on to cc_asm_lower_ssa.    *)
OptimiseDone ==
  /\ phase = "optimise"
  /\ fn > Len(funcs)
  /\ phase' = "lower"
  /\ UNCHANGED <<toks, funcs, nextId, nodes, stack, heard, src, passVars>>

OptimiseStep ==
  \/ EliminateIdentity \/ KeepToken \/ IdentityDone
  \/ MergeReused \/ KeepBoth \/ NextCandidate \/ ReusedDone
  \/ OptimiseDone

OptimiseNext == OptimiseStep \/ (EmitNext /\ UNCHANGED passVars)

OptimiseSpec == OptimiseInit /\ [][OptimiseNext]_optVars

-----------------------------------------------------------------------------
(* Properties *)

OptimiseTypeOK ==
  /\ EmitTypeOK
  /\ fn \in 1 .. Len(funcs) + 1
  /\ pass \in {"identity", "reused"}
  /\ oi \in 0 .. LenMod /\ oj \in 1 .. LenMod + 1
  /\ fn <= Len(funcs) => oi <= func.len

(* No token still in the program refers to a result that is gone: operands *)
(* of what is left are parameters or results of earlier tokens that are    *)
(* left, at every step of both passes.                                     *)
Live(f) == {p \in Window(funcs[f]) : toks[p].type # "NONE"}

NoDanglingOperand ==
  \A f \in 1 .. Len(funcs) : \A p \in Live(f) : \A k \in Slots :
    LET id == toks[p].args[k] IN
      \/ id = ID_NULL
      \/ id \in ParamIds
      \/ \E q \in Live(f) : q < p /\ toks[q].res = id

(* Copy propagation is sound: as long as the reused pass has not reached a *)
(* function, each of its tokens denotes the value of its syntax node.      *)
IdentityPassTranslates ==
  \A f \in 1 .. Len(funcs) :
    f > fn \/ (f = fn /\ pass = "identity")
      => \A p \in Live(f) : Translates(f, p)

(* Once the identity pass is through with a function no IDENTITY is left   *)
(* in it, and none comes back.  cc_asm_lower_func never meets one.         *)
NoIdentityLeft ==
  \A f \in 1 .. Len(funcs) :
    f < fn \/ (f = fn /\ pass = "reused")
      => \A p \in Window(funcs[f]) : toks[p].type # "IDENTITY"

(* One walk of the reused pass is enough: when it is through, no two       *)
(* tokens that are left compute the same operator of the same operands,    *)
(* although merging a later pair may rename the operands of an earlier one.*)
NoDuplicateLeft ==
  \A f \in 1 .. fn - 1 : \A p, q \in Live(f) :
    toks[p].type = toks[q].type /\ toks[p].args = toks[q].args => p = q

(* A pass on one function leaves every other function's window alone, and  *)
(* in its own it renames operands and eliminates: it never moves a token,  *)
(* changes a result or revives what was eliminated.                        *)
PassStaysInWindow ==
  [][phase = "optimise" =>
       /\ Len(toks') = Len(toks)
       /\ \A p \in 1 .. Len(toks) :
            toks'[p] # toks[p] =>
              /\ p \in Window(func)
              /\ toks'[p].res = toks[p].res
              /\ toks'[p].type \in {toks[p].type, "NONE"}]_optVars

(* What the comment above cc_ssa_optimise_reused says of it: it "Removes   *)
(* redundant "reused" results".  A result is redundant when an earlier one *)
(* has the same value, so the tokens that are left still denote the values *)
(* of their syntax nodes.                                                  *)
RemovesOnlyRedundant ==
  \A f \in 1 .. Len(funcs) : \A p \in Live(f) : Translates(f, p)
=============================================================================
