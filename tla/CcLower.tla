------------------------------- MODULE CcLower -------------------------------
(***************************************************************************)
(* Register allocation and lowering: cc_asm_lower_ssa (cc/asm.c).  One     *)
(* step lowers one token.  Beside the allocator's table the module carries *)
(* two histories that are executed in step with it: the machine that runs  *)
(* the instructions written so far, and the values that the optimised      *)
(* tokens define.                                                          *)
(***************************************************************************)
EXTENDS CcOptimise

CONSTANTS
  NF, NT, NA    \* how many registers F0.., T0.. and A0.. there are: 16, 8, 4

ASSUME RegistersAssumption == NF \in Nat /\ NT \in Nat \ {0} /\ NA \in Nat
ASSUME PassedAssumption == ID_PARAM(NA) <= FirstTemporal    \* 6 and 32

(* enum cc_asm_register: the order of CC_ASM_REGISTER_LIST.                *)
T0 == NF
T7 == NF + NT - 1
A0 == NF + NT
A3 == A0 + NA - 1
RA == A0 + NA
BP == RA + 1
SP == RA + 2
TP == RA + 3
SPILL == RA + 4

VARIABLES
  lf,       \* the function being lowered, 0 before the first
  li,       \* its next token
  regInfo,  \* as->reg_info: the id each register holds, 0 for none
  nReg,     \* as->n_reg_info
  asm,      \* as->asm_out, instruction by instruction
  mreg,     \* history: what the instructions leave in the real registers
  iden      \* history: what the tokens lowered so far define

lowerOnly == <<lf, li, regInfo, nReg, asm, mreg, iden>>
lowerVars == <<optVars, lowerOnly>>

lfunc == funcs[lf]
tok == toks[lfunc.pos + 1 + li]

LowerInit ==
  /\ OptimiseInit
  /\ lf = 0 /\ li = 0
  /\ regInfo = [r \in 0 .. SPILL - 1 |-> ID_NULL]
  /\ nReg = SPILL
  /\ asm = << >>
  /\ mreg = [r \in 0 .. SPILL - 1 |-> NoTerm]
  /\ iden = [id \in Ids |-> NoTerm]

-----------------------------------------------------------------------------
(* The allocator *)

First(S) == CHOOSE r \in S : \A q \in S : r <= q

Free(rs, S) == {r \in S : rs[r] = ID_NULL}

(* cc_asm_find_free for an integer: the loop stops short of T7; failing    *)
(* the T registers, a free virtual register or a new one at the end.       *)
FindFree ==
  LET integer == Free(regInfo, T0 .. T7 - 1)
      spill == Free(regInfo, SPILL .. nReg - 1)
  IN IF integer # {} THEN First(integer)
     ELSE IF spill # {} THEN First(spill) ELSE nReg

Grown == IF FindFree = nReg THEN nReg + 1 ELSE nReg

(* cc_asm_regalloc: the table once id has a register.                      *)
RegAlloc_NoBreak(id) ==       \* a slip: the search goes on after a match
  [r \in 0 .. Grown - 1 |->
     IF r = FindFree \/ r \in Free(regInfo, T0 .. T7 - 1) THEN id ELSE regInfo[r]]

RegAlloc(id) ==
  [r \in 0 .. Grown - 1 |-> IF r = FindFree THEN id ELSE regInfo[r]]

(* As written: every register is at or above A0, or at or below A3.        *)
IsFixedReg_Both(r) ==       \* a slip, of whoever repairs the || to &&
  \/ r >= A0 /\ r <= A3
  \/ r \in {RA, TP, BP, SP}

IsFixedReg(r) ==
  \/ r >= A0 \/ r <= A3
  \/ r \in {RA, TP, BP, SP}

RegFree(rs, r) == IF IsFixedReg(r) THEN rs ELSE [rs EXCEPT ![r] = ID_NULL]

Holding(rs, id) == {r \in DOMAIN rs : rs[r] = id}
FindUsed_Any(rs, id) ==       \* a slip: the first register that holds anything
  First({r \in DOMAIN rs : rs[r] # ID_NULL})
FindUsed(rs, id) == First(Holding(rs, id))

-----------------------------------------------------------------------------
(* cc_asm_lower_ssa, one function: clear the table, preset the arguments.  *)
FunctionLowered == lf > 0 => li >= lfunc.len

LowerFunc_Resumes ==       \* a slip: the token index is not reset
  /\ phase = "lower"
  /\ lf < Len(funcs)
  /\ FunctionLowered
  /\ lf' = lf + 1
  /\ li' = li
  /\ regInfo' = [r \in 0 .. SPILL - 1 |->
                   IF r \in A0 .. A3 THEN ID_PARAM(r - A0) ELSE ID_NULL]
  /\ nReg' = SPILL
  /\ asm' = Append(asm, <<"label", lf + 1>>)
  /\ mreg' = [r \in 0 .. SPILL - 1 |->
                IF r \in A0 .. A3 THEN ParamTerm(r - A0) ELSE NoTerm]
  /\ iden' = InitialMeaning
  /\ UNCHANGED optVars

LowerFunc_NotCleared ==       \* a slip: the last function's table stays
  /\ phase = "lower"
  /\ lf < Len(funcs)
  /\ FunctionLowered
  /\ lf' = lf + 1
  /\ li' = 0
  /\ regInfo' = [r \in 0 .. SPILL - 1 |->
                   IF r \in A0 .. A3 THEN ID_PARAM(r - A0) ELSE regInfo[r]]
  /\ nReg' = SPILL
  /\ asm' = Append(asm, <<"label", lf + 1>>)
  /\ mreg' = [r \in 0 .. SPILL - 1 |->
                IF r \in A0 .. A3 THEN ParamTerm(r - A0) ELSE NoTerm]
  /\ iden' = InitialMeaning
  /\ UNCHANGED optVars

LowerFunc ==
  /\ phase = "lower"
  /\ lf < Len(funcs)
  /\ FunctionLowered
  /\ lf' = lf + 1
  /\ li' = 0
  /\ regInfo' = [r \in 0 .. SPILL - 1 |->
                   IF r \in A0 .. A3 THEN ID_PARAM(r - A0) ELSE ID_NULL]
  /\ nReg' = SPILL
  /\ asm' = Append(asm, <<"label", lf + 1>>)
  /\ mreg' = [r \in 0 .. SPILL - 1 |->
                IF r \in A0 .. A3 THEN ParamTerm(r - A0) ELSE NoTerm]
  /\ iden' = InitialMeaning
  /\ UNCHANGED optVars

Lowering(types) ==
  /\ phase = "lower"
  /\ ~FunctionLowered
  /\ tok.type \in types

(* cc_asm_generic_binop.  The result's register is allocated before the    *)
(* operands are looked up; both frees follow the write.  It aborts when an *)
(* operand is in no register, or when an assertion of cc_ssa_is_last_use   *)
(* or cc_asm_regfree fails.  The name of a virtual register is read past   *)
(* the end of asm_regname: undefined, so the compiler dies or writes       *)
(* something that names no register.                                       *)
LowerBinop ==
  /\ Lowering(BinOps)
  /\ LET a0 == tok.args[0]
         a1 == tok.args[1]
         rd == FindFree
         held == RegAlloc(tok.res)
         r0 == FindUsed(held, a0)
         r1 == FindUsed(held, a1)
         last0 == IsLastUse(toks, lfunc, li + 1, a0)
         last1 == IsLastUse(toks, lfunc, li + 1, a1)
         freed0 == IF last0 THEN RegFree(held, r0) ELSE held
         named == {rd, r0, r1} \subseteq 0 .. SPILL - 1
         sound == /\ Holding(held, a0) # {} /\ Holding(held, a1) # {}
                  /\ li + 1 < lfunc.len
                  /\ last0 => held[r0] # ID_NULL
                  /\ last1 => freed0[r1] # ID_NULL
     IN IF sound
          THEN /\ phase' \in IF named THEN {"lower"} ELSE {"lower", "aborted"}
               /\ regInfo' = IF last1 THEN RegFree(freed0, r1) ELSE freed0
               /\ nReg' = Grown
               /\ asm' = Append(asm, <<tok.type, rd, r0, r1>>)
               /\ mreg' = IF named
                            THEN [mreg EXCEPT ![rd] = Apply(tok.type, mreg[r0], mreg[r1])]
                            ELSE IF rd < SPILL THEN [mreg EXCEPT ![rd] = NoTerm]
                            ELSE mreg
               /\ iden' = [iden EXCEPT ![tok.res] = Denotes(tok, iden)]
               /\ li' = li + 1
          ELSE /\ phase' = "aborted"
               /\ UNCHANGED <<regInfo, nReg, asm, mreg, iden, li>>
  /\ UNCHANGED <<toks, funcs, nextId, nodes, stack, heard, src, passVars, lf>>

LowerReturn ==
  /\ Lowering({"RETURN"})
  /\ asm' = Append(asm, <<"ret">>)
  /\ iden' = [iden EXCEPT ![tok.res] = Denotes(tok, iden)]
  /\ li' = li + 1
  /\ UNCHANGED <<optVars, lf, regInfo, nReg, mreg>>

(* Nothing is written for an eliminated token.  IDENTITY has code too, but *)
(* none is left here: NoIdentityLeft.                                      *)
LowerNothing_Stuck ==       \* a slip: the index is not advanced
  /\ Lowering({"NONE"})
  /\ li' = li
  /\ UNCHANGED <<optVars, lf, regInfo, nReg, asm, mreg, iden>>

LowerNothing ==
  /\ Lowering({"NONE"})
  /\ li' = li + 1
  /\ UNCHANGED <<optVars, lf, regInfo, nReg, asm, mreg, iden>>

LowerDone ==
  /\ phase = "lower"
  /\ lf = Len(funcs)
  /\ FunctionLowered
  /\ phase' = "done"
  /\ UNCHANGED <<toks, funcs, nextId, nodes, stack, heard, src, passVars, lowerOnly>>

LowerStep ==
  LowerFunc \/ LowerBinop \/ LowerReturn \/ LowerNothing \/ LowerDone

LowerNext == LowerStep \/ (OptimiseNext /\ UNCHANGED lowerOnly)

LowerSpec == LowerInit /\ [][LowerNext]_lowerVars

(* The compiler is one thread that runs until it exits.                    *)
FairLowerSpec == LowerSpec /\ WF_lowerVars(LowerStep \/ (OptimiseStep /\ UNCHANGED lowerOnly))

-----------------------------------------------------------------------------
(* Properties *)

Registers == 0 .. SPILL - 1

LowerTypeOK ==
  /\ OptimiseTypeOK
  /\ lf \in 0 .. Len(funcs)
  /\ li \in 0 .. (IF lf = 0 THEN 0 ELSE lfunc.len)
  /\ nReg \in Nat /\ nReg >= SPILL
  /\ regInfo \in [0 .. nReg - 1 -> Ids]
  /\ DOMAIN mreg = Registers
  /\ DOMAIN iden = Ids

(* The table tells the truth: a register that it says holds an id does     *)
(* hold the value of that id when the instructions written so far run.  No *)
(* instruction overwrites a register that is still accounted for.          *)
RegistersHoldValues ==
  \A r \in Registers : regInfo[r] # ID_NULL => mreg[r] = iden[regInfo[r]]

(* cc_asm_find_used takes the first register that holds an id; there is    *)
(* never a second.                                                         *)
OneRegisterPerId ==
  \A r, q \in DOMAIN regInfo : regInfo[r] = regInfo[q] /\ r # q => regInfo[r] = ID_NULL

(* A parameter that has no A register.                                     *)
Unpassed(id) == id \in ID_PARAM(NA) .. FirstTemporal - 1

(* Lowering aborts for want of registers only, and always for want of an A *)
(* register: cc_asm_find_used finds every operand but a fifth parameter,   *)
(* for which it takes no other register, and neither assertion fails.      *)
AbortsForWantOnly ==
  [][Lowering(BinOps) =>
       LET unpassed == \E s \in {0, 1} : Unpassed(tok.args[s]) IN
         /\ unpassed => phase' = "aborted"
         /\ phase' = "aborted" => unpassed \/ nReg' > SPILL]_lowerVars

(* The compiler ends on every program: what is emitted is lowered.         *)
CompilerReturns == (phase = "optimise") ~> (phase \in {"done", "aborted"})

-----------------------------------------------------------------------------
(* What the repository says and the code does not do *)

(* The assertion of cc_ssa_is_last_use: a token follows every operation.   *)
TokenFollows ==
  phase = "lower" /\ lf > 0 /\ ~FunctionLowered /\ tok.type \in BinOps
    => li + 1 < lfunc.len
=============================================================================
