------------------------------- MODULE XmAsm ----------------------------------
(***************************************************************************)
(* The assembler (isa/asm.c): one pass over the lines that appends bytes,  *)
(* notes where each label stands and leaves a fixup for each branch to a   *)
(* label; then one fixup after the other, which writes the distance; then  *)
(* the file.                                                               *)
(*                                                                         *)
(* A line is an instruction, [kind |-> "inst", entry, operands], whose     *)
(* operands have a label, or NoLabel, in the place of the number b; or a   *)
(* label, [kind |-> "label", name], and what else stands on its line is    *)
(* dropped.  Blank and commented lines change nothing and are left out.    *)
(* An instruction with an unknown mnemonic has the entry NoInst.           *)
(***************************************************************************)
EXTENDS XmIsa

CONSTANTS
  NextLines(_),     \* bound: the lines a program may go on with
  NoLabel

VARIABLES
  source,      \* the lines assembled so far
  out,         \* state->out, one byte after the other; its length is out_len
  pc,          \* state->pc
  labels,      \* state->labels: [name, pc]
  fixups,      \* state->fixups: [name, pc, offset]
  fixing,      \* asm_fixup's place in them, from 1
  reported,    \* the fixups that were reported to be out of range
  phase        \* "assembling", "fixing", "unlabelled" (aborted) or, when the
               \* file is written, "listing" and what follows it

asmVars == <<source, out, pc, labels, fixups, fixing, reported, phase>>

AsmInit ==
  /\ source = << >>
  /\ out = << >> /\ pc = 0
  /\ labels = << >> /\ fixups = << >>
  /\ fixing = 1 /\ reported = {}
  /\ phase = "assembling"

BranchesToLabel(l) ==
  l.kind = "inst" /\ l.entry.format = "R4U4RA8O8" /\ l.operands.label # NoLabel

LineBytes(l) == IF l.kind = "inst" THEN Encode(l.entry, l.operands) ELSE << >>

(* asm_process_line with an instruction, and asm_firstpass.                *)
AssembleInst(l) ==
  /\ phase = "assembling" /\ l.kind = "inst"
  /\ source' = Append(source, l)
  /\ out' = out \o LineBytes(l)
  /\ pc' = pc + Len(LineBytes(l))
  /\ fixups' = IF BranchesToLabel(l)
               THEN Append(fixups, [name |-> l.operands.label, pc |-> pc, offset |-> Len(out)])
               ELSE fixups
  /\ UNCHANGED <<labels, fixing, reported, phase>>

(* asm_process_line with a label.                                          *)
AssembleLabel(l) ==
  /\ phase = "assembling" /\ l.kind = "label"
  /\ source' = Append(source, l)
  /\ labels' = Append(labels, [name |-> l.name, pc |-> pc])
  /\ UNCHANGED <<out, pc, fixups, fixing, reported, phase>>

AssembleEnd ==
  /\ phase = "assembling"
  /\ phase' = "fixing"
  /\ UNCHANGED <<source, out, pc, labels, fixups, fixing, reported>>

Found(name) == {i \in DOMAIN labels : labels[i].name = name}

(* asm_find_label: the first of that name.                                 *)
find_label(name) == labels[Min(Found(name))]

(* It has none: abort().                                                   *)
FixupUnlabelled ==
  /\ phase = "fixing" /\ fixing <= Len(fixups)
  /\ Found(fixups[fixing].name) = {}
  /\ phase' = "unlabelled"
  /\ UNCHANGED <<source, out, pc, labels, fixups, fixing, reported>>

InRange_Wide(rela) == rela >= -HighBit /\ rela <= HighBit      \* a slip: one too many

InRange(rela) == rela >= -HighBit /\ rela < HighBit

(* A turn of asm_fixup: a distance that does not fit is reported, and its  *)
(* low byte written like any other.                                        *)
Fixup ==
  /\ phase = "fixing" /\ fixing <= Len(fixups)
  /\ LET f == fixups[fixing] IN
       /\ Found(f.name) # {}
       /\ LET rela == find_label(f.name).pc - f.pc IN
            /\ reported' = IF InRange(rela) THEN reported ELSE reported \cup {fixing}
            /\ out' = [out EXCEPT ![f.offset + 3] = rela % ByteMod]
  /\ fixing' = fixing + 1
  /\ UNCHANGED <<source, pc, labels, fixups, phase>>

(* asm_finish *)
FixupEnd ==
  /\ phase = "fixing" /\ fixing > Len(fixups)
  /\ phase' = "listing"
  /\ UNCHANGED <<source, out, pc, labels, fixups, fixing, reported>>

FixupTurn == FixupUnlabelled \/ Fixup \/ FixupEnd

AsmNext ==
  \/ \E l \in NextLines(source) : AssembleInst(l) \/ AssembleLabel(l)
  \/ AssembleEnd
  \/ FixupTurn

-----------------------------------------------------------------------------
(* Properties *)

(* What the lines of a source are: of a table's entry, or of none, and a   *)
(* label.                                                                  *)
Lines ==
  [kind : {"inst"}, entry : {InstTable[k] : k \in DOMAIN InstTable} \cup {NoInst},
   operands : [d : Nat, a : Nat, b : Int, c : Nat, imm : BOOLEAN, label : STRING \cup {NoLabel}]]
  \cup [kind : {"label"}, name : STRING]

(* The lines that are emitted: labels are not, nor jumps, conversions,     *)
(* halt and what the assembler does not know.  A line is at four bytes for *)
(* each line emitted before it.                                            *)
Emitted == {k \in DOMAIN source : LineBytes(source[k]) # << >>}
Rank(k) == Cardinality({j \in Emitted : j < k})
PlaceOf(k) == 4 * Rank(k)

Labelled(name) == {k \in DOMAIN source : source[k].kind = "label" /\ source[k].name = name}
LabelPlace(name) == PlaceOf(Min(Labelled(name)))

(* When the file is written, a branch to a label that the simulator takes  *)
(* goes to the first place that has the label's name, forwards or          *)
(* backwards, whatever was left out in between, or else the assembler has  *)
(* reported it: just one of the two.                                       *)
BranchesLand ==
  phase = "listing" =>
    \A k \in Emitted :
      BranchesToLabel(source[k]) /\ source[k].entry.name # "call" =>
        LET lands == PlaceOf(k) + SignedIn(out[PlaceOf(k) + 3], ByteMod)
                       = LabelPlace(source[k].operands.label)
            told == \E i \in reported : fixups[i].pc = PlaceOf(k)
        IN lands <=> ~told
===============================================================================
