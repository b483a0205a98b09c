------------------------------ MODULE XmListing -------------------------------
(***************************************************************************)
(* The tool chain around an assembled program: asm_assemble turns lines    *)
(* into bytes (isa/asm.c), dis_disassemble lists the bytes again           *)
(* (isa/dis.c) and cpu_step chooses what to run by them (isa/sim.c).  The  *)
(* three agree or the listing and the run are of another program.          *)
(***************************************************************************)
EXTENDS XmAsm

VARIABLES
  at,          \* the disassembler's place in the file, from 1
  listing      \* what it has printed

listVars == <<at, listing>>
listingVars == <<asmVars, listVars>>

(* The twin of chtree has chtree's opcode.                                 *)
Distinct(e) == Cb0(e.format) = "integer" /\ e.name # "chtreeunchk"

(* No entry before an integer instruction's has its opcode, nor that with  *)
(* the bit that marks an immediate; the first byte is none of debugging.   *)
ASSUME TableAssumption ==
  \A j \in DOMAIN InstTable :
    Distinct(InstTable[j]) =>
      /\ InstTable[j].op < HighBit
      /\ \A i \in 1 .. j - 1 :
           /\ InstTable[i].op \notin {InstTable[j].op, InstTable[j].op + HighBit}
           /\ Cb0(InstTable[i].format) = "debug" => InstTable[i].op # 0

ListingInit == AsmInit /\ at = 1 /\ listing = << >>

Byte_Zero(k) == IF k <= Len(out) THEN out[k] ELSE 0     \* a slip: EOF is lost

(* fgetc: past the end every byte is EOF.                                  *)
Byte(k) == IF k <= Len(out) THEN out[k] ELSE ByteMod - 1
CodeAt(k) == [j \in 0 .. 3 |-> Byte(k + j)]

(* The operands that dis_print_format prints.                              *)
Printed(e, id) ==
  CASE e.format = "R4R4I8O8_IFHBS" /\ id[3] >= HighBit ->
         <<Lo(id[1]), Hi(id[1]), SignedIn(id[2], ByteMod)>>
    [] e.format = "R4U4RA8O8" -> <<Lo(id[1]), SignedIn(id[2], ByteMod), Hi(id[1])>>
    [] e.format = "U16O8" -> << >>
    [] \/ e.format = "R4R4I8O8_IFHBS" /\ id[3] < HighBit
       \/ e.format \in {"R4R4R4R4", "F4F4F4F4"} ->
         <<Lo(id[1]), Hi(id[1]), Lo(id[2]), Hi(id[2])>>
    [] OTHER -> <<"invalid">>

(* The end of the file, or a byte that looks like it.                      *)
ListEnd ==
  /\ phase = "listing"
  /\ Byte(at) = ByteMod - 1
  /\ phase' = "listed"
  /\ UNCHANGED <<source, out, pc, labels, fixups, fixing, reported, listVars>>

ListInteger_Byte ==       \* a slip: the opcode is left unread
  /\ phase = "listing"
  /\ Byte(at) # ByteMod - 1
  /\ Lo(Byte(at)) = 0
  /\ LET id == CodeAt(at) e == Listed(id[3]) IN
       listing' = IF e = NoInst THEN listing
                  ELSE Append(listing, [name |-> e.name, args |-> Printed(e, id)])
  /\ at' = at + 3
  /\ UNCHANGED asmVars

ListInteger ==
  /\ phase = "listing"
  /\ Byte(at) # ByteMod - 1
  /\ Lo(Byte(at)) = 0
  /\ LET id == CodeAt(at) e == Listed(id[3]) IN
       listing' = IF e = NoInst THEN listing
                  ELSE Append(listing, [name |-> e.name, args |-> Printed(e, id)])
  /\ at' = at + 4
  /\ UNCHANGED asmVars

ListOther_Stuck ==       \* a slip: the control byte is put back
  /\ phase = "listing"
  /\ Lo(Byte(at)) \in {1, 3, 4}
  /\ UNCHANGED listingVars

(* XM_CB_FLOAT, XM_CB_VECTOR and XM_CB_TILE: only the control byte is read. *)
ListOther ==
  /\ phase = "listing"
  /\ Byte(at) # ByteMod - 1
  /\ Lo(Byte(at)) \in {1, 3, 4}
  /\ at' = at + 1
  /\ UNCHANGED <<asmVars, listing>>

ListAbort ==
  /\ phase = "listing"
  /\ Byte(at) # ByteMod - 1
  /\ Lo(Byte(at)) \notin {0, 1, 3, 4}
  /\ phase' = "aborted"
  /\ UNCHANGED <<source, out, pc, labels, fixups, fixing, reported, listVars>>

ListTurn == ListEnd \/ ListInteger \/ ListOther \/ ListAbort

ListingNext ==
  \/ AsmNext /\ UNCHANGED listVars
  \/ ListTurn

ListingSpec == ListingInit /\ [][ListingNext]_listingVars

(* Neither the assembler's second loop nor the disassembler's is ever left *)
(* waiting.                                                                *)
FairListingSpec ==
  ListingSpec /\ WF_listingVars(FixupTurn /\ UNCHANGED listVars) /\ WF_listingVars(ListTurn)

-----------------------------------------------------------------------------
(* Properties *)

ListingTypeOK ==
  /\ source \in Seq(Lines)
  /\ out \in Seq(Bytes) /\ pc \in Nat
  /\ labels \in Seq([name : {l.name : l \in {source[k] : k \in {j \in DOMAIN source : source[j].kind = "label"}}}, pc : 0 .. pc])
  /\ fixups \in Seq([name : {source[k].operands.label : k \in {j \in DOMAIN source : source[j].kind = "inst"}},
                     pc : 0 .. pc, offset : 0 .. Len(out)])
  /\ fixing \in 1 .. Len(fixups) + 1 /\ reported \subseteq DOMAIN fixups
  /\ at \in 1 .. Len(out) + 4 /\ Len(listing) <= Len(source) * 4
  /\ phase \in {"assembling", "fixing", "unlabelled", "listing", "listed", "aborted"}

Plain(l) == Distinct(l.entry)

(* What line k says, with the widths of the fields.                        *)
Said(k) ==
  LET l == source[k]
      o == l.operands
      reg(x) == x % NReg
      distance == IF BranchesToLabel(l) THEN LabelPlace(o.label) - PlaceOf(k) ELSE o.b
      byte == SignedIn(distance % ByteMod, ByteMod)
  IN CASE l.entry.format = "R4R4I8O8_IFHBS" /\ o.imm -> <<reg(o.d), reg(o.a), byte>>
       [] l.entry.format = "R4U4RA8O8" -> <<reg(o.d), byte, reg(o.c)>>
       [] l.entry.format = "U16O8" -> << >>
       [] OTHER -> <<reg(o.d), reg(o.a), reg(o.b), reg(o.c)>>

(* When the file is written, the instruction at the place of a line that   *)
(* was emitted is the one that the simulator runs for it: no entry earlier *)
(* in the table takes it.                                                  *)
RunsWhatIsWritten ==
  phase = "listing" /\ at = 1 =>
    \A k \in Emitted :
      Plain(source[k]) => Dispatch(CodeAt(PlaceOf(k) + 1)).name = source[k].entry.name

(* A file of integer instructions is listed as it was written, line for    *)
(* line, with the distances to the labels that its branches name, and the  *)
(* disassembler comes to its end.                                          *)
ListsWhatIsWritten ==
  phase \in {"listed", "aborted"} /\ (\A k \in Emitted : Plain(source[k])) =>
    /\ phase = "listed"
    /\ Len(listing) = Cardinality(Emitted)
    /\ \A k \in Emitted :
         listing[Rank(k) + 1] = [name |-> source[k].entry.name, args |-> Said(k)]

(* Once the lines are read the assembler writes its file or gives up, and  *)
(* whatever the bytes are, the disassembler stops.                         *)
ListingEnds == phase = "fixing" ~> phase \in {"unlabelled", "listed", "aborted"}

-----------------------------------------------------------------------------
(* What isa/README.md says and the code does not do *)

(* "fadd3 $fD,$fA,$fB,$fC: Computes $fD = ($fA + $fB) + $fC", and so on:   *)
(* every float instruction that is assembled runs as what it is.           *)
FloatsRun ==
  \A k \in Emitted :
    Cb0(source[k].entry.format) = "float" =>
      Dispatch(CodeAt(PlaceOf(k) + 1)).name = source[k].entry.name
===============================================================================
