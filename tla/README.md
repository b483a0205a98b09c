# A TLA+ model of EstrOS' compiler and instruction-set simulator

EstrOS is two programs' worth of C: `cc/`, a small C compiler that lowers
functions to the assembly of its own instruction set, and `isa/`, the assembler,
disassembler and simulator of that instruction set. Everything is sequential:
one thread per program, no signals, nothing persisted but the output file. What
is hard in it is order: the order in which a recursion pushes tokens, in which a
pass renames what it has still to look at, in which an allocator takes and
releases registers, in which a copy reads what it has written, in which a table
of overlapping entries is searched.

## Inventory

### The compiler (`cc/`)

`main.c` runs the phases once, in this order, on one `cc_state_t`: tokenize,
parse, emit SSA, optimise, lower. Each appends to or rewrites arrays of that
state; nothing goes back. Any `abort()` or failed assertion ends the program.

| component | state | operations | what makes it correct |
|---|---|---|---|
| lexer (`lexer.c`) | `tokens`, the place in the text | `cc_tokenize` | tokens cover the text; the longest operator is taken, a keyword only when it is the whole name; it ends |
| parser (`parser.c`) | `cur_tok`, the tree | one function per grammar rule, recursive, with retries | every accepted tree is the source's; a rule that fails leaves no trace; nodes are popped in the order they were pushed; it ends |
| tree arena (`ast.c`) | `nodes`, a stack | push, pop (asserts it is the last), copy, coalesce a block of one | the arena stays a stack; coalescing changes no reading |
| emitter (`ssa.c`) | `ssa_tokens`, `ssa_funcs`, an id counter | `cc_ssa_from_ast`, its recursion | windows tile the array; ids are single-assignment and defined before use; tokens mean what their nodes mean |
| optimiser (`ssa.c`) | the same tokens, two loop indices | identity pass, reused pass, `cc_ssa_replace_with` | no operand is orphaned, meanings are kept, one walk is enough, it ends |
| lowering (`asm.c`) | `reg_info`, the text | find a free or the used register, allocate, free, lower a token | the table agrees with what the instructions leave in the registers |

The emitter's output is the optimiser's input, and the lowering relies on facts
about both that no code checks: that no IDENTITY is left, that a RETURN follows
every operation (an assertion of `cc_ssa_is_last_use`), that each operand is in
exactly one register (`cc_asm_find_used` takes the first and aborts on none).

### The instruction set (`isa/`)

| component | state | operations | what makes it correct |
|---|---|---|---|
| table (`isa.h`) | a constant list of name, format, opcode | searched by name, by opcode, by opcode and format | the three searches agree |
| assembler (`asm.c`) | `out`, `labels`, `fixups`, `pc` | a line, a label, a fixup | the bytes say what the line says; a branch lands on its label or is reported |
| disassembler (`dis.c`) | the place in the file | one instruction per turn | it lists what was assembled, and stops |
| simulator memory (`sim.c`) | `rom`, `ram`, `trap_page` | translate, read and write 8, 16, 32 | reads and writes agree on layout |
| block instructions (`sim.c`) | the memory and a loop | copies, searches, string copies, pointer chases | each is its one-step description; loops end |
| CPU (`sim.c`) | `pc`, `flags`, `r`, `f`, `ticks` | `cpu_step`, `main`'s loop | flags, targets and ticks; the loop ends |
| floating point (`sim.c`) | `f` | 59 instructions, of which the dispatcher reaches 19 | they leave the integer registers and the flags alone |

The compiler's text is the assembler's input. The assembler writes a file, the
disassembler and the simulator read it: they share nothing but the table and the
encoding, and with the compiler nothing but the names of registers and
mnemonics. Inside the simulator the CPU calls the memory, and a block
instruction calls it once or twice per turn.

### Hard behaviours

The full list, each with its line and the properties aimed at it, is `hazards`
in `PROJECT.json`. In short: operators that are prefixes of each other and names
that begin with a keyword; rules that fail after they have pushed nodes;
branches to labels not seen yet, defined twice, never or too far away; 12-bit
ids and 8-bit lengths that wrap; tokens pushed inside the initialiser of another
token; renaming in tokens that a walk has passed already or has still to reach;
register tables that survive a function; operands released before they are dead;
registers running out; overlapping, wrapping and unmapped areas under a copy;
loops whose end depends on what they write; table entries that shadow each
other; a disassembler that loses its place; flags that an instruction must not
leave a trace in; a jump on which nothing ticks.

## Modules

| module | models | built on |
|---|---|---|
| `CcLexer` | `cc_tokenize`, one token per step | |
| `CcParser` | the recursive descent and its arena of nodes | |
| `CcFront` | the driver's first two phases, one after the other | `CcLexer`, `CcParser` |
| `CcSsa` | tokens, ids, windows, replace and last-use (`ssa.h`, `ssa.c`) | |
| `CcEmit` | the emitter | `CcSsa` |
| `CcOptimise` | the optimiser after it | `CcEmit` |
| `CcLower` | allocation and lowering after that: the whole back end | `CcOptimise` |
| `CcFrontProofs` | theorems about `CcLexer` and `CcParser` in `CcFront` | `CcFront` |
| `CcTreeProofs` | lemmas about the tree that expressions and statements build | `CcFrontProofs` |
| `CcSourceProofs` | lemmas about declarations, theorems about the tree of the whole source | `CcTreeProofs` |
| `CcEmitProofs` | theorems about `CcEmit` | `CcEmit` |
| `CcLowerProofs` | theorems about `CcOptimise` and `CcLower` | `CcLower`, `CcEmitProofs` |
| `XmWord` | words, the integer helpers | |
| `XmMemory` | address map and accesses | `XmWord` |
| `XmBlock` | the block instructions, turn by turn | `XmMemory` |
| `XmBlockSpec` | what they promise, as single steps (abstract) | `XmMemory` |
| `XmIsa` | table, encoder, matcher, lookup | `XmWord` |
| `XmAsm` | the assembler: lines, labels, fixups | `XmIsa` |
| `XmListing` | disassembler and dispatch of what was assembled | `XmAsm` |
| `XmCpu` | the CPU with its memory and block instructions | `XmIsa`, `XmBlock` |
| `XmWordProofs` | lemmas about the operators of `XmWord` | `XmWord` |
| `XmCpuProofs` | theorems about `XmMemory`, `XmBlock` and `XmCpu` | `XmCpu`, `XmWordProofs` |
| `XmListingProofs` | theorems about `XmAsm` and `XmListing` | `XmListing`, `XmWordProofs` |
| `CcToXm` | compiled text, assembled and run on the simulator | `CcLower`, instances of `XmAsm` and `XmCpu` |

`MC*` modules hold the small instances' tables, programs and precedences;
`MCCcFront` instantiates the front end, `MCCcLower` the whole back end,
`MCCcOptimise` its first two phases, `MCCcToXm` all from the tree to the registers. A
definition whose comment begins "a slip" is not used by any specification: it is
the form that the definition after it would have with a plausible mistake, kept
to show that a property notices it (`mutants` in `PROJECT.json`).

### How state and actions correspond to the code

*Lexing.* A step is a turn of `cc_tokenize`'s loop: skip blanks, take the first
entry of `TOKEN_LIST` that matches, else a number, else a name. The text is a
sequence of characters out of which letters, digits and blanks are a few each; a
byte beyond ASCII is `Wide`.

*Parsing.* `stack` is the C stack: a frame has the function, the place in it, the
block it fills (`expr`), and the nodes it has pushed and may have to pop
(`made`); `ret` is what the last call returned. Each action is the code between
two calls. A token is its type, a name or a number is told by its place. The
tokens are not chosen beforehand: `Reveal` shows the next one when the parser
looks at it, and behaviours part only there. `Undo` is a rule's failure: it pops
what was pushed, and where the order of the pops is not the reverse of that of
the pushes the program dies (`PopsInOrder`). `kept` remembers up to where the
source has gone into the tree, because the parser ends silently at the first
declaration it cannot read.

*Emission.* The tree is not a value of the model. Each step of the recursion
chooses what node it meets next, among those the grammar allows there
(`Allowed`: one rule per operator, operands from the rules below, no
parentheses), so that every tree within the bound is one behaviour. `stack` is
the C stack: one frame per activation, with the id drawn on entry and what its
children returned. `Enter` is the entry of a call; `RefVar`, `Tokenless` and
`RefUnknown` are leaves; `Finish*` are the `case`s after the children returned.
`toks`, `funcs` and `nextId` are `ssa_tokens`, `ssa_funcs` and `emit.arg.id`.
What a program computes is symbolic: `src` records, as a term over the
parameters, what the node that drew an id stands for.

*Optimisation.* `oi` and `oj` are the loop variables, `fn` the function; each
action is one turn of a loop with its body. *Lowering.* One step is one token;
`LowerBinop` is `cc_asm_generic_binop` with everything it calls, in its order:
allocate, look up, write, test and free, test and free. `mreg` executes each
instruction, symbolically, as it is written; `iden` does the same for the tokens.
Reading the name of a virtual register past the end of `asm_regname` is
undefined: the model lets the compiler die or go on, and the instruction then
names no register.

*Memory.* A cell is a region and an offset; every byte of a wider access is
translated by itself, as in the code. *Blocks.* `blk` is the running instruction
with its captured operands, loop counter and result; one action is one turn.
*CPU.* `Instruction` is `cpu_step`: fetch four bytes, take the first entry that
matches, run it, and decide in `After` what `main`'s loop does next. A block
instruction takes several steps, in status `"block"`. A division by zero and the
five unwritten instructions crash. An opcode that nothing matches leaves
`cpu_step` without a value: both values are possible. Fetching and block
operations share the memory, so programs that overwrite themselves are included.
A float register holds the bits of its value. Each of the nineteen float
instructions that no integer one takes first reads three of them and writes one
(`Float`, `FloatsAfter`); what it computes is the host's IEEE arithmetic and a
parameter (`FloatResult`). The bits matter because `call` reads them: the byte
that it takes for a register's number goes past the sixteenth into `f`
(`CallBase`). `ExecutedAssumption` says that the model has a step for whatever
bytes are fetched; TLC evaluates it on the real table.

*Tool chain.* `XmAsm` appends a line's bytes, notes its label or its fixup
(`AssembleInst`, `AssembleLabel`), then writes one distance per step (`Fixup`).
Its properties speak of the lines themselves: `Emitted` are those that have
bytes, `Rank` counts the ones before a line and `PlaceOf` is where its bytes are.
`XmListing` runs the disassembler on the bytes; `Dispatch` is applied to the same.

*From the tree to the registers.* `CcToXm` lets the compiler of `CcLower` finish,
gives the lines it wrote to `XmAsm` and the bytes to `XmCpu`. What nobody
writes for the program stands here: one branch in front, to one of the functions
(`AssembleEntry`, by hand), arguments in the A registers and the start of the rom
in `$ra` (`Load`, options of the simulator). A `ret` therefore begins all over,
with what the first run left in the registers. The `.section` lines of the
compiler, for which the assembler has no bytes, are left out.

## Runs, bounds and what they show

Passing runs:

| run | instance | shows |
|---|---|---|
| `front` | texts of up to 4 pieces that are cut wrongly most easily, three whole functions as texts, sources of up to 11 tokens; two of the sixteen operator rules | tokens are the text; the tree is the source, and of the emitter's shapes; a failed rule leaves no trace; the arena's assertion fails in declarations only; the front end ends |
| `program` | 2 functions of at most 8 nodes (two operators, a comparison, what is unknown, empty or no function), 2 parameters, 2 usable T registers, assembled and run with 24-bit words for 10 ticks | windows tile; a pass stays in its window; nothing stale between functions; at its `ret` a function has computed the source's expression, unless the reused pass merged what is not equal |
| `compile` | 1 function of at most 9 nodes (two operators, literals, conditionals, blocks of returns, 2 parameters and 1 A register), 2 usable T registers | single assignment, definition before use, meaning; no orphans, copy propagation sound, one walk enough; the register table tells the truth, one register per id, aborts only for want of a register, termination |
| `block` | 1-bit bytes, 16 addresses, 9 instructions, 7 operand values each | frames, where searches stop, refinement of `XmBlockSpec`, termination |
| `listing` | real widths; 2 lines, each any of the 120-odd entries of the real table with both operand forms; 5 lines of branches and labels; up to 35 lines around the longest distance | encoder, matcher and lookup agree on integer instructions, listing equals source; a branch lands or is reported; assembler and disassembler stop |
| `cpu_data` | 6-bit bytes, 24-bit words, 8 registers, up to 3 of 11 lines and one of each instruction, floats included | flags, byte order, the way to the filler |
| `cpu_control` | the same widths, up to 3 of 12 lines, and up to 3 of 7 that call through float registers | ranges, ticks; the simulator's loop ends wherever the program jumps |

Why the bounds are enough. No operator has more than three characters, so three
pieces out of the signs hold every way in which two can be confused; four
letters hold each way in which a keyword can begin, end or be inside a name.
Eleven tokens are a function with a parameter that returns it, or one that
returns an operation of operations or a conditional, and what can be wrong after
each of their tokens; two
operators are a rule on the innermost operand and a rule on a rule, which is all
that the sixteen copies of one macro are to each other. A pass of the compiler
compares or renames pairs of tokens and an instruction has three registers; nine
nodes hold three operations over shared operands in one expression, or two
returns of operations, which is every way two tokens can be related, and two T
registers run out in them. Eight nodes are the fewest in which two operations of
one operator meet in one expression: with two parameters the reused pass merges
`a * a - a * a`, which changes nothing, and `a * a - a * b`, which does
(`StillMeant`). Two functions suffice for what one leaves behind. A block
instruction meets, with seven operands at the edges of a three-byte rom and a
four-byte ram in sixteen, areas that are apart, overlap either way, coincide,
cross a region's end, wrap to address 0 and alias in the trap page, and searches
for either value of a byte and for registers that hold more than a byte. The real
table needs the real widths and has them; the CPU needs words that a sum
overflows and a byte with a sign and a high bit, and six bits give it room for
an excerpt of the opcodes. `MaxTicks` is 6, more than the lines of any program
and less than its loops turn; in `program` it is 10, which is enough for each
function to return and run a second time. Thirty-two instructions are the
longest distance that a signed byte has.

`MaxFuncs`, `MaxNodes`, `MaxRuns`, `MaxTokens`, `Texts`, `NextTokens`,
`NextLines` and `Arguments` are bounds of the model; the code has `max_ticks`
itself. `CHECK_DEADLOCK FALSE` stands everywhere because every one of these
programs exits.

Violation runs: each checks one sentence that the repository says of itself and
shows a run of the code in which it does not hold. `findings` in
`PROJECT.json` quotes the sentences.

| run | the sentence | what happens |
|---|---|---|
| `redundant` | the reused pass removes redundant results (`cc/ssa.c:321`) | operations that differ in the second operand are merged |
| `wrap` | a token follows (assertion, `cc/ssa.c:136`) | an 8-bit length wraps |
| `move` | memmov copies (`isa/README.md:132`) | offsets 1 to c, and the wrong direction |
| `order` | nodes are popped in order (comment, `cc/parser.c:372`; assertion, `cc/ast.c:112`) | `f (` followed by no specifier pops the older node first: a function without parameters is never compiled |
| `floats` | fadd3 adds floats (`isa/README.md:232`) | add runs |

Modelling met more places where a sentence of the repository and the code
differ. The modules follow the code in each; none has a run of its own.

- `cc/asm.c:90` says integers live in T0 to T7; the loop at line 91 stops before
  T7, which is never used.
- `isa/README.md:6` and `isa/isa.h` say that a0 holds the return value; a RETURN
  is lowered to a bare `ret` (`cc/asm.c:190`).
- `cc_asm_is_fixed_reg` joins its two comparisons by `||` (`cc/asm.c:85`) and
  holds of every register: `cc_asm_regfree` releases none.
- A literal emits no token and has the null id, for which `cc_asm_find_used`
  finds the first free entry, the float register `$f0`; the assembler asserts
  general registers (`isa/asm.c:156`).
- `isa/README.md:141` says that a search is for `u8($rB)` and gives the address
  where the byte was found; it compares with the whole register rather than with
  its low byte, stops at the first byte that is equal, and gives the address where
  it started (`isa/sim.c:841-852`). `SearchStopsAtFirst` says so.
- memmov between areas with `$rA <= $rB` copies neither what `isa/README.md:132`
  says nor any other area (the run `move`). `XmBlockSpec` promises of it only that
  nothing beyond the first c + 1 bytes of the target is written, which is less
  than the sentence there. For `$rA > $rB` it promises the copy, where the areas are
  apart.
- `chtreeunchk` has `chtree`'s opcode and comes after it in the table
  (`isa/isa.h:155`): it is never run.
- `isa/README.md:201` says that `call` stores the address after it; the address
  after the target is stored (`isa/sim.c:960-961`).
- Stores put the low byte first, loads take the first for the high one
  (`isa/sim.c:85-101`): `LoadSwaps` says what comes of it.
- `clz` and `clo` count from bit 0 (`isa/sim.c:129-148`).
- A declaration that cannot be read ends the translation unit without a word
  (`cc/parser.c:575`); what follows it is not compiled.
- A function prototype with parameters fails the arena's assertion: the
  parameters' nodes are above those that are popped. `int x { return 1; }` is
  accepted by the parser, and the emitter aborts (`cc/ssa.c:274-276`).
- The types' flags are consecutive numbers (`cc/ast.h:62-76`) and are combined
  by `|=`: `short int` has the flags of `float`. `long long` tests another
  member of the union than the one that was set (`cc/parser.c:502`).
- A binary operator's rule takes one operator and the rule below it on each
  side: `a + b + c` aborts.
- A comment of the lexer has `int_thing` for one name (`cc/lexer.c:37`); an
  underscore ends a name (`cc/lexer.c:56`), and it is read as two. The length of
  a UTF-8 character is taken from a signed byte and is four for all of them
  (`cc/lexer.c:19`), and a NUL is neither a blank nor a token, so that the lexer
  stays at it for ever.
- The comment at `isa/asm.c:89` says that the condition `g` is `!(C | Z)`; its
  bits mean `!(C & Z)` to the simulator (`isa/sim.c:994-997`), and `ge` has the
  same bits.
- A label in an operand keeps the blank after the comma before it, and is then
  no label that was defined.
- `isa/isa.h:274` says that a return value is in `$r8`; a compiled function leaves
  it in the register of its last operation, and nothing moves it.
  `CompiledComputes` looks in the register of the operation: that it holds is no
  statement about `$r8`.

### Fairness

Each program is one thread that never waits for input or for another thread, so
its next step is always taken: weak fairness of the front end's next step
(`FrontSpec`), of the compiler's passes after emission (`FairLowerSpec`), of a
loop's turns (`FairBlockSpec`; `FairListingSpec` for the assembler's second loop
and the disassembler's) and of the simulator's step (`FairSpec`). Nothing
obliges the source to have another function or another line, so the steps that
choose input are not fair; only the parser's looking at its next token is, which
is a read and not an input (`Reveal` may always find the end). Termination of
the emitter's recursion is that of the tree, which is finite; it is not stated.

## Proofs

TLC shows the properties on the instances above; the theorems show them for all
values of the constants. No theorem is about an instance: the proof modules
extend the same modules that the runs check.

What they assume of the constants is the named `ASSUME`s next to the
declarations, which TLC evaluates in the runs, and two hypotheses that a theorem
names itself:

- `NodesFit` (`CcEmit`): a function has fewer nodes than the ids and the window's
  length can count. It is the programmer's assumption, not the code's: nothing
  checks it, and the run `wrap` shows what happens without it. The emitter's
  `EmitTypeCorrect` holds without it.
- `LinesGiven` (`XmListingProofs`): `NextLines` gives lines, that is labels, or
  entries of the table with operands in range.

Of the assumptions, these say something about the program: `OpsAssumption` (no
operator is listed twice, and none is called as another kind of node is),
`SpecifiersAssumption` (the end of the source is no specifier),
`FirstTemporalAssumption` (the ids of the parameters come before those that are
drawn, which start at 32: a function has at most 30 parameters; nothing in the code
checks it), `PassedAssumption` (the ids of the parameters that have an A register come before those that are
drawn: 6 and 32 in `asm.c` and `ssa.h`), `MapAssumption` (rom and ram are apart and
not empty, and the trap page divides the address space), `HighBitAssumption` and
`OpcodeAssumption` (the bit that marks an immediate is the highest of a byte, and
no opcode of that format has it), `TableAssumption` (no entry of the table comes
before an integer instruction that it would take; `chtreeunchk` is the exception),
`ExecutedAssumption` (whatever is fetched runs as one of the instructions that have
a step; the runs with the real table evaluate it there), `FloatAssumption` (a float's
bits are a word, zero's bits are 0, and arithmetic makes floats of floats) and
`FillerAssumption` (the bytes of an empty rom run as `halt`).

### The compiler

`CcFrontProofs`, first part: the lexer, for any keywords and text. The end of a name, of
a number and of blanks is a recursive function of the model, which the provers
can neither unfold to the end nor do induction over. So `Runs` says what such a
function is (from a place that goes on it goes on with the step, elsewhere it
stays), and `RunsExists` and `RunsTo` prove, with the greatest counterexample below
the text's end, that there is one and that it ends at the first place that does not
go on. `LexerInv` says of each step what has been cut off so far: the tokens lie
one behind the other, each in one piece (`Whole`), and cover what is no blank
before the place reached; and a place reached is never in the middle of a wide
character (`Aligned`), because all of its bytes are skipped at once. That an entry
is the longest is the list's order: the operators are sorted by length
(`OperatorLengths`) and all keywords are letters, so that no operator begins where
one stands. `TokensAreTheText` (`TokensAreText`) follows.

`CcFrontProofs`, second part: the parser, for any operators, specifiers and source.
That a rule fails cleanly depends on who called it and on what its callees left,
so `FrontInv` is a statement about the whole stack of activations: about each one
(`FrameOK`), about a caller and its callee (`Calls`, `DeclCalls`), about any two of
them (`Over`), and about what the innermost has just been told (`Told`, `DeclTold`).
The nodes that an activation made are the last ones of the arena, in the order of
the pops, wherever it may still fail (`InOrder`); its callee begins at its own
first token, right behind those nodes. An expression fails exactly if its first
token is no name and no number (`Starts`), so an activation that tries again, or
tries another rule, gets the same answer (`Looked`); that is why the pushes of a rule
that got past its first operand are never undone. The block that a rule is to
fill stays empty until the call that fills it returns (`Blank`): two activations
share a block only where one hands its own on (`Passing`). For declarations it
records which token an activation was called behind (`Placed`), and that only
parameters leave nodes which the outermost rule does not undo. The four lemmas
`Returned`, `Called`, `Continued` and `UndoRight` say once what a step of each kind
keeps; every action is then an instance of one of them.
`FailuresLeaveNoTrace` (`FailureLeavesNoTrace`), `OnlyDeclarationsAssert`
(`AssertsOnlyInDeclarations`) and `NothingIsAssigned` (an assignment's left side is
never found, so the model's end there hides nothing) follow.

`CcTreeProofs` and `CcSourceProofs` are about the arena of nodes, and rest on
`FrontInv`. A rule links nodes that it may pop again, and a later push takes the
place of what was popped; and `cc_ast_coalesce_blocks` replaces every reference, in
a loop without a bound. `FrontTypeOK` and `ShapesForEmitter` say that
neither goes wrong, for any source. What is kept until the references are replaced:

- `ArenaOK`, of every node: its children are in the arena and none is the
  translation unit (`Formed`); an operator, a statement or a variable has its own blocks,
  which were pushed before it (`BranchOK`); and what a block lists is complete and
  was pushed after the block, with all its parts (`ListOK`). So references go
  down from a branch to its blocks and up from a block to its
  list, and yet never in a circle: `Rank` counts a branch just before the oldest of
  its parts.
- `Tree`, of the stack: what each activation knows of the nodes that it made
  (`OfTree`), in particular that no other node refers to them as long as it may
  pop them (`Private`); that what runs inside of it does not touch them (`Inside`),
  and which block it asked to be filled and by whom (`Asks`); and what it finds in the
  block when the answer is true (`Filled`).

Each action keeps both (`TreeKept`): a push, a block that is filled, a child that is
given to a list, an undoing; `CcTreeProofs` goes through the expressions and
statements, `CcSourceProofs` through the declarations. They make `SourceInvariant`
as long as the parser runs; then comes the end. A block of one child lies in at
most one other such block, because an operand's block has a value and a branch's
expression has a value or a conditional (`Short`); so a reference is
replaced in two steps at most (`Co`), and `Coalesced`, which is a recursive function, is
that (`Joins`: any function that satisfies its equation). What is below a node
(`Below`) is what can be reached, by `Rank` again. `Good` is the shape of a node after the
replacing, and it holds of all that is below a variable's body. In the end
`Finished` keeps the arena from before as a witness. `FrontTypeCorrect` and
`EmitterIsGivenShapes` follow.

`CcEmitProofs`. `EmitTypeCorrect` is inductive as it stands. `EmitWindowsTile`,
`EmitAssignsOnce` and `EmitDefinesBeforeUse` are not: `EmitInv` joins them with
what they rest on. The windows lie inside the array; there is no token before the
first function (`NoStray`); and `IdsFresh` says of the function being emitted that
every id that is recorded anywhere, in a token or in a frame of the recursion, was
drawn before the counter's value, that a frame's own id is in no token yet, that
frames differ in their ids, and that what a child returned is null or the result
of a token that is already there. `PushStep` shows that pushing a token that
satisfies this keeps the invariant, `QuietStep` that a step which pushes none
does, and `EmitInvStep` goes through the actions. `EmitMeansTheSource`
(`EmitTranslates`) adds `MeaningInv`: what a frame's children are recorded to mean
is what their ids mean in the current function (`HeardMatches`), each function
has its own record of meanings (`SourcesMatch`), and every token denotes what its
node stands for (`AllTranslate`). A meaning that is given once is never changed,
because the id was drawn for one node only; that is where `IdsFresh` is needed.

`CcLowerProofs`, first part: the optimiser. `OptInv` holds through both passes. `WindowsOrdered` keeps the
functions apart, `PassPlace` says where the loop variables are, and each walk has
a statement about what is behind it: no IDENTITY before `oi`
(`NoIdentityBehind`), no two tokens before the pair at hand that could be merged
(`NoneSameBehind`). The theorems say that no operand is orphaned
(`OptimiseLeavesNothingDangling`), that copy propagation is sound in the middle of
its walk too (`IdentityPassIsSound`), that one walk of either pass is enough
(`IdentityPassIsComplete`, `ReusedPassIsComplete`), and that a pass stays in its
function (`PassesStayInWindow`). The delicate step is a merge: it renames operands
of tokens that the walk has passed already, and could make two of them equal. It
does not, because a merged result is used only after its own token, which is
later than every token of the pairs behind; this is `NoDanglingOperand` again.
Soundness has no counterpart for the reused pass: the run `redundant` shows
that it is not sound.

`CcLowerProofs`, second part: the lowering. `LowerInv` says of the register table: what is held is a
parameter or the result of a token that has been lowered (`HeldIsDefined`); the
parameters are in the A registers (`ArgumentsHeld`) and every operation's result
is somewhere (`ResultsHeld`); virtual registers are in use only when the T
registers are full (`SpillsLast`); `$ra` is never given to anybody; and every
register of the machine holds what the table says, the null id standing for
nothing (`MachineAgrees`). `ResultsHeld` is true because nothing is ever released:
`cc_asm_is_fixed_reg` holds of every register as it is written, and
`SpillsLast` rests on that too. From `LowerInv` come `LowerTypeCorrect`,
`LowerTableIsTrue` and `LowerAllocatesOnce`.

The rest is about the assertions. That every operand is found follows from
`NoDanglingOperand` and `ResultsHeld`. That the assertion of `cc_asm_regfree` does
not fail is less obvious: the null operand of a literal is found in a free
register, which must not be released, and is not because the RETURN at the end
of the function mentions the null id as well. So `ReturnsInv` says that each
function ends in a RETURN and that no token uses a RETURN's result, from emission
on, where it takes the shape of the recursion (`BodyShape`). `LowerAbortsForWant`
states `AbortsForWantOnly`, and `LowerTokenFollows` that the assertion of
`cc_ssa_is_last_use` does not fail for programs that fit.

### The instruction set

`XmWordProofs` has the lemmas that the others share: division, cutting to a word,
bits. `OfBits` is a fold of the community modules; that it is a number is proved
from the function that defines the fold, with a least counterexample, as no
induction rule can be used.

`XmCpuProofs`, first half: the block instructions. The loops' invariant is `Loop`, a statement for each instruction
about what has been copied, set, searched or followed after `i` turns, relative to
the memory at the start (`before`): which bytes are carried over, which cells are
untouched, and that nothing before `i` ended the loop. Areas may overlap and wrap,
so it is stated by cells and not by addresses. `BlocksWriteInTarget` and `SearchesStopAtFirst` follow from it.
`BlocksKeepPromise` is the refinement: a start is the abstract `Issue`, a turn
that goes on is a stutter, and the turn that ends is the command's effect as one
step.

The second half is about the CPU. `CpuInv` is the type invariant with the clock, and with the block
instruction's `Loop` while one runs, so that the result that is delivered is a
word. It goes through every instruction, the float ones for any arithmetic, for any
program, with operands and register numbers out of range. `FlagsAreOfTheLast` needs only that the history
variable is a judgement (`FlagsInv`). `StoresLoadTurned` is inductive with the
types, once the addresses of a word's four bytes are known to be different cells.
`StraightProgramsHalt` adds that the memory is still the image of the program,
and that ticks and lines agree (`StraightInv`).

`XmListingProofs`. `AsmInv` ties the assembler's arrays to the lines: the lines
with bytes have the ranks from 0 up (`RanksCover`), a name is found at the place of
the first line that defines it (`LabelsStand`), each fixup at the branch that left it
(`FixupsStand`), a fixup that is done has written its distance or is reported
(`FixupsDone`), and every other byte is as the encoder wrote it (`LinesWritten`).
`AssembledBranchesLand` and `WrittenIsRun` follow; the latter also from the
encoder's and the dispatcher's lemmas, one per format. `ListInv` adds the
disassembler: it is at the beginning of a line and has listed the ones before.
`WrittenIsListed` and `ListingTypeCorrect` follow.

### Only model-checked

- Of the front end, `TreeIsSource`: it compares the source with the reading of the
  tree, a recursive function over it that appends sequences, which would need
  induction over data. What is proved of the tree says what shape it has and that a
  failed rule left nothing in it, not that it is read back as the tokens.
- `CompiledComputes`: `CcToXm` has a recursive operator, the value of a term.
- Liveness: `FrontEnds`, `CompilerReturns`, `CountedEnds`, `StringCopyEnds`,
  `ListingEnds`, `RunEnds`. The prover does not handle fairness.
- What the violation runs show.


## Not modelled, and why

- Flags of types and variables, apart from the one that says a variable is a
  function: nothing after the parser reads them. Pointers, qualifiers, abstract
  declarators and declarations in a body: their rules say false and do nothing.
- The default of `cc_ssa_from_ast`, which aborts (`cc/ssa.c:289-290`): the root
  that the parser makes is a block or, coalesced, a declaration.
- The right side of an assignment: it is never reached, because the left side is
  tried only when a conditional failed, where no operand stands either; the
  model has a status for it (`"assigning"`) that `FrontTypeOK` excludes.
- How the assembler cuts a line into mnemonic, condition and operands, and
  `.section` lines. A line is given cut; the registers' names are modelled.
- Opening, mapping and closing files; printing; the 16 bits of a reference to a
  node, of which the model's sources use a few dozen values.
- IEEE arithmetic: TLC has no such numbers. The nineteen float instructions that
  the dispatcher reaches are steps of `XmCpu`, on bit patterns, with the arithmetic
  as a parameter; the runs give it three patterns, of which two are addresses, and
  the theorems hold for any. The other forty are never run (the run `floats`).
- Performance counters other than `ticks`, traces and printing: nothing reads
  them.
- `malloc` leaves the simulator's state uninitialised; the model starts it at
  zero, which is what fresh pages hold.
- Vector and tile registers: no instruction writes them, so a `call` through one
  of them finds zero. The float registers, which come before them, are modelled.
- IDENTITY and RAW_DATA in the lowering: unreachable, the first because of
  `NoIdentityLeft`, the second because nothing creates it.

## Plan

Done, in this order: emitter with its proofs, optimiser, lowering, memory and
block instructions with their abstract specification, instruction table and
listing, CPU; then the assembler's labels and fixups, lexer, parser and arena, and
the composition from the tree to the registers; then the theorems about all of
it but that composition, the front end's tree last.

Next, by what it is worth:

1. An abstract specification of the back end (a function maps its parameters to
   a term) and the emitter and the identity pass as implementations of it.
2. The lowering of a whole function: `LowerTableIsTrue` and `IdentityPassIsSound`
   together say what the register of a RETURN's operand holds.
