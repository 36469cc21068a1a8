# KnightJIT in TLA+

A verification development of [KnightJIT](../src/README.md), an interpreter of
the Knight language in C: a parser, a generator of SSA code, an optimizer and a
register machine. It holds TLA+ modules translated from the C source, TLC
configurations that check them on small instances, and theorems that TLAPS
proves for every value of the constants.

Line numbers such as `ir.c:260` refer to `src/src/`; tests are under
`src/tests/`. `PROJECT.json` maps every definition to the lines it models.

## 1. The system

`main()` (`knight.c`) runs one after the other, in one thread:

| component | state it keeps | operations | modelled in |
|---|---|---|---|
| lexer (`lexer.c`) | the position in the text, the line | `l_consume`, `l_load` | `Lexer`, `LexerProofs` |
| parser (`parser.c`) | the C stack; the arena of nodes | `expression`, `literal`, `nullary`, `unary`, `binary`, `ternary`, `quaternary`, `parse` | `Parser`, `Descent`, `DescentProofs` |
| IR generator (`ir.c`) | worklist, blocks, successors, value ids, variable ids, `result`, `instruction`, `block` and `top` of every node | the states of each case of `ir_generate_ssa`; `ir_successor_*` | `IR`, `IRGen`, `IRGenProofs`, `IRGenFlowProofs`, `IRGenControlProofs` |
| optimizer (`opt.c`, `opt.h`) | the function, rewritten in place; the liveness table | `ir_fold`, `ir_drop`, `ir_ranges`, `ir_preserve` | `Opt` |
| virtual machine (`vm.c`) | block, predecessor, index, registers, variables, one flat stack | one per instruction | `VM` |
| values and operations (`jit/value.h`, `vm.h`) | none | coercions, arithmetic, comparison, lists and strings | `Values`, `Operations`, `OperationLaws` |
| symbol table (`map.c`) | open addressing hash table | `map_get`, `map_set`, `map_resize` | `SymbolTable`, `SymbolMap`, `SymbolTableProofs` |
| arena (`arena.c`) | table of all allocations | `arena_alloc`, `arena_realloc`, `arena_free` | `Arena`, `ArenaProofs` |
| register allocation (`jit/reg.c`) | 12 registers, stack slots | `reg_allocate` | `RegAlloc` |
| JIT (`jit/x86_64.c`, `jit/x86.c`) | emitted machine code | `compile` | no |
| command line, files (`cli.c`, `file.c`) | options | | no |

How they interact: the parser's tree is read *and written* by the generator
(`node->result`, `node->instruction`, `node->block`, `node->top`); the
generator's function is rewritten in place by the optimizer; value ids index
the registers of the machine and the liveness table; block pointers link
instructions, walks, successor lists and return records. `ir_fold` runs the
same functions of `vm.h` at compile time that the machine runs later.

There is no concurrency and nothing is persisted. What makes the code hard is
that each part relies on the *order* in which another one worked:

- the generator is a stack machine: a handler pushes work and comes back later
  to read what that work left in the node, in memory that starts uninitialized
  (`ir.c:260`);
- control flow inside an argument moves the rest of its surroundings into
  another block, which is done by rewriting what is on the worklist
  (`ir.c:612`);
- the leaves of a region are found by recursion over successor lists which are
  not the control flow, without a set of visited blocks (`ir.c:165`);
- the machine has global registers and recursion, so what a caller needs after
  a call is decided by the optimizer and kept on a stack of untyped words
  (`opt.c:204`, `vm.c:157`);
- the meaning of operations is in tagged words, where false is not zero and
  numbers have 61 bits (`vm.h:488`, `vm.h:346`);
- nodes move when they grow, and an arena must know where to (`arena.c:55`);
  the tree's arena is freed while the code goes on being used (`knight.c:72`);
- the symbol table grows by inserting what it has into itself (`map.c:36`).

`PROJECT.json` lists these hazards one by one, with the properties aimed at
them. What makes each component correct:

- **lexer**: the tokens are those the characters spell, wherever blanks stand;
- **symbol table**: it is a map, whatever the hashes and however it grows;
- **arena**: what is allocated is owned once, and what is used is not freed;
- **register allocation**: every value has a home, and values that are needed at
  the same time have different ones;
- **parser**: it accepts exactly the well-formed programs, and builds the tree
  that the prefix notation determines;
- **generator**: single assignment; operands defined before use, and on every
  path; control flow that is complete and never falls off a body; PHIs with an
  entry for every predecessor; pointers that are valid when used; termination;
- **optimizer**: the program still does the same;
- **machine**: a disciplined stack; constants that stay constant;
- **operations**: the mathematical functions they stand for, in words;
- **all together**: the program does what its tree means.

## 2. The modules

| module | what it is |
|---|---|
| `IR` | instructions as records, and the control flow a reader of code sees (`Live`, `Exit`, `Targets`, `Reach`) |
| `Parser` | kinds of nodes, their arity, which token sequences are programs (`Accepts`) and their tree (`Tree`); `WellFormedTree`, what the generator may assume |
| `Descent` | the parser as a machine with the C stack in `calls` |
| `IRGen` | the generator |
| `SharedLemmas` | facts about arities and about numbers that several proofs use |
| `DescentProofs` | theorems about the parser |
| `IRGenProofs` | theorems about the generator: what it holds is well-formed |
| `IRGenFlowProofs` | where it writes and where that leads: regions, closed blocks, ends of blocks, successors without a cycle |
| `IRGenControlProofs` | where control goes in the code, and what the generator reads: control flow is complete, operands are defined |
| `Values`, `Operations` | tagged words and the operations on them; a stop is the value `Panic`, an undefined outcome `Fault` |
| `OperationLaws` | one operation at a time, and laws about the results |
| `Opt` | the passes of `ir_optimize` as functions from code to code |
| `VM` | the register machine; values and operations are parameters |
| `Reference` | what a tree means, by recursion over it: the promise |
| `RegAlloc` | `reg_allocate` as a function from code and live ranges to homes |
| `Knight` | `IRGen`, `Opt`, `RegAlloc` and `VM` composed as in `main()`, next to `Reference` |
| `SymbolMap` | a map from names to values: what the symbol table promises |
| `SymbolTable` | the hash table, one turn of a loop at a time |
| `SymbolTableProofs` | its invariant, and that it implements `SymbolMap` |
| `Lexer` | `l_load` on a text, and the language of tokens it should read |
| `LexerProofs` | theorems about it: it reads that language |
| `Arena`, `ArenaProofs` | the two arenas of `main()` over one heap, and theorems about them |
| `Programs` | every program of a size over a vocabulary |
| `MC...` | instances for TLC |

`Knight` takes `IRGen`, `Opt`, `RegAlloc` and `VM` with `INSTANCE`, over shared variables:
the generator's `code` is the optimizer's and the machine's, its `nextValue`
and `varId` size the machine's tables. `Descent` and `IRGen` both extend
`Parser`, so what one promises (`TreeReady`) is what the other assumes
(`AstAssumption`).

### Parser

A node is the position of its token. `calls` is the stack of `unary`, `binary`,
`ternary` and `quaternary` calls that wait for an argument; `returned` is the
node `expression()` has just returned. `Argument` is the assignment
`node->argK = expression(...)` with the check behind it: `= ` wants an
identifier. `Parser!EndOf`, `Accepts` and `Tree` are a definition of the same
thing by recursion over positions, which `Descent` is checked against.

### Generator

| C | `IRGen` |
|---|---|
| `worklist->items` | `worklist`, the top last |
| the C stack of `ir_successor_emit_phi`, `_emit`, `_return`, and the rest of the handler behind it | `walk`, the next call first |
| `function->blocks[b]->instructions` | `code[b]` |
| `block->successors` | `succ[b]`, and `b \in closed` for `successor_count == -1` |
| `node->result`, `->instruction`, `->block`, `->top` | `result`, `held`, `nodeBlock`, `top` |
| `symbol_table`, `var_id` | `symtab`, `varId` |

One action is one turn of the loop for one kind and state, or one call of a
walk. A handler that walks (AND, OR, IF, WHILE, BLOCK on their last turn) does
its own assignments and leaves a list of frames, each with its node: `phi`,
`jump` and `return` are calls, `link` the `ir_successor_add` after them and
`rewrite` the loop that moves what is on the worklist. No other turn begins
before the list is empty, as in C. The walks are steps of their own, and not a
recursive operator, so that their termination is a question to the model.

Uninitialized memory is `NoId`, `NoBlock` or `NoPos`. `ir.c:615` compares the
`block` of any scheduled node with a live block pointer, set or not; garbage
that equals it would only be overwritten in a node that sets it before it
reads it, so the model lets such a comparison fail.

### Optimizer

`Fold`, `Drop` and `Preserve` follow the loops: instructions in order, each
seeing what the ones before it became (`FoldLeft` over positions or blocks).
`RangeEnd` is `tracked[v].end`, which `ir_ranges` sets to the *id* of the last
instruction that touches the value, and `Preserved` compares it with the
*index* of the call in its block, as `ir_preserve` does.

### Machine

`VM` has one action per case of the `switch` in `vm_run`. A stack word is
tagged with what was pushed and, for a saved value, the register it came from;
the tags are only for `StackDiscipline` and no action looks at them. Where the
machine would call `panic()` over its own inconsistency, the model is stuck,
and the deadlock check reports it.

`Operate` and `ir_fold` share `Compute`, as the C code shares `vm.h`.

### Register allocation

`Allocate` folds over the blocks, and over each from its last instruction, as
the loops of `reg_allocate` do; a register stays taken from one block to the
next. `Knight!AllocateRegisters` applies it behind `ir_optimize`, with the
number of registers as a constant. Its result is used only by the JIT and by
the printing of the IR, so the machine does not read it.

### Symbol table

| C | `SymbolTable` |
|---|---|
| `map->entries`, `->capacity`, `->size` | `entries`, `capacity`, `size` |
| `key`, `length`, `value`, `i` of a running `map_get` or `map_set` | `call` |
| `prev_entries`, `prev_capacity`, `i` of a running `map_resize`, and the arguments of the `map_set` that called it | `moving` |
| `panic` at the end of `map_set` | `status = "panic"` |

The hash of a name is a constant function (`Fnv`), so that TLC can be given
collisions and a hash of 0, and the proofs hold for any. `map_get` masks where
`map_set` takes the remainder, which is the same for powers of two
(`CapacityAssumption`); `main()` begins with 8. If an entry that is moved
began a `map_resize` inside the one that runs, the model would stop with
`status = "nested"`, and `AlwaysRoom` says that it does not.

`SymbolMap` is the map that `IRGen` uses. `SymbolTable!Contents` is the
refinement mapping: what the entries say of each name, those of the old table
included while they are moved. A call takes effect when it returns.

### Lexer

A step of `Lexer` is one call of `l_load`, the ones it makes to itself
included. A loop over characters is `First`, the position where it stops. The
promise is not a copy of the loops: `Modes` reads the text character by
character, each being part of what is open before it or not, as an automaton
would, and `WordsTo` are the tokens that follow.

### Arena

A node is an address, and a *holder* a place of the program that keeps one.
`realloc` may move a node to any free address, and `malloc` may give out any
that was freed, so that an old address can come back as another node, in
the other arena too. `phase` follows `main()`: parse, generate, free the tree,
everything that comes after it on the code, free the code. `Used` says which
arena each phase reads.

### Meaning

`Reference!Eval` gives the value of a node in a state and the state after it,
from the left to the right, as the tests under `src/tests/function` say of each
function. It uses the operations of `Operations`, so that `Knight!Agrees` is
about order, choice and the flow of values; the operations themselves are the
subject of `OperationLaws`.

## 3. What is checked

| run | states | bounds |
|---|---|---|
| `irgen` | 122,077 | all trees of up to 5 tokens over PLUS, EXPR, ASSIGN, AND, OR, IF, WHILE, BLOCK, CALL, DUMP, a number and a variable; of up to 8 over AND, OR, IF, WHILE, BLOCK |
| `knight` | 283,114 | all programs of up to 5 and 6 tokens over two vocabularies, and eight larger ones; stack of 60 words, 4 lines of output, 200 steps of the meaning; 3 registers to allocate |
| `operations` | 73,402 | 6-bit numbers (all pairs for arithmetic), strings and lists of up to 3 items over two characters or items |
| `parser` | 952,160 | all sequences of up to 6 tokens, one kind per arity and the two that `=` tells apart |
| `symbols` | 108,689 | 4 names, of which two have one hash, one another hash with the same slot, at the end of the table, and one the hash 0; 2 values; a capacity of 2 that grows to 8 |
| `lexer` | 146,013 | all texts of up to 4 of 13 characters (one of each kind at least, Nul and an unknown one included) and of up to 5 of 6 |
| `arena` | 18,729 | 5 addresses, 3 holders in each arena, a capacity of 1 that grows to 4 |

Why the bounds are enough. Two levels of control flow inside one another need 5
to 8 tokens (`AND a (WHILE x n)` is 5, `IF a (WHILE x n) (AND y m)` is 8): in
these trees all the rewrites, PHIs with more than two entries, blocks in
conditions and dead code behind a RETURN occur, and every mutant that breaks one
of them is found. The generator has no other counter, and the handlers see no
more than two levels at once. Six bits make all results of `*`, `^` and `/`
wrap at both ends; three items distinguish before, inside and behind in a
splice. In `knight`, recursion without end runs into the bound on the stack
and is not followed further (`Limit`). The source has 12 registers; with 3 the
small programs already need slots. The symbol table grows twice with four
names, and a name is moved while another of its hash is in the new table and
while one is not. A token needs two characters to go on and a third to end;
texts of five characters hold a comment or a string between two tokens. Five
addresses for six holders make the heap give addresses out again while others
are in use.

**`irgen`** asks whether the generated code is right *as code*. `TypeOK`: every
reference is to something that exists. `UniqueIds`: single assignment.
`Pending`: what a handler will dereference is set. `OperandsDefined`: no operand
was read from a node before its value was there. `NothingAfterLeaving`: nothing
but dead jumps is emitted behind an instruction that leaves a block.
`SuccessorsAcyclic` and `Termination`: the walks and the loop end.
`HeldPointersStable`: no pointer into an array that `ir_emit` may move is used
after it may have moved. The last uses come behind the walks, which emit: the
handlers of AND, OR, IF and WHILE read `node->instruction` again (`ir.c:610`,
`654`, `722`-`724`, `772`, `774`), and IF reads `phi->result`. The frames keep the
node, so the array must stay where it is until the last of them is done; what a
handler of the model reads before the walks is then what the code reads behind
them. `ClosedStays`: a returned block is never touched again.
`ControlComplete`: bodies do not overlap, do not fall off their end, and the
program has one end. `DefinitionsDominate` and `PhisComplete`: on the paths the
machine takes, and not on the successor lists, every operand was defined.

**`knight`** asks whether the program does what it means. `Agrees` compares
output, end, exit code and remaining input with `Reference`; programs that
fail by their own meaning are left out of it, because folding fails earlier
(below). `StackDiscipline`, `ConstantsStay` and `TypeOK` are about the machine;
`Terminates` says that a program with a finite meaning ends. `HomesComplete`: of
the registers and slots that are given out, each value that needs one has one,
and no slot is given twice.

**`symbols`**: `IsMap` is the refinement, `Findable` why it works, `AlwaysRoom`
that the panic and the resize inside a resize are not reached, `Returns` that
every call returns.

**`lexer`**: `Segmented` compares with the language read character by
character; `SpacingLaw` says that a blank can be left out exactly where
`tests/syntax/whitespace.lua` says so; `LinesCounted`; `Stops`.

**`arena`**: `Owned` says that the tables hold what is allocated, each address
once, so that freeing is right; `KeptLive` that what the program can still
reach is allocated, and is where `arena_realloc` looks for it.

**`operations`**: `Trichotomy`, `Lexicographic` for `<`, `>` and `?`;
`DivisionLaw`, `PowerLaw` for the arithmetic; `SpliceLaw` for SET against GET.

**`parser`**: `ParsesAsTree` compares with `Parser`; `OnlyOpenCallsWait` says why
it works; `TreeReady` is the generator's assumption; `Stops`.

Each property has a mutant in `PROJECT.json`: a plausible bug in the definition
it names, written next to it as `(mutant: ...)`, with which TLC finds the
property violated.

### Fairness

The program is one deterministic thread, so every model has weak fairness of
its whole next step: the C loop goes on. It is stated on `Generate` in `IRGen`,
on `Next` in `Descent` and `Lexer`, and in `Knight` part by part; there the passes of the
optimizer are stated on the variable `phase` alone, which says the same (a pass
that can run changes the phase) and saves TLC from computing the pass twice.
The symbol table is called by others, who may stop calling: fairness is on
`GoOn`, what a call does once it has begun, and not on the beginning of one.
`Arena` has none, as it states no liveness.
RANDOM and the input are nondeterministic but no fairness is assumed of them.

### Disagreements found

Five runs are expected to be violated. Each checks what the repository says of
the program, and a line of the code does otherwise:

| run | program | what happens |
|---|---|---|
| `recursion` | `; = n 3 ; = f BLOCK + n IF (= n - n 1) (CALL f) 0 : OUTPUT CALL f` | `n` is read in one basic block and the call is in another, so it is not saved: a wrong sum (`opt.c:204`) |
| `branch` | `OUTPUT IF FALSE (/ 1 0) 12` | panics while folding a branch that is not taken (`opt.c:31`) |
| `prompt` | `; PROMPT : OUTPUT PROMPT` | writes the first line: the unused PROMPT is dropped (`opt.c:98`) |
| `registers` | `; = n 3 ; = f BLOCK IF n (+ n ; = n - n 1 : CALL f) 0 : OUTPUT CALL f` | the values of `n` and of `f` are needed at the same time and get one register: the end of a range, an id, is compared with an index (`jit/reg.c:32`) |
| `list_equality` | `? ,1 ,2` | true: `!vm_eq(...)` tests a tagged word (`vm.h:488`) |

## 4. What is proved

### The lexer

`LexerProofs` proves, for every set of texts (`TextsAssumption`: sequences of
characters; `NulAssumption`: the end of a C string is none of the characters
that `l_load` names):

| theorem | statement |
|---|---|
| `Invariance` | `Spec => []LexInv` |
| `AlwaysSegmented` | `Spec => []Segmented` |
| `LinesAlways` | `Spec => []LinesCounted` |
| `SpacingAlways` | `Spec => []SpacingLaw` |

`Segmented` compares two ways to read a text. `l_load` jumps from token to token,
with a loop of its own for each kind; `Modes` decides for each character, from
what is open before it, whether it goes on with that. They meet where a step of
the lexer begins: there (`Opens`) the character does not go on with what is open,
and no string is open. So

    LexInv == WhereInv /\ WordsInv /\ linenumber \in Nat /\ LinesCounted
              /\ (status = "end" => Char = Nul)
              /\ (status = "panic" => Char \notin Known)

where `WordsInv` says that there is a token for each beginning before the
position, in order, and `WhereInv` that the position is such a place and that
nothing before it should have stopped the lexer. A step goes over a *run*: all
characters behind the first go on with what the first one opens, up to one that
does not (`Runs`, `Stays`). From this alone follow, once for all kinds of tokens,
what is open inside the run (`RunModes`), that nothing begins there (`RunBegins`),
that what begins with the run ends with it (`RunEnd`), and that the lexer is at
such a place again. The quote that closes a string is the exception: it belongs
to no run, but nothing begins with it (`QuoteCloses`). What is left for each action
is that its loop goes over a run.

`Modes` is a recursive function; that it exists for every length, and what is
open inside a run, is induction over positions (`UpTo` in `SharedLemmas`).

`SpacingLaw` needs no invariant of its own: when reading has ended, `LexInv`
says that the tokens are the words of the text (`AllRead`), and the rest compares
the words of two texts, the second without one character (`LeavesOut`). What
the tests call needed is that the character behind the blank goes on with what
is open before it (`NeededTable`). If it does not, what is open is the same one
place earlier behind the blank (`BehindBlank`), so beginnings, ends
(`SameEnds`) and the stop (`SameStop`) are those of the text, shifted, and the
words are spelled alike (`SameSpelling`). If it does, the token that is open
before the blank (`ModeOpened`) is a longer one without it. It has the same
place among the tokens, as the same ones begin before it (`OrderedAt`), so the
words differ there (`OtherSpelling`). This includes a blank in front of the end,
which is never needed.

### The parser

`DescentProofs` proves, for every set of token sequences, any literals and any
names (`SourcesAssumption`: a token has a kind, a literal and a name):

| theorem | statement |
|---|---|
| `TypeCorrect` | `Spec => []TypeOK` |
| `OnlyOpenCallsWaitAlways` | `Spec => []OnlyOpenCallsWait` |
| `TreeAlwaysReady` | `Spec => []TreeReady` |
| `ParsesAsTreeAlways` | `Spec => []ParsesAsTree` |

`TypeOK` is not inductive: that an argument is a later node than its parent
holds because the calls are nested, and that no node gets an argument too many
because a call that is open still misses one. The invariant is

    DInv == Shape /\ TargetsNamed /\ HandedOnce /\ Nested
            /\ OnlyOpenCallsWait /\ OneRoot

`Nested` says that the open calls are for increasing tokens and that what has
just been returned is later than them all; so a call that returns is no longer
on the stack, which is what `OnlyOpenCallsWait` needs. `OneRoot` says that the
outermost call is the first token's, and that with no call open the first
node is what is returned. `HandedOnce` says that a node once kept as an argument is
neither what has just been returned nor what an open call is for, so it is not
kept again: the nodes form a tree, where no node is an argument twice. When parsing is done no call is open, so no node
misses an argument, and with `TargetsNamed` the tree is well-formed:
`TreeReady` is `AstAssumption` of the generator, for which the theorems below
are proved.

`ParsesAsTree` compares the machine with `EndOf`, which says by recursion from the
last token to the first where each expression ends. That this function exists, and
that its cases are places of arguments (`Nth`), is proved first, by induction over
positions (`EndsExist`, `EndFacts`). Then

    PInv == DInv /\ PlacedBy(EndOf(tokens)) /\ Outcome

`PlacedBy` says that an open call has due, as its next argument, the expression
that the call inside it reads, or that has just returned, or that begins with the
next token; and that what returns ends where `EndOf` says. Keeping an argument
moves what is due from where the argument begins to where it ends, so that with
the last argument the call returns at its own end. Where the input ends too early,
what the innermost call has due ends past the input; so then does its expression,
which the call around it has due, and so on up to the first token (`EndsEarly`):
the panic is right. A panic at `=` is, since the argument that was due is the token
behind it; and a tree is returned only where the first expression ends the input.

### The generator

Three modules, each on top of the one before, prove for every set of well-formed
trees, any literals and any names:

| theorem | statement | module |
|---|---|---|
| `Invariance` | `Spec => []IInv` | `IRGenProofs` |
| `Typing` | `Spec => []TypeOK` | |
| `SingleAssignment` | `Spec => []UniqueIds` | |
| `PendingWorkIsReady` | `Spec => []Pending` | |
| `RegionsAlways` | `Spec => []RegionInv` | `IRGenFlowProofs` |
| `HeldPointersStay` | `Spec => []HeldPointersStable` | |
| `ClosedBlocksStay` | `Spec => ClosedStays` | |
| `CleanAlways` | `Spec => []CleanInv` | |
| `NothingFollows` | `Spec => []NothingAfterLeaving` | |
| `PathsAlways` | `Spec => []PathInv` | |
| `SuccessorsStayAcyclic` | `Spec => []SuccessorsAcyclic` | |
| `ControlAlways` | `Spec => []ControlInv` | `IRGenControlProofs` |
| `ControlIsComplete` | `Spec => []ControlComplete` | |
| `ValuesAlways` | `Spec => []ValueInv` | |
| `OperandsAlways` | `Spec => []OperandsDefined` | |

Assumptions: `NamesAssumption` (the argument list's name is a name) and
`AstAssumption` (the trees are well-formed: nodes are numbers, the first is the
root, arguments are later nodes, no node is an argument twice), which `TreeAlwaysReady` proves of the parser.

**What it holds is well-formed.** `TypeOK` is not inductive. A turn with state 1 or 2 follows
`node->instruction` to the targets of an instruction and pushes work for them:
that these are blocks follows only if the instruction is of the right
operation and shape, which is what an earlier turn left there; a walk appends to
the PHI at a position which must still be one. `Pending` says this of
everything that is scheduled. It is not inductive alone either: an instruction
that is changed by a walk (a PHI gets an entry) must not be one that an item
holds as a BRANCH, and an instruction that is emitted must have a fresh id. So
the invariant is

    IInv == TreeInv /\ CodeInv /\ FlowOK /\ TablesOK
            /\ worklist \in Seq(ReadyItems) /\ walk \in Seq(ReadyFrames)

where `CodeInv` holds the type of the code with the shape of each instruction
and the uniqueness of ids, and `ReadyItems` and `ReadyFrames` are the items and
frames whose handlers can go on. The argument: code only *grows* — every
instruction stays where it is, with its operation, id and targets, but for the
entries of a PHI — so what was ready stays ready, and each handler makes ready
what it schedules. This is one lemma about growth, one per helper (`Emit`,
`Grown`, `Intern`, the rewriting of the worklist), and then one step per action
of `Next`.

**Where it writes.** No line of `ir_generate_ssa` says which blocks an item on
the worklist may write. That an item leaves alone the array into which another
one holds a pointer (`HeldPointersStable`), and the blocks of a body that has
returned (`ClosedStays`), follows from the order in which blocks are made. The
same holds of the walks, behind which a handler reads its node's pointer again.
An item that has opened blocks has a `Floor`, the first of them, and a region,
`Inside`: all blocks from the floor on but the one that the generator keeps for
later (`Spare`: the join of AND, OR and IF, the exit of a WHILE). The invariant
is

    RegionInv == Order /\ Regions /\ StillOpen /\ OneCall /\ WalkApart /\ LastHeld

- `Order`: an item that waits is for an earlier node than what is above it, so
  no two items are for one node, and a turn that sets a node's pointers changes
  no other item's;
- `Regions`: what is below an opening item uses (`Uses`) only blocks under the
  floor; what is above it, each walk, and each successor of a block inside, stay
  inside;
- `StillOpen`: nothing that is still to be written is closed;
- `OneCall` and `WalkApart`: the frames of a walk are of one call, and there is
  a set of blocks, closed under successors but for the jump's target, that holds
  what they come to and nothing that is used afterwards, neither by the items
  nor by the handler whose frames are left: not the block that holds its node's
  instruction;
- `LastHeld`: what an item or a frame (through its node, or as the PHI it fills
  in) holds a pointer to is the last instruction of its block.

`HeldPointersStable` is `LastHeld` together with the regions: the block that
holds the instruction of an item lies under the item's floor, and the walks stay
inside the region or in the join. `ClosedStays` is
the step lemma with `StillOpen`: a RETURN walk closes a region that only its own
item could reach.

`NothingAfterLeaving` needs in addition that an item goes on in a block that
nothing leaves yet. This is false for a while: a handler of AND leaves its block
and the items below it still name that block, until the rewrite at the end of
the walk moves them. So

    CleanInv == every item's block is Clean or Left, every rewrite's
                target is Clean, and every block is Tidy

where `Left(b)` says that an item or a `rewrite` frame which will move what
names `b` is still there, and `Tidy(b)` that `b` is left once, with only jumps of
walks behind.

**Where it leads.** `ir_successor_*` follow successors without marking what they
have visited, so a cycle would be an endless recursion, and a WHILE does have one
in its control flow. Nearly all edges lead to blocks that are made in the same
turn. The others are those that a walk adds, from all its leaves to the block it
jumps to, turn by turn and long after its root was chosen. The invariant is

    PathInv == /\ Acyclic
               /\ \A i \in DOMAIN worklist : Holding(i) => Bounded(i)
               /\ Ahead

- `Acyclic`: for each block there is a set of blocks that its successors are in,
  that nothing leads out of, and that the block is not in. Such a set survives
  steps elsewhere, which "is not in the set it reaches" does not;
- `Bounded`: nothing follows the block that an item keeps for later, and nothing
  leads out of the condition of a WHILE whose body is generated;
- `Ahead`: there are two disjoint sets of blocks, the leaves of a walk in one, the
  block it jumps to in the other, which nothing leads out of. When the walk
  begins the second is the empty join of AND, OR or IF, or the WHILE's condition
  by `Bounded`. That the condition leads nowhere is because a WHILE hangs its
  body and its exit on the block *before* the condition (`ir.c:765`).

`SuccessorsAcyclic` itself counts: it collects what is reached in one edge, in two,
and so on, by a recursive function. That the function exists, and that it never
leaves a set that nothing leads out of, is induction over the number of edges
(`UpTo` in `SharedLemmas`), which follows from a set of numbers having a least element
(`LeastNumber`).

**Where control goes.** `ControlComplete` speaks of the finished code, and of the
targets of its instructions, which are not the successor lists: a body of a WHILE
jumps back, and what stands behind a RETURN leads nowhere. A block ends without a
target as long as nothing has left it (`Clean`), so what has to be shown is that
of all those there are on the way one is left at the end, and that the machine
gets to it. The invariant is

    ControlInv == NeatInv /\ FillInv /\ SoleInv /\ CurrentInv /\ RouteInv /\ OwnInv

- `SoleInv`: there is one block, in the program and in the region of each WHILE
  whose condition is generated, in which the generator goes on; every other
  block that nothing has left is in an open region, or a walk is still to come to
  it (`Awaited`);
- `FillInv`: that the walk does come to it. The walk goes along successors from
  the blocks that an item entered its region by, so every block of a region that
  nothing has left, and every block that another item leaves, is on such a way
  (`Comes`), counting the successors that the frames of a walk are still to add;
- `CurrentInv`: control comes from the start to the block in which the generator
  goes on, and from the entries of each open region to one inside of it;
- `RouteInv`: a block that was left leads on, to the blocks that its item holds,
  and to where their walks jump when these are done: a rewrite moves what was to
  go on in the block that was left to the block its walk jumped to, and `CurrentInv`
  must not be lost on the way;
- `OwnInv`: blocks can be given owners, the program or a body, such that no
  target and no successor has another owner, a body owns itself, and what
  returns is not the program's;
- `NeatInv`: what has been left and what has successors yet, as far as the others
  need it.

"Control comes from a to b" is stated as: every set of blocks that holds a and
that no target leads out of holds b (`Controls`). It survives as long as targets
are only added, without a word about paths. The function `Reach` in
`ControlComplete` is tied to it at the end: its steps stay in any set that
nothing leads out of (`ReachWithin`), and as each step adds a block or is the
last to add any, as many steps as there are blocks are enough (`ReachCloses`).

When worklist and walks are empty, `SoleInv` leaves one clean block, `CurrentInv`
says that control comes to it, and by `OwnInv` no body does.

**What it reads.** `node->result` is uninitialized until the node's handler has
run. `ValueInv` says that what an item is still to read (`Reads`: the arguments
that its remaining turns take) is the id of an instruction with a value, or that
the argument is on the worklist above the item (`Computed`); that a WHILE has
its NULL from its first turn on, because a turn of its body may read it; that a
walk carries values (`Carried`); and `OperandsDefined`. It rests on `Order`: a
turn that sets a node's result sets that of the top of the worklist, which
nobody else on it is for.

### The symbol table

`SymbolTableProofs` proves, for every finite set of
names, every set of values, every hash function and every initial capacity that
is a power of two (`KeysAssumption`, `ValuesAssumption`, `FnvAssumption`,
`CapacityAssumption`):

| theorem | statement |
|---|---|
| `Invariance` | `Spec => []IInv` |
| `TypeCorrect` | `Spec => []TypeOK` |
| `AlwaysFindable` | `Spec => []Findable` |
| `RoomAlways` | `Spec => []AlwaysRoom` |
| `TableIsMap` | `Spec => IsMap` |

`Findable` is not inductive: that a new entry can be found needs what its probe
has seen (`ProbeInv`), that a probe ends in an empty slot needs room
(`size < capacity` and `size = Cardinality(Used(entries))`), and that there is
room while entries are moved needs that no more are in the new table than have
been moved, and that it is twice as large (`MoveInv`). `MoveInv` also says that
what is still to be moved is not in the new table, so the `map_set` of a moved
entry always stores a new one. The invariant is

    IInv == Typed /\ status = "run" /\ size = Cardinality(Used(entries))
            /\ Whole(entries) /\ Findable /\ ProbeInv /\ MoveInv

For the refinement, `Contents` is a function of the set `Kept` of entries in the
new table and entries not yet moved. No name has two entries in it. Beginning a
call, probing, growing and moving keep the set; `SetNew` and `SetOld` replace
the entry of one name (`ValueReplaced`) and are `SymbolMap!Store`; `GetHit`
and `GetMiss` return what the set says and are `SymbolMap!Look`.

The proof does not use that the capacity is a power of two; the model does, when
it has one `Slot` for `map_get` and `map_set`.

### The arenas

`ArenaProofs` proves, for every set of addresses, all sets of holders that
are apart and every initial capacity (`NullAssumption`, `HoldersAssumption`,
`CapacityAssumption`):

| theorem | statement |
|---|---|
| `Invariance` | `Spec => []IInv` |
| `OwnedAlways` | `Spec => []Owned` |
| `KeptLiveAlways` | `Spec => []KeptLive` |

Both properties need each other: `arena_realloc` keeps the table right only if
it finds the pointer it is given, and finds it only if the table is right. The
invariant is

    IInv == Typed /\ Sized /\ Once /\ Exact /\ WholeYet /\ KeptIn

`Exact` and `Once` say that the places of both tables that are not freed yet are
in one-to-one correspondence with the heap, so a node that `realloc` moves to an
address that was free is nobody else's. `WholeYet` ties `phase` to what has been
freed: an arena that is used is whole, so `KeptIn`, which says that holders have
nodes of their own in it, gives `KeptLive`.

### Only model-checked

- Liveness (`Termination`, `Terminates`, `Stops`, `Returns`): out of the prover's reach.
- What recursive operators compute (`Values`, `Operations`, `Reference`): TLAPS
  does not reason about `RECURSIVE`, and its induction theorems take a predicate
  as a parameter, which its provers here cannot instantiate. Where the recursion
  is a function over numbers, as in `Modes`, `EndOf` and `SuccessorsAcyclic`, the
  induction is done by a least element instead.
- The other path properties of the generator (`DefinitionsDominate`,
  `PhisComplete`): not proved. They ask which blocks *every* path to a block goes
  through, where `ControlInv` says which blocks some path comes to. An invariant
  would have to carry, for each block, blocks that dominate it, and for each turn
  that waits, that its operands are defined in one of these or will be by a turn
  above it. The latter needs that no node is an argument twice: a generator that is
  given a graph with a shared node emits a use that its definition does not dominate.
- All properties of `Knight` and of `OperationLaws`: they are about what recursive
  operators compute.

## 5. What is not modelled

- Parts that are never called: `l_peek`, `l_accept`, `l_expect`, `map_destroy`.
- The bytes of a name and of its hash; the 64 bits that `capacity` has.
- The values of the tokens that `Lexer` reads are places in the text: `Descent`
  takes sequences of kinds, and the two are not composed.
- How values are written: DUMP's notation, OUTPUT's line end and the backslash
  that suppresses it, a NUL inside a string.
- Failing allocations outside of the arenas, and the sizes of arrays that the
  code grows: sequences have no capacity. `phi_blocks`, which is not grown, and
  the operands of SAVE, which grow by bytes, are listed as hazards.
- Memory that runs out where the machine's stack doubles (`vm.h:31`), a byte 255
  in the input, which ends it (`vm.h:56`), a literal of more than 61 bits, which
  is cut (`ir.c:107`). A negative number as a list (`jit/value.h:195`) and the
  undefined cases of `vm.h:459` and `vm.h:518` are modelled as what the code
  does, or as `Fault`, but nothing is said of them.
- The JIT: `x86_64.c` emits machine code through dynasm, is switched on by a
  flag and is work in progress (calls and saved values are commented out or
  missing), so there is no complete behaviour to check against `VM`. `jit/x86_64.c:395`
  is listed as a hazard.
- The command line and reading the file; the printing of the IR.

## 6. Plan

1. *Done*: `IR`, `IRGen` and its invariant; `Values`, `Operations`; `Opt`;
   `VM`; `Knight` against `Reference`; `Descent`, and the proof that it builds the
   trees of `Parser`; `SymbolTable` and the proof that it is `SymbolMap`; `Lexer`;
   `Arena` and its invariant; `RegAlloc`.
   Proofs about where `IRGen` writes and what it reads: regions, closed blocks,
   held pointers, ends of blocks, operands, that its successors have no cycle,
   and that its control flow is complete.
   The proofs that `Lexer` reads the language it should, and where a blank may
   be left out.
2. Proofs about what every path through the code of `IRGen` has passed
   (`DefinitionsDominate`, `PhisComplete`), and about `VM` (the stack holds whole
   frames).
3. `Lexer` composed with `Descent`: the tokens of a text, and the tree of a text.
4. The control structure of the JIT's translation, against `VM`, when the
   translation is complete.
