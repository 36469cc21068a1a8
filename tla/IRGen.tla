------------------------------- MODULE IRGen -------------------------------
(***************************************************************************)
(* ir.c: the generation of SSA form from a tree, with an explicit LIFO     *)
(* worklist of (node, block, state) items.  Each step of this machine is   *)
(* one turn of the loop of ir_generate_ssa or one call of the recursive    *)
(* walks that close the leaves of a region (ir_successor_emit_phi,         *)
(* ir_successor_emit, ir_successor_return): `walk` is the C call stack of  *)
(* those walks, together with what the handler does after they return.     *)
(*                                                                         *)
(* Memory that arena_alloc leaves uninitialized (result, block, top and    *)
(* instruction of a node) starts as NoId, NoBlock or NoPos.                *)
(***************************************************************************)
EXTENDS IR, Parser

CONSTANTS
    Asts,          \* the trees parse() may return
    Literals,      \* the values of their literals
    Names,         \* the identifiers of the programs
    ArgsName,      \* the identifier "_" of the argument list extension
    Args           \* the list of the program's arguments

ASSUME NamesAssumption == ArgsName \in Names
ASSUME AstAssumption == \A t \in Asts : WellFormedTree(t, Literals, Names)

VARIABLES
    ast,           \* the tree, never changed
    worklist,      \* worklist->items, the top last
    walk,          \* the pending calls of the running handler, the next first
    code,          \* block id -> block->instructions
    succ,          \* block id -> block->successors
    closed,        \* the blocks whose successor_count is -1
    nextValue,     \* function->next_value_id
    result,        \* node -> node->result
    held,          \* node -> node->instruction, as <<block, position>>
    nodeBlock,     \* node -> node->block
    top,           \* node -> node->top
    symtab,        \* identifier -> variable id, 0 where map_get gives -1
    varId          \* function->var_id

vars == <<ast, worklist, walk, code, succ, closed, nextValue, result, held,
          nodeBlock, top, symtab, varId>>

NoId == -1
NoBlock == -1
NoPos == <<-1, 0>>

Nodes == DOMAIN ast
Blocks == DOMAIN code

Item(node, block, state) == [node |-> node, block |-> block, state |-> state]
\* (mutant: the PHI's position counted after it was emitted)
FrameOffByOne(do, node, block, jump, at, value) ==
    [do |-> do, node |-> node, block |-> block, jump |-> jump, at |-> at + 1,
     value |-> value]

\* A pending call, with the node of the handler that it returns to.
Frame(do, node, block, jump, at, value) ==
    [do |-> do, node |-> node, block |-> block, jump |-> jump, at |-> at,
     value |-> value]

Init ==
    /\ ast \in Asts
    /\ worklist = <<Item(1, 0, 0)>>
    /\ walk = <<>>
    /\ code = [b \in 0..0 |-> <<Const("CONST_ARRAY", 0, Args), Store(1, 1, 0)>>]
    /\ succ = [b \in 0..0 |-> <<>>]
    /\ closed = {}
    /\ nextValue = 2
    /\ result = [n \in DOMAIN ast |-> NoId]
    /\ held = [n \in DOMAIN ast |-> NoPos]
    /\ nodeBlock = [n \in DOMAIN ast |-> NoBlock]
    /\ top = [n \in DOMAIN ast |-> NoBlock]
    /\ symtab = [x \in Names |-> IF x = ArgsName THEN 1 ELSE 0]
    /\ varId = 1

-----------------------------------------------------------------------------
(* The helpers of the loop. *)

Top == worklist[Len(worklist)]
Rest == SubSeq(worklist, 1, Len(worklist) - 1)
Kid(node, k) == ast[node].kids[k]
KidResult(node, k) == result[Kid(node, k)]
KidResults(node) == [k \in DOMAIN ast[node].kids |-> KidResult(node, k)]

\* The popped item is for a node of one of these kinds, in this state.
Turn(kinds, state) ==
    /\ walk = <<>>
    /\ worklist # <<>>
    /\ ast[Top.node].kind \in kinds
    /\ Top.state = state

NextBlock == Cardinality(Blocks)

\* (mutant: the last block is not recorded in function->blocks)
GrownUnrecorded(f, k) ==
    [b \in 0..(NextBlock + k - 2) |-> IF b \in Blocks THEN f[b] ELSE <<>>]

\* ir_create_block: k more blocks, with nothing in them yet.
Grown(f, k) ==
    [b \in 0..(NextBlock + k - 1) |-> IF b \in Blocks THEN f[b] ELSE <<>>]

\* (mutant: the value id is not advanced, as after ir_reverse)
EmitReversed(c, b, ins) ==
    /\ code' = [c EXCEPT ![b] = Append(@, ins)]
    /\ nextValue' = nextValue

\* ir_emit: one more instruction, defining the next value.
Emit(c, b, ins) ==
    /\ code' = [c EXCEPT ![b] = Append(@, ins)]
    /\ nextValue' = nextValue + 1

SetResult(node, id) == result' = [result EXCEPT ![node] = id]

\* map_get and, for a name never seen, map_set with the next variable id.
VarOf(name) == IF symtab[name] = 0 THEN varId + 1 ELSE symtab[name]
Intern(name) ==
    /\ symtab' = [symtab EXCEPT ![name] = VarOf(name)]
    /\ varId' = IF symtab[name] = 0 THEN varId + 1 ELSE varId

-----------------------------------------------------------------------------
(* Leaves of the tree. *)

LiteralOp == [NUMBER |-> "CONST_NUMBER", STRING |-> "CONST_STRING",
              BOOLEAN |-> "CONST_BOOLEAN", NULL |-> "CONST_NULL",
              ARRAY |-> "CONST_ARRAY"]

GenLiteral ==
    /\ Turn(LiteralKinds, 0)
    /\ Emit(code, Top.block,
            Const(LiteralOp[ast[Top.node].kind], nextValue, ast[Top.node].lit))
    /\ SetResult(Top.node, nextValue)
    /\ worklist' = Rest
    /\ UNCHANGED <<ast, walk, succ, closed, held, nodeBlock, top, symtab, varId>>

GenIdentifier ==
    /\ Turn({"IDENTIFIER"}, 0)
    /\ Emit(code, Top.block, Load(nextValue, VarOf(ast[Top.node].name)))
    /\ SetResult(Top.node, nextValue)
    /\ Intern(ast[Top.node].name)
    /\ worklist' = Rest
    /\ UNCHANGED <<ast, walk, succ, closed, held, nodeBlock, top>>

GenNullary ==
    /\ Turn(NullaryKinds, 0)
    /\ Emit(code, Top.block, Instr(ast[Top.node].kind, nextValue, <<>>, <<>>))
    /\ SetResult(Top.node, nextValue)
    /\ worklist' = Rest
    /\ UNCHANGED <<ast, walk, succ, closed, held, nodeBlock, top, symtab, varId>>

-----------------------------------------------------------------------------
(* State 0 of the nodes that only schedule their arguments, the first one   *)
(* on the top, and come back in the same block in state 1.                  *)

OperatorOp == [QUIT |-> "QUIT", OUTPUT |-> "OUTPUT", LENGTH |-> "LENGTH",
               NOT |-> "NOT", NEGATE |-> "NEG", ASCII |-> "ASCII",
               BOX |-> "BOX", PRIME |-> "PRIME", ULTIMATE |-> "ULTIMATE",
               PLUS |-> "ADD", MINUS |-> "SUB", MULTIPLY |-> "MUL",
               DIVIDE |-> "DIV", MODULO |-> "MOD", POWER |-> "POW",
               LESS |-> "LT", GREATER |-> "GT", EQUAL |-> "EQ",
               GET |-> "GET", SET |-> "SET"]

\* Which arguments are scheduled: those of AND, OR and IF wait for their
\* blocks, and the target of an ASSIGN is never evaluated.
Scheduled(node) ==
    CASE ast[node].kind \in {"AND", "OR", "IF"} -> <<Kid(node, 1)>>
      [] ast[node].kind = "ASSIGN" -> <<Kid(node, 2)>>
      [] OTHER -> ast[node].kids

GenSchedule ==
    /\ Turn(Kinds \ (LeafKinds \cup {"BLOCK", "WHILE"}), 0)
    /\ worklist' =
          LET s == Scheduled(Top.node)
          IN  Rest \o <<Item(Top.node, Top.block, 1)>>
                   \o [k \in 1..Len(s) |-> Item(s[Len(s) + 1 - k], Top.block, 0)]
    /\ UNCHANGED <<ast, walk, code, succ, closed, nextValue, result, held,
                   nodeBlock, top, symtab, varId>>

\* An operator whose arguments are ready.
Operator(kinds) ==
    /\ Turn(kinds, 1)
    /\ Emit(code, Top.block,
            Instr(OperatorOp[ast[Top.node].kind], nextValue,
                  KidResults(Top.node), <<>>))
    /\ SetResult(Top.node, nextValue)
    /\ worklist' = Rest
    /\ UNCHANGED <<ast, walk, succ, closed, held, nodeBlock, top, symtab, varId>>

GenUnary == Operator(UnaryKinds \ {"BLOCK", "CALL", "DUMP"})
GenBinary == Operator(BinaryKinds \ {"AND", "OR", "EXPR", "ASSIGN", "WHILE"})
GenSlice == Operator({"GET", "SET"})

\* (mutant: DUMP stands for its own instruction, like the other operators)
GenDumpOwnResult ==
    /\ Turn({"DUMP"}, 1)
    /\ Emit(code, Top.block,
            Instr("DUMP", nextValue, KidResults(Top.node), <<>>))
    /\ SetResult(Top.node, nextValue)
    /\ worklist' = Rest
    /\ UNCHANGED <<ast, walk, succ, closed, held, nodeBlock, top, symtab, varId>>

\* DUMP stands for its argument, not for its own instruction.
GenDump ==
    /\ Turn({"DUMP"}, 1)
    /\ Emit(code, Top.block,
            Instr("DUMP", nextValue, KidResults(Top.node), <<>>))
    /\ SetResult(Top.node, KidResult(Top.node, 1))
    /\ worklist' = Rest
    /\ UNCHANGED <<ast, walk, succ, closed, held, nodeBlock, top, symtab, varId>>

\* (mutant: the item stays on the worklist)
GenExprStays ==
    /\ Turn({"EXPR"}, 1)
    /\ SetResult(Top.node, KidResult(Top.node, 2))
    /\ UNCHANGED <<ast, worklist, walk, code, succ, closed, nextValue, held,
                   nodeBlock, top, symtab, varId>>

GenExpr ==
    /\ Turn({"EXPR"}, 1)
    /\ SetResult(Top.node, KidResult(Top.node, 2))
    /\ worklist' = Rest
    /\ UNCHANGED <<ast, walk, code, succ, closed, nextValue, held, nodeBlock,
                   top, symtab, varId>>

GenAssign ==
    /\ Turn({"ASSIGN"}, 1)
    /\ LET name == ast[Kid(Top.node, 1)].name
       IN  /\ Emit(code, Top.block,
                   Store(nextValue, VarOf(name), KidResult(Top.node, 2)))
           /\ Intern(name)
    /\ SetResult(Top.node, KidResult(Top.node, 2))
    /\ worklist' = Rest
    /\ UNCHANGED <<ast, walk, succ, closed, held, nodeBlock, top>>

\* A call is bracketed by the SAVE and RESTORE that ir_preserve fills in.
GenCall ==
    /\ Turn({"CALL"}, 1)
    /\ code' = [code EXCEPT ![Top.block] =
                  @ \o <<Instr("SAVE", nextValue, <<>>, <<>>),
                         Instr("CALL", nextValue + 1, KidResults(Top.node), <<>>),
                         Instr("RESTORE", nextValue + 2, <<>>, <<>>)>>]
    /\ nextValue' = nextValue + 3
    /\ SetResult(Top.node, nextValue + 1)
    /\ worklist' = Rest
    /\ UNCHANGED <<ast, walk, succ, closed, held, nodeBlock, top, symtab, varId>>

-----------------------------------------------------------------------------
(* BLOCK: the body is generated into a block of its own; every leaf of the  *)
(* body then returns the body's value.                                      *)

GenBlockEnter ==
    /\ Turn({"BLOCK"}, 0)
    /\ LET body == NextBlock IN
       /\ Emit(Grown(code, 1), Top.block,
               Instr("BLOCK", nextValue, <<>>, <<body>>))
       /\ succ' = Grown(succ, 1)
       /\ worklist' = Rest \o <<Item(Top.node, Top.block, 1),
                                Item(Kid(Top.node, 1), body, 0)>>
    /\ held' = [held EXCEPT ![Top.node] = <<Top.block, Len(code[Top.block]) + 1>>]
    /\ UNCHANGED <<ast, walk, closed, result, nodeBlock, top, symtab, varId>>

HeldInstr(node) == code[held[node][1]][held[node][2]]

\* (mutant: the block that contains the body returns, not the body)
GenBlockLeaveOuter ==
    /\ Turn({"BLOCK"}, 1)
    /\ SetResult(Top.node, HeldInstr(Top.node).id)
    /\ walk' = <<Frame("return", Top.node, Top.block, NoBlock, 0,
                       KidResult(Top.node, 1))>>
    /\ worklist' = Rest
    /\ UNCHANGED <<ast, code, succ, closed, nextValue, held, nodeBlock, top,
                   symtab, varId>>

GenBlockLeave ==
    /\ Turn({"BLOCK"}, 1)
    /\ SetResult(Top.node, HeldInstr(Top.node).id)
    /\ walk' = <<Frame("return", Top.node, HeldInstr(Top.node).blks[1], NoBlock, 0,
                       KidResult(Top.node, 1))>>
    /\ worklist' = Rest
    /\ UNCHANGED <<ast, code, succ, closed, nextValue, held, nodeBlock, top,
                   symtab, varId>>

-----------------------------------------------------------------------------
(* AND, OR: the second argument in a block of its own, both paths meeting   *)
(* in a merge block that begins with a PHI.                                 *)

GenShortCircuit ==
    /\ Turn({"AND", "OR"}, 1)
    /\ LET eval == NextBlock
           merge == NextBlock + 1
       IN  /\ Emit(Grown(code, 2), Top.block,
                   Instr("BRANCH", nextValue, <<KidResult(Top.node, 1)>>,
                         IF ast[Top.node].kind = "AND" THEN <<eval, merge>>
                                                       ELSE <<merge, eval>>))
           /\ succ' = [Grown(succ, 2) EXCEPT
                          ![Top.block] = @ \o <<eval, merge>>]
           /\ worklist' = Rest \o <<Item(Top.node, Top.block, 2),
                                    Item(Kid(Top.node, 2), eval, 0)>>
    /\ held' = [held EXCEPT ![Top.node] = <<Top.block, Len(code[Top.block]) + 1>>]
    /\ UNCHANGED <<ast, walk, closed, result, nodeBlock, top, symtab, varId>>

Evaluated(node) == HeldInstr(node).blks[IF ast[node].kind = "AND" THEN 1 ELSE 2]
Merged(node) == HeldInstr(node).blks[IF ast[node].kind = "AND" THEN 2 ELSE 1]

GenShortCircuitMerge ==
    /\ Turn({"AND", "OR"}, 2)
    /\ LET eval == Evaluated(Top.node)
           merge == Merged(Top.node)
       IN  /\ Emit(code, merge,
                   Instr("PHI", nextValue, <<KidResult(Top.node, 1)>>,
                         <<Top.block>>))
           /\ walk' = <<Frame("phi", Top.node, eval, merge, Len(code[merge]) + 1,
                              KidResult(Top.node, 2)),
                        Frame("link", Top.node, eval, merge, 0, NoId),
                        Frame("rewrite", Top.node, Top.block, merge, 0, NoId)>>
    /\ SetResult(Top.node, nextValue)
    /\ worklist' = Rest
    /\ UNCHANGED <<ast, succ, closed, held, nodeBlock, top, symtab, varId>>

-----------------------------------------------------------------------------
(* IF: two blocks, and a third one in which they meet. *)

GenIfBranch ==
    /\ Turn({"IF"}, 1)
    /\ LET then == NextBlock
           else == NextBlock + 1
       IN  /\ Emit(Grown(code, 2), Top.block,
                   Instr("BRANCH", nextValue, <<KidResult(Top.node, 1)>>,
                         <<then, else>>))
           /\ succ' = [Grown(succ, 2) EXCEPT
                          ![Top.block] = @ \o <<then, else>>]
           /\ worklist' = Rest \o <<Item(Top.node, Top.block, 2),
                                    Item(Kid(Top.node, 3), else, 0),
                                    Item(Kid(Top.node, 2), then, 0)>>
    /\ held' = [held EXCEPT ![Top.node] = <<Top.block, Len(code[Top.block]) + 1>>]
    /\ UNCHANGED <<ast, walk, closed, result, nodeBlock, top, symtab, varId>>

\* (mutant: an IF stands for the value of its first path, not for the PHI)
GenIfMergeThen ==
    /\ Turn({"IF"}, 2)
    /\ LET then == HeldInstr(Top.node).blks[1]
           else == HeldInstr(Top.node).blks[2]
           merge == NextBlock
       IN  /\ Emit(Grown(code, 1), merge, Instr("PHI", nextValue, <<>>, <<>>))
           /\ walk' = <<Frame("phi", Top.node, then, merge, 1, KidResult(Top.node, 2)),
                        Frame("phi", Top.node, else, merge, 1, KidResult(Top.node, 3)),
                        Frame("link", Top.node, then, merge, 0, NoId),
                        Frame("link", Top.node, else, merge, 0, NoId),
                        Frame("rewrite", Top.node, Top.block, merge, 1, NoId)>>
    /\ succ' = Grown(succ, 1)
    /\ SetResult(Top.node, KidResult(Top.node, 2))
    /\ worklist' = Rest
    /\ UNCHANGED <<ast, closed, held, nodeBlock, top, symtab, varId>>

GenIfMerge ==
    /\ Turn({"IF"}, 2)
    /\ LET then == HeldInstr(Top.node).blks[1]
           else == HeldInstr(Top.node).blks[2]
           merge == NextBlock
       IN  /\ Emit(Grown(code, 1), merge, Instr("PHI", nextValue, <<>>, <<>>))
           /\ walk' = <<Frame("phi", Top.node, then, merge, 1, KidResult(Top.node, 2)),
                        Frame("phi", Top.node, else, merge, 1, KidResult(Top.node, 3)),
                        Frame("link", Top.node, then, merge, 0, NoId),
                        Frame("link", Top.node, else, merge, 0, NoId),
                        Frame("rewrite", Top.node, Top.block, merge, 1, NoId)>>
    /\ succ' = Grown(succ, 1)
    /\ SetResult(Top.node, nextValue)
    /\ worklist' = Rest
    /\ UNCHANGED <<ast, closed, held, nodeBlock, top, symtab, varId>>

-----------------------------------------------------------------------------
(* WHILE: the condition in a block of its own, to which the body's leaves   *)
(* jump back.  The BRANCH goes where the condition ended (node->block), the *)
(* successors to the block of the item.                                     *)

GenWhileEnter ==
    /\ Turn({"WHILE"}, 0)
    /\ LET cond == NextBlock IN
       /\ code' = [Grown(code, 1) EXCEPT ![Top.block] =
                      @ \o <<Const("CONST_NULL", nextValue, Null),
                             Instr("JUMP", nextValue + 1, <<>>, <<cond>>)>>]
       /\ succ' = [Grown(succ, 1) EXCEPT ![Top.block] = Append(@, cond)]
       /\ worklist' = Rest \o <<Item(Top.node, Top.block, 1),
                                Item(Kid(Top.node, 1), cond, 0)>>
       /\ nodeBlock' = [nodeBlock EXCEPT ![Top.node] = cond]
       /\ top' = [top EXCEPT ![Top.node] = cond]
    /\ nextValue' = nextValue + 2
    /\ SetResult(Top.node, nextValue)
    /\ UNCHANGED <<ast, walk, closed, held, symtab, varId>>

\* The block that gets the successors (mutant: the one with the BRANCH).
WhileFromBranch == nodeBlock[Top.node]
WhileFrom == Top.block

\* (mutant: truthy and falsey swapped)
GenWhileBranchSwapped ==
    /\ Turn({"WHILE"}, 1)
    /\ LET body == NextBlock
           exit == NextBlock + 1
           end == nodeBlock[Top.node]
       IN  /\ Emit(Grown(code, 2), end,
                   Instr("BRANCH", nextValue, <<KidResult(Top.node, 1)>>,
                         <<exit, body>>))
           /\ held' = [held EXCEPT ![Top.node] = <<end, Len(code[end]) + 1>>]
           /\ succ' = [Grown(succ, 2) EXCEPT ![WhileFrom] = @ \o <<body, exit>>]
           /\ worklist' = Rest \o <<Item(Top.node, Top.block, 2),
                                    Item(Kid(Top.node, 2), body, 0)>>
    /\ UNCHANGED <<ast, walk, closed, result, nodeBlock, top, symtab, varId>>

GenWhileBranch ==
    /\ Turn({"WHILE"}, 1)
    /\ LET body == NextBlock
           exit == NextBlock + 1
           end == nodeBlock[Top.node]
       IN  /\ Emit(Grown(code, 2), end,
                   Instr("BRANCH", nextValue, <<KidResult(Top.node, 1)>>,
                         <<body, exit>>))
           /\ held' = [held EXCEPT ![Top.node] = <<end, Len(code[end]) + 1>>]
           /\ succ' = [Grown(succ, 2) EXCEPT ![WhileFrom] = @ \o <<body, exit>>]
           /\ worklist' = Rest \o <<Item(Top.node, Top.block, 2),
                                    Item(Kid(Top.node, 2), body, 0)>>
    /\ UNCHANGED <<ast, walk, closed, result, nodeBlock, top, symtab, varId>>

GenWhileLoop ==
    /\ Turn({"WHILE"}, 2)
    /\ LET body == HeldInstr(Top.node).blks[1]
           exit == HeldInstr(Top.node).blks[2]
       IN  walk' = <<Frame("jump", Top.node, body, top[Top.node], 0, NoId),
                     Frame("rewrite", Top.node, Top.block, exit, 0, NoId)>>
    /\ worklist' = Rest
    /\ UNCHANGED <<ast, code, succ, closed, nextValue, result, held, nodeBlock,
                   top, symtab, varId>>

-----------------------------------------------------------------------------
(* The walks over the successors. *)

Walks == {"phi", "jump", "return"}     \* one per function ir_successor_*

Call == Head(walk)
Walking(do) == walk # <<>> /\ Call.do \in do

\* A block with successor_count 0.
Open(b) == succ[b] = <<>> /\ b \notin closed

\* (mutant: a PHI never gets more entries than its blocks array was made for)
WalkJumpTwoEntries ==
    /\ Walking({"phi", "jump"})
    /\ Call.block # Call.jump
    /\ Open(Call.block)
    /\ LET jump == Instr("JUMP", nextValue, <<>>, <<Call.jump>>)
           c == IF \/ Call.do = "jump"
                   \/ Len(code[Call.jump][Call.at].args) >= 2 THEN code
                ELSE [code EXCEPT
                        ![Call.jump][Call.at].args = Append(@, Call.value),
                        ![Call.jump][Call.at].blks = Append(@, Call.block)]
       IN  Emit(c, Call.block, jump)
    /\ succ' = [succ EXCEPT ![Call.block] = Append(@, Call.jump)]
    /\ walk' = Tail(walk)
    /\ UNCHANGED <<ast, worklist, closed, result, held, nodeBlock, top, symtab,
                   varId>>

\* ir_successor_emit, and ir_successor_emit_phi, which also gives the PHI
\* the value that comes from this leaf.
WalkJump ==
    /\ Walking({"phi", "jump"})
    /\ Call.block # Call.jump
    /\ Open(Call.block)
    /\ LET jump == Instr("JUMP", nextValue, <<>>, <<Call.jump>>)
           c == IF Call.do = "jump" THEN code
                ELSE [code EXCEPT
                        ![Call.jump][Call.at].args = Append(@, Call.value),
                        ![Call.jump][Call.at].blks = Append(@, Call.block)]
       IN  Emit(c, Call.block, jump)
    /\ succ' = [succ EXCEPT ![Call.block] = Append(@, Call.jump)]
    /\ walk' = Tail(walk)
    /\ UNCHANGED <<ast, worklist, closed, result, held, nodeBlock, top, symtab,
                   varId>>

WalkReturn ==
    /\ Walking({"return"})
    /\ Open(Call.block)
    /\ Emit(code, Call.block, Instr("RETURN", nextValue, <<Call.value>>, <<>>))
    /\ closed' = closed \cup {Call.block}
    /\ walk' = Tail(walk)
    /\ UNCHANGED <<ast, worklist, succ, result, held, nodeBlock, top, symtab,
                   varId>>

\* (mutant: only the first successor is followed)
WalkDescendFirst ==
    /\ Walking(Walks)
    /\ Call.block # Call.jump
    /\ ~Open(Call.block)
    /\ walk' = [i \in 1..(IF succ[Call.block] = <<>> THEN 0 ELSE 1) |->
                   [Call EXCEPT !.block = succ[Call.block][i]]] \o Tail(walk)
    /\ UNCHANGED <<ast, worklist, code, succ, closed, nextValue, result, held,
                   nodeBlock, top, symtab, varId>>

\* One call per successor (none for a closed block).
WalkDescend ==
    /\ Walking(Walks)
    /\ Call.block # Call.jump
    /\ ~Open(Call.block)
    /\ walk' = [i \in DOMAIN succ[Call.block] |->
                   [Call EXCEPT !.block = succ[Call.block][i]]] \o Tail(walk)
    /\ UNCHANGED <<ast, worklist, code, succ, closed, nextValue, result, held,
                   nodeBlock, top, symtab, varId>>

\* (mutant: ir_successor_emit walks into the block jumped to, where it ends)
WalkSkipEntered ==
    /\ Walking({"phi", "jump"})
    /\ Call.block = Call.jump
    /\ IF Call.do = "jump" /\ Open(Call.block)
       THEN Emit(code, Call.block, Instr("JUMP", nextValue, <<>>, <<Call.jump>>))
       ELSE UNCHANGED <<code, nextValue>>
    /\ walk' = Tail(walk)
    /\ UNCHANGED <<ast, worklist, succ, closed, result, held, nodeBlock, top,
                   symtab, varId>>

\* The block jumped to is not walked into (succ stays NULL).
WalkSkip ==
    /\ Walking({"phi", "jump"})
    /\ Call.block = Call.jump
    /\ walk' = Tail(walk)
    /\ UNCHANGED <<ast, worklist, code, succ, closed, nextValue, result, held,
                   nodeBlock, top, symtab, varId>>

\* ir_successor_add after the walks of AND, OR and IF.
WalkLink ==
    /\ Walking({"link"})
    /\ succ' = [succ EXCEPT ![Call.block] = Append(@, Call.jump)]
    /\ walk' = Tail(walk)
    /\ UNCHANGED <<ast, worklist, code, closed, nextValue, result, held,
                   nodeBlock, top, symtab, varId>>

\* (mutant: nothing moves)
WalkRewriteNothing ==
    /\ Walking({"rewrite"})
    /\ walk' = Tail(walk)
    /\ UNCHANGED <<ast, worklist, code, succ, closed, nextValue, result, held,
                   nodeBlock, top, symtab, varId>>

\* What was scheduled in the block that has just been left goes on in the
\* block where the paths meet.
WalkRewrite ==
    /\ Walking({"rewrite"})
    /\ worklist' = [i \in DOMAIN worklist |->
                      IF worklist[i].block = Call.block
                      THEN [worklist[i] EXCEPT !.block = Call.jump]
                      ELSE worklist[i]]
    /\ nodeBlock' =
          [n \in Nodes |->
              IF /\ nodeBlock[n] = Call.block
                 /\ \E i \in DOMAIN worklist :
                       worklist[i].node = n /\ worklist[i].block # Call.block
              THEN Call.jump
              ELSE nodeBlock[n]]
    /\ walk' = Tail(walk)
    /\ UNCHANGED <<ast, code, succ, closed, nextValue, result, held, top,
                   symtab, varId>>

-----------------------------------------------------------------------------
Finished == worklist = <<>> /\ walk = <<>>

\* ir_create returns: the machine rests.
Return == Finished /\ UNCHANGED vars

Generate ==
    \/ GenLiteral \/ GenIdentifier \/ GenNullary \/ GenSchedule
    \/ GenUnary \/ GenBinary \/ GenSlice \/ GenDump \/ GenExpr \/ GenAssign
    \/ GenCall \/ GenBlockEnter \/ GenBlockLeave
    \/ GenShortCircuit \/ GenShortCircuitMerge \/ GenIfBranch \/ GenIfMerge
    \/ GenWhileEnter \/ GenWhileBranch \/ GenWhileLoop
    \/ WalkJump \/ WalkReturn \/ WalkDescend \/ WalkSkip \/ WalkLink
    \/ WalkRewrite

Next == Generate \/ Return

Spec == Init /\ [][Next]_vars
FairSpec == Spec /\ WF_vars(Generate)
-----------------------------------------------------------------------------
(* What the generator promises. *)

Ops == ConstOps \cup UnaryOps \cup BinaryOps \cup Leaving \cup
       {"LOAD", "STORE", "PROMPT", "RANDOM", "BLOCK", "SAVE", "CALL", "RESTORE",
        "QUIT", "OUTPUT", "DUMP", "GET", "SET", "PHI"}

\* The operations whose result is a value of the program.
Defining == Ops \ (Leaving \cup {"STORE", "SAVE", "RESTORE", "DUMP"})

\* An instruction of a function that has the blocks bs.
Instruction(bs) ==
    [op : Ops, id : Nat, args : Seq(Int), blks : Seq(bs), var : Nat,
     val : Literals \cup {Null, Args}]

CodeOK ==
    /\ Blocks = 0..(NextBlock - 1) /\ NextBlock \in Nat
    /\ code \in [Blocks -> Seq(Instruction(Blocks))]
    /\ nextValue \in Nat

FlowOK ==
    /\ succ \in [Blocks -> Seq(Blocks)]
    /\ closed \subseteq Blocks
    /\ nodeBlock \in [Nodes -> Blocks \cup {NoBlock}]
    /\ top \in [Nodes -> Blocks \cup {NoBlock}]

WorkOK ==
    /\ worklist \in Seq([node : Nodes, block : Blocks, state : 0..2])
    /\ walk \in Seq([do : Walks \cup {"link", "rewrite"}, node : Nodes,
                     block : Blocks, jump : Blocks \cup {NoBlock}, at : Nat, value : Int])

TablesOK ==
    /\ result \in [Nodes -> Int]
    /\ held \in [Nodes -> Int \X Nat]
    /\ symtab \in [Names -> Nat]
    /\ varId \in Nat

\* Every variable keeps its type, and everything that refers to a node of
\* the tree or to a block (the worklist, the walks, the successors, the
\* targets of every instruction) refers to one that exists: the handlers of
\* ir_generate_ssa follow these pointers without a check.
TypeOK ==
    /\ WellFormedTree(ast, Literals, Names)
    /\ CodeOK
    /\ FlowOK
    /\ WorkOK
    /\ TablesOK

\* Single assignment: no two instructions of the function define the same
\* value, however the blocks were filled (ir_next, ir_emit); vm_run and
\* reg_allocate index their tables by it, and ir_create sizes them by
\* next_value_id.
UniqueIds ==
    \A b, c \in Blocks : \A i \in DOMAIN code[b], j \in DOMAIN code[c] :
        /\ code[b][i].id < nextValue
        /\ code[b][i].id = code[c][j].id => b = c /\ i = j

\* The instruction that node holds is one of these operations.
Holds(node, ops) ==
    /\ held[node][1] \in Blocks
    /\ held[node][2] \in DOMAIN code[held[node][1]]
    /\ HeldInstr(node).op \in ops

Shaped(ins) ==
    /\ ins.op = "BRANCH" => Len(ins.blks) = 2
    /\ ins.op = "BLOCK" => Len(ins.blks) = 1

ItemReady(item) ==
    LET kind == ast[item.node].kind IN
    /\ item.state = 1 /\ kind = "BLOCK" => Holds(item.node, {"BLOCK"})
    /\ item.state # 0 /\ kind = "WHILE" =>
          nodeBlock[item.node] # NoBlock /\ top[item.node] # NoBlock
    /\ item.state = 2 =>
          kind \in {"AND", "OR", "IF", "WHILE"} /\ Holds(item.node, {"BRANCH"})

FrameReady(frame) ==
    /\ frame.do # "return" =>
          frame.jump # NoBlock /\ Holds(frame.node, {"BRANCH"})
    /\ frame.do = "phi" \/ frame.at # 0 =>
          /\ frame.jump # NoBlock
          /\ frame.at \in DOMAIN code[frame.jump]
          /\ code[frame.jump][frame.at].op = "PHI"

\* What the handlers of the later states and the walks rely on: what
\* node->instruction points to has the targets they follow, also when they
\* read it again after a walk, node->block and node->top are set, and the PHI
\* a walk fills in is one.  With TypeOK and
\* UniqueIds this is inductive.
Pending ==
    /\ \A b \in Blocks : \A i \in DOMAIN code[b] : Shaped(code[b][i])
    /\ \A w \in DOMAIN worklist : ItemReady(worklist[w])
    /\ \A w \in DOMAIN walk : FrameReady(walk[w])

\* An operand was emitted before its use and is a value: no node->result is
\* read before the LIFO order has set it, and none names a STORE or a DUMP.
OperandsDefined ==
    \A b \in Blocks : \A i \in DOMAIN code[b] :
        \A k \in DOMAIN code[b][i].args :
            \E c \in Blocks : \E j \in DOMAIN code[c] :
                /\ code[c][j].id = code[b][i].args[k]
                /\ code[c][j].id < code[b][i].id
                /\ code[c][j].op \in Defining

\* Nothing that matters follows an instruction that leaves its block: what
\* the walks add behind one is a dead JUMP or RETURN.
NothingAfterLeaving ==
    \A b \in Blocks : \A i \in DOMAIN code[b] :
        i > LiveLength(code[b]) => code[b][i].op \in {"JUMP", "RETURN"}

\* The walks terminate: the recursion of ir_successor_* follows successors
\* and keeps no set of visited blocks, so a cycle would never end.  The loop
\* edge of a WHILE must not close one.
SuccessorsAcyclic ==
    \A b \in Blocks :
        b \notin LET reach[k \in 0..NextBlock] ==
                        IF k = 0 THEN {succ[b][i] : i \in DOMAIN succ[b]}
                        ELSE LET near == reach[k - 1]
                             IN  near \cup
                                 UNION {{succ[c][i] : i \in DOMAIN succ[c]} :
                                          c \in near}
                 IN reach[NextBlock]

\* What the node holds is the last instruction of its block.
LastInBlock(node) ==
    /\ held[node] # NoPos
    /\ held[node][2] = Len(code[held[node][1]])

\* node->instruction points into the instruction array of its block, which
\* ir_emit may move, and so does the `phi` of AND, OR and IF.  Until its last
\* use the block does not grow.  That use comes after the walks, which emit:
\* the handlers of AND, OR, IF and WHILE read node->instruction again for the
\* second walk, for the links and for the rewrite, and IF reads phi->result
\* when the links are done.  So the frames keep the node, and the blocks that
\* the model reads before the walks are what the code reads behind them.
HeldPointersStable ==
    /\ \A w \in DOMAIN worklist :
          LET n == worklist[w].node IN
          \/ ast[n].kind = "BLOCK" /\ worklist[w].state = 1
          \/ worklist[w].state = 2
          => LastInBlock(n)
    /\ \A w \in DOMAIN walk :
          /\ walk[w].do # "return" => LastInBlock(walk[w].node)
          /\ walk[w].at # 0 => walk[w].at = Len(code[walk[w].jump])

\* A block closed by a RETURN (successor_count -1) is never written again;
\* ir_successor_add would store at index -1 of its successors.
ClosedStays ==
    [][/\ closed \subseteq closed'
       /\ \A b \in closed : code'[b] = code[b] /\ succ'[b] = succ[b]]_vars

Roots == {0} \cup Bodies(code)

\* Control never falls off a block half way: from the entry every path stays
\* out of the bodies and only one block ends the program, and from a body
\* every block either goes on or returns.  vm_run leaves its loop at the end
\* of a block without a look at the stack.
ControlComplete ==
    Finished =>
        /\ \A r, q \in Roots :
              r # q => Reach(code, {r}, {}) \cap Reach(code, {q}, {}) = {}
        /\ \A b \in Reach(code, {0}, {}) : Exit(code[b]) # "RETURN"
        /\ Cardinality({b \in Reach(code, {0}, {}) : Exit(code[b]) = "END"}) = 1
        /\ \A r \in Bodies(code) : \A b \in Reach(code, {r}, {}) :
              Exit(code[b]) # "END"

\* Where the value v is defined, as <<block, position>>.
DefinitionOf(v) ==
    CHOOSE p \in UNION {{b} \X DOMAIN code[b] : b \in Blocks} :
        code[p[1]][p[2]].id = v

\* On every path from the root r to the end of block b, v has been defined.
DefinedAt(v, r, b) ==
    LET d == DefinitionOf(v)
    IN  d[2] <= LiveLength(code[d[1]]) /\ b \notin Reach(code, {r}, {d[1]})

\* Definitions dominate uses, on the control flow that vm_run follows and
\* not on the successor lists: no path reaches an operand whose register
\* was not written in this activation.
DefinitionsDominate ==
    Finished =>
        \A r \in Roots : \A b \in Reach(code, {r}, {}) :
            \A i \in 1..LiveLength(code[b]) :
                code[b][i].op # "PHI" =>
                    \A k \in DOMAIN code[b][i].args :
                        LET v == code[b][i].args[k] IN
                        IF DefinitionOf(v)[1] = b
                        THEN DefinitionOf(v)[2] < i
                        ELSE DefinedAt(v, r, b)

\* A PHI knows every block control can come from, and the entry vm_phi picks
\* for it, the first that matches, is a value defined there.
PhisComplete ==
    Finished =>
        \A r \in Roots : \A b \in Reach(code, {r}, {}) :
            \A i \in 1..LiveLength(code[b]) :
                code[b][i].op = "PHI" =>
                    \A p \in Reach(code, {r}, {}) :
                        b \in Targets(code[p]) =>
                            \E k \in DOMAIN code[b][i].blks :
                                /\ code[b][i].blks[k] = p
                                /\ \A j \in 1..(k - 1) : code[b][i].blks[j] # p
                                /\ DefinedAt(code[b][i].args[k], r, p)

\* ir_create returns for every tree.
Termination == <>Finished
=============================================================================
