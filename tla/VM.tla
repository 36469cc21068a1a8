--------------------------------- MODULE VM ---------------------------------
(***************************************************************************)
(* vm.c: the register machine that runs the code.                          *)
(*                                                                         *)
(* Registers are global: every activation of a block writes the same ones. *)
(* One flat stack of words holds the return record of each call (four      *)
(* words: the register of the result, the calling block, its predecessor   *)
(* and the index to go on at) and the values that SAVE pushed.  A word is  *)
(* a record [is, n, v]: `is` says what was pushed, and n of a saved value  *)
(* the register it came from; the machine never looks at either.           *)
(*                                                                         *)
(* What the values are is left to the parameters.                          *)
(*                                                                         *)
(* Where the code calls panic() because the machine itself is wrong (a pop *)
(* from an empty stack, "please report this as a bug"; a PHI without an    *)
(* entry for the predecessor; an operation it does not know) no action is  *)
(* enabled: TLC reports a deadlock.                                        *)
(***************************************************************************)
EXTENDS IR

CONSTANTS
    Zero,              \* what memset(0) leaves in a register
    BlockValue(_),     \* the value of a BLOCK
    IsBlock(_),        \* V_IS_BLOCK
    Target(_),         \* the block a block value points to
    Failed(_),         \* the result of an operation that stops the program
    Outcome(_),        \* the status it stops with
    Compute(_, _),     \* vm.h: an operation on its operands
    ToBoolean(_),      \* v_coerce_to_boolean
    IsTrue(_),         \* whether a boolean is true
    ToString(_),       \* v_coerce_to_string
    ToNumber(_),       \* v_coerce_to_number
    Randoms,           \* the values rand() may give
    Images,            \* what vm_run may be given: [code, values, varIds]
    Inputs,            \* what the standard input may hold
    MaxStack,          \* bound: words on the stack
    MaxOutput          \* bound: lines written

VARIABLES
    code,              \* vm->function, never changed by the machine
    block,             \* the running block
    previous,          \* the block control came from
    index,             \* the position of the next instruction, from 0
    registers, variables,
    stack,
    input,             \* the lines left on the standard input
    output,            \* what OUTPUT and DUMP wrote
    status,            \* "run", or how the program ended
    exit               \* the number QUIT ended it with, else Null

vars == <<code, block, previous, index, registers, variables, stack, input,
          output, status, exit>>

NoBlock == -1

Word(is, n, v) == [is |-> is, n |-> n, v |-> v]

\* vm_init and vm_constants: every constant of the function is in its
\* register before the first instruction runs.
InitialRegisters(values) ==
    LET all == UNION {{code[b][i] : i \in DOMAIN code[b]} : b \in DOMAIN code}
        preset(r) == {ins \in all : ins.id = r /\ (IsConst(ins) \/ ins.op = "OUTPUT")}
    IN  [r \in 0..(values - 1) |->
            IF preset(r) = {} THEN Zero
            ELSE LET ins == CHOOSE ins \in preset(r) : TRUE
                 IN  IF ins.op = "OUTPUT" THEN Null ELSE ins.val]

InitialVariables(varIds) == [x \in 0..varIds |-> Zero]

\* The state in which vm_run enters its loop.
Init ==
    /\ \E f \in Images :
          /\ code = f.code
          /\ registers = InitialRegisters(f.values)
          /\ variables = InitialVariables(f.varIds)
    /\ input \in Inputs
    /\ block = 0
    /\ previous = NoBlock
    /\ index = 0
    /\ stack = <<>>
    /\ output = <<>>
    /\ status = "run"
    /\ exit = Null

-----------------------------------------------------------------------------
Current == code[block][index + 1]
Operand(k) == registers[Current.args[k]]
Operands == [k \in DOMAIN Current.args |-> Operand(k)]

\* The machine is about to execute one of these operations.
At(ops) ==
    /\ status = "run"
    /\ index < Len(code[block])
    /\ Current.op \in ops

Step == index' = index + 1

Write(v) == registers' = [registers EXCEPT ![Current.id] = v]

Constant ==
    /\ At(ConstOps)
    /\ Step
    /\ UNCHANGED <<code, block, previous, registers, variables, stack, input,
                   output, status, exit>>

LoadVar ==
    /\ At({"LOAD"})
    /\ Step
    /\ Write(variables[Current.var])
    /\ UNCHANGED <<code, block, previous, variables, stack, input, output,
                   status, exit>>

StoreVar ==
    /\ At({"STORE"})
    /\ Step
    /\ variables' = [variables EXCEPT ![Current.var] = Operand(1)]
    /\ UNCHANGED <<code, block, previous, registers, stack, input, output,
                   status, exit>>

\* vm_prompt: a line, or NULL at the end of the input.
Prompt ==
    /\ At({"PROMPT"})
    /\ Step
    /\ Write(IF input = <<>> THEN Null ELSE Head(input))
    /\ input' = IF input = <<>> THEN input ELSE Tail(input)
    /\ UNCHANGED <<code, block, previous, variables, stack, output, status,
                   exit>>

Random ==
    /\ At({"RANDOM"})
    /\ Step
    /\ \E v \in Randoms : Write(v)
    /\ UNCHANGED <<code, block, previous, variables, stack, input, output,
                   status, exit>>

MakeBlock ==
    /\ At({"BLOCK"})
    /\ Step
    /\ Write(BlockValue(Current.blks[1]))
    /\ UNCHANGED <<code, block, previous, variables, stack, input, output,
                   status, exit>>

\* An operation of vm.h, which may stop the program.
Operate ==
    /\ At(UnaryOps \cup BinaryOps \cup {"GET", "SET"})
    /\ Step
    /\ LET v == Compute(Current.op, Operands) IN
       IF Failed(v)
       THEN status' = Outcome(v) /\ UNCHANGED registers
       ELSE Write(v) /\ UNCHANGED status
    /\ UNCHANGED <<code, block, previous, variables, stack, input, output, exit>>

-----------------------------------------------------------------------------
(* Calls. *)

\* vm_call checks the target before it pushes anything.
Call ==
    /\ At({"CALL"})
    /\ IsBlock(Operand(1))
    /\ Len(stack) + 4 <= MaxStack
    /\ stack' = stack \o <<Word("result", Current.id, Null),
                           Word("block", block, Null),
                           Word("previous", previous, Null),
                           Word("index", index + 1, Null)>>
    /\ block' = Target(Operand(1))
    /\ index' = 0
    /\ UNCHANGED <<code, previous, registers, variables, input, output, status, exit>>

CallPanics ==
    /\ At({"CALL"})
    /\ ~IsBlock(Operand(1))
    /\ status' = "panic"
    /\ Step
    /\ UNCHANGED <<code, block, previous, registers, variables, stack, input,
                   output, exit>>

\* (mutant: the words are taken in the order in which they were pushed)
ReturnSwapped ==
    /\ At({"RETURN"})
    /\ Len(stack) >= 4
    /\ LET n == Len(stack) IN
       /\ index' = stack[n - 2].n
       /\ previous' = stack[n - 1].n
       /\ block' = stack[n].n
       /\ registers' = [registers EXCEPT ![stack[n - 3].n] = Operand(1)]
       /\ stack' = SubSeq(stack, 1, n - 4)
    /\ UNCHANGED <<code, variables, input, output, status, exit>>

\* RETURN takes four words, whatever they are.
Return ==
    /\ At({"RETURN"})
    /\ Len(stack) >= 4
    /\ LET n == Len(stack) IN
       /\ index' = stack[n].n
       /\ previous' = stack[n - 1].n
       /\ block' = stack[n - 2].n
       /\ registers' = [registers EXCEPT ![stack[n - 3].n] = Operand(1)]
       /\ stack' = SubSeq(stack, 1, n - 4)
    /\ UNCHANGED <<code, variables, input, output, status, exit>>

Save ==
    /\ At({"SAVE"})
    /\ Len(stack) + Len(Current.args) <= MaxStack
    /\ Step
    /\ stack' = stack \o [k \in DOMAIN Current.args |-> Word("value", Current.args[k], Operand(k))]
    /\ UNCHANGED <<code, block, previous, registers, variables, input, output,
                   status, exit>>

\* (mutant: a value goes into the register with the number of its operand)
RestoreByPlace ==
    /\ At({"RESTORE"})
    /\ Len(stack) >= Len(Current.args)
    /\ Step
    /\ LET base == Len(stack) - Len(Current.args) IN
       /\ registers' = [r \in DOMAIN registers |->
                            IF r + 1 \in DOMAIN Current.args THEN stack[base + r + 1].v
                            ELSE registers[r]]
       /\ stack' = SubSeq(stack, 1, base)
    /\ UNCHANGED <<code, block, previous, variables, input, output, status, exit>>

\* RESTORE pops the last saved value first.
Restore ==
    /\ At({"RESTORE"})
    /\ Len(stack) >= Len(Current.args)
    /\ Step
    /\ LET base == Len(stack) - Len(Current.args) IN
       /\ registers' =
             [r \in DOMAIN registers |->
                 IF \E k \in DOMAIN Current.args : Current.args[k] = r
                 THEN stack[base + (CHOOSE k \in DOMAIN Current.args :
                                       Current.args[k] = r)].v
                 ELSE registers[r]]
       /\ stack' = SubSeq(stack, 1, base)
    /\ UNCHANGED <<code, block, previous, variables, input, output, status, exit>>

-----------------------------------------------------------------------------
(* Control. *)

Branch ==
    /\ At({"BRANCH"})
    /\ LET condition == ToBoolean(Operand(1)) IN
       IF Failed(condition)
       THEN status' = Outcome(condition) /\ UNCHANGED block
       ELSE /\ block' = Current.blks[IF IsTrue(condition) THEN 1 ELSE 2]
            /\ UNCHANGED status
    /\ previous' = block
    /\ index' = 0
    /\ UNCHANGED <<code, registers, variables, stack, input, output, exit>>

Jump ==
    /\ At({"JUMP"})
    /\ previous' = block
    /\ block' = Current.blks[1]
    /\ index' = 0
    /\ UNCHANGED <<code, registers, variables, stack, input, output, status, exit>>

\* vm_phi: the first entry for the block control came from.
Incoming == {k \in DOMAIN Current.blks : Current.blks[k] = previous}

Phi ==
    /\ At({"PHI"})
    /\ Incoming # {}
    /\ Step
    /\ Write(Operand(CHOOSE k \in Incoming : \A j \in Incoming : k <= j))
    /\ UNCHANGED <<code, block, previous, variables, stack, input, output,
                   status, exit>>

Output ==
    /\ At({"OUTPUT"})
    /\ Len(output) < MaxOutput
    /\ Step
    /\ LET text == ToString(Operand(1)) IN
       IF Failed(text)
       THEN status' = Outcome(text) /\ UNCHANGED output
       ELSE output' = Append(output, text) /\ UNCHANGED status
    /\ UNCHANGED <<code, block, previous, registers, variables, stack, input, exit>>

Dump ==
    /\ At({"DUMP"})
    /\ Len(output) < MaxOutput
    /\ Step
    /\ output' = Append(output, Operand(1))
    /\ UNCHANGED <<code, block, previous, registers, variables, stack, input,
                   status, exit>>

Quit ==
    /\ At({"QUIT"})
    /\ Step
    /\ LET n == ToNumber(Operand(1)) IN
       IF Failed(n)
       THEN status' = Outcome(n) /\ UNCHANGED exit
       ELSE status' = "quit" /\ exit' = n
    /\ UNCHANGED <<code, block, previous, registers, variables, stack, input,
                   output>>

\* The loop of vm_run ends where a block ends, whatever is on the stack.
End ==
    /\ status = "run"
    /\ index >= Len(code[block])
    /\ status' = "done"
    /\ UNCHANGED <<code, block, previous, index, registers, variables, stack,
                   input, output, exit>>

\* A bound of the model is reached: the run is not followed further.
Limit ==
    /\ \/ At({"CALL"}) /\ IsBlock(Operand(1)) /\ Len(stack) + 4 > MaxStack
       \/ At({"SAVE"}) /\ Len(stack) + Len(Current.args) > MaxStack
       \/ At({"OUTPUT", "DUMP"}) /\ Len(output) >= MaxOutput
    /\ status' = "limit"
    /\ UNCHANGED <<code, block, previous, index, registers, variables, stack,
                   input, output, exit>>

Execute ==
    \/ Constant \/ LoadVar \/ StoreVar \/ Prompt \/ Random \/ MakeBlock
    \/ Operate \/ Call \/ CallPanics \/ Return \/ Save \/ Restore
    \/ Branch \/ Jump \/ Phi \/ Output \/ Dump \/ Quit \/ End \/ Limit

Stopped == status # "run" /\ UNCHANGED vars

Next == Execute \/ Stopped

Spec == Init /\ [][Next]_vars
=============================================================================
