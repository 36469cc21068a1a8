------------------------------- MODULE Knight -------------------------------
(***************************************************************************)
(* knight.c: the whole interpreter with the JIT switched off.  A tree is   *)
(* turned into code (IRGen), the code is optimized in place by the three   *)
(* passes of ir_optimize (Opt), registers are allocated (RegAlloc), and    *)
(* the machine runs the code (VM), without a look at the registers.        *)
(***************************************************************************)
EXTENDS Reference

CONSTANTS
    Programs,          \* the token sequences of the programs
    Literals, Names, ArgsName, Args,
    Randoms, Inputs,
    Registers,         \* for machine code
    MaxStack, MaxOutput,
    Fuel               \* bound: steps of the reference semantics

VARIABLES
    phase,             \* which part of main() is next
    meant,             \* what the program means (history, never changed)
    ast, worklist, walk, code, succ, closed, nextValue, result, held,
    nodeBlock, top, symtab, varId,
    block, previous, index, registers, variables, stack, input, output,
    status, exit,
    homes              \* what reg_allocate returns

genVars == <<ast, worklist, walk, succ, closed, nextValue, result, held,
             nodeBlock, top, symtab, varId>>
vmVars == <<block, previous, index, registers, variables, stack, input, output,
            status, exit>>
vars == <<phase, meant, code, genVars, vmVars, homes>>

Target(v) == v.n
Outcome(v) == v.t
IsTrue(v) == v.n = 1
ConstOp(v) == CASE v.t = "boolean" -> "CONST_BOOLEAN"
                [] v.t = "list" -> "CONST_ARRAY"
                [] v.t = "number" -> "CONST_NUMBER"
                [] v.t = "string" -> "CONST_STRING"
                [] v.t = "null" -> "CONST_NULL"

Asts == {Tree(p) : p \in Programs}

Generator == INSTANCE IRGen
Optimizer == INSTANCE Opt
Allocator == INSTANCE RegAlloc
Machine == INSTANCE VM WITH Images <- {}

NoHomes == [taken |-> {}, home |-> <<>>, slots |-> 0]

Init ==
    /\ phase = "generate"
    /\ Generator!Init
    /\ block = 0
    /\ previous = -1
    /\ index = 0
    /\ registers = <<>>
    /\ variables = <<>>
    /\ stack = <<>>
    /\ input \in Inputs
    /\ output = <<>>
    /\ status = "run"
    /\ exit = Null
    /\ homes = NoHomes
    /\ meant = Meaning(ast, [x \in Names |-> IF x = ArgsName THEN Args ELSE Zero],
                       input, CHOOSE v \in Randoms : TRUE, Fuel)

Generate ==
    /\ phase = "generate"
    /\ Generator!Generate
    /\ UNCHANGED <<phase, meant, vmVars, homes>>

Generated ==
    /\ phase = "generate"
    /\ Generator!Finished
    /\ phase' = "fold"
    /\ UNCHANGED <<meant, code, genVars, vmVars, homes>>

\* ir_fold computes on constants with the operations of vm.h, which stop the
\* process where they fail: here, before the program has begun.
FoldPass ==
    /\ phase = "fold"
    /\ ~Optimizer!FoldFails(code)
    /\ code' = Optimizer!Fold(code)
    /\ phase' = "drop"
    /\ UNCHANGED <<meant, genVars, vmVars, homes>>

FoldPanic ==
    /\ phase = "fold"
    /\ Optimizer!FoldFails(code)
    /\ phase' = "stopped"
    /\ status' = "panic"
    /\ UNCHANGED <<meant, code, genVars, block, previous, index, registers, variables,
                   stack, input, output, exit, homes>>

DropPass ==
    /\ phase = "drop"
    /\ code' = Optimizer!Drop(code)
    /\ phase' = "preserve"
    /\ UNCHANGED <<meant, genVars, vmVars, homes>>

PreservePass ==
    /\ phase = "preserve"
    /\ code' = Optimizer!Preserve(code)
    /\ phase' = "allocate"
    /\ UNCHANGED <<meant, genVars, vmVars, homes>>

\* The table that ir_optimize returns: ir_preserve has computed it anew, if at
\* all, for code that differs in SAVEs and RESTOREs alone.
Ends == [v \in 0..(nextValue - 1) |-> Optimizer!RangeEnd(code, v)]

AllocateRegisters ==
    /\ phase = "allocate"
    /\ homes' = Allocator!Allocate(code, Ends)
    /\ phase' = "load"
    /\ UNCHANGED <<meant, code, genVars, vmVars>>

\* vm_init and vm_constants.
LoadMachine ==
    /\ phase = "load"
    /\ registers' = Machine!InitialRegisters(nextValue)
    /\ variables' = Machine!InitialVariables(varId)
    /\ phase' = "run"
    /\ UNCHANGED <<meant, code, genVars, block, previous, index, stack, input, output,
                   status, exit, homes>>

Run ==
    /\ phase = "run"
    /\ Machine!Execute
    /\ UNCHANGED <<phase, meant, genVars, homes>>

Ended == phase \in {"run", "stopped"} /\ status # "run"

Rest == Ended /\ UNCHANGED vars

Next ==
    \/ Generate \/ Generated \/ FoldPass \/ FoldPanic \/ DropPass
    \/ PreservePass \/ AllocateRegisters \/ LoadMachine \/ Run \/ Rest

Spec == Init /\ [][Next]_vars

\* One thread, and nothing it waits for: main() goes on while it can.  That a
\* pass ends is said of the phase alone.
NextPass ==
    \/ phase = "fold" /\ phase' \in {"drop", "stopped"}
    \/ phase = "drop" /\ phase' = "preserve"
    \/ phase = "preserve" /\ phase' = "allocate"
    \/ phase = "allocate" /\ phase' = "load"
    \/ phase = "load" /\ phase' = "run"

FairSpec ==
    Spec /\ WF_vars(Generate) /\ WF_vars(Generated) /\ WF_phase(NextPass)
         /\ WF_vars(Run)

-----------------------------------------------------------------------------
\* When the machine begins, every value that needs a home in machine code has
\* one, a register or a slot of the frame that is its own (jit/reg.c:46-53).
HomesComplete == phase = "load" => Allocator!Complete(code, Ends, homes)

-----------------------------------------------------------------------------
(* The machine on the code it was given. *)

Tags == {"number", "boolean", "null", "string", "list", "block"}

\* While the machine runs, it is at an instruction of the function or at the
\* end of a block, its tables have the sizes vm_init gave them, and a
\* register or variable holds a value: vm_run checks none of this.
TypeOK ==
    /\ phase \in {"generate", "fold", "drop", "preserve", "allocate", "load",
                 "run", "stopped"}
    /\ status \in {"run", "done", "quit", "panic", "fault", "limit"}
    /\ phase = "run" =>
          /\ block \in DOMAIN code
          /\ index \in 0..Len(code[block])
          /\ previous \in DOMAIN code \cup {-1}
          /\ DOMAIN registers = 0..(nextValue - 1)
          /\ DOMAIN variables = 0..varId
          /\ \A r \in DOMAIN registers : registers[r].t \in Tags
          /\ \A x \in DOMAIN variables : variables[x].t \in Tags

\* The last words of the stack are these.
OnTop(words) ==
    LET n == Len(stack)
        k == Len(words)
    IN  n >= k /\ \A i \in 1..k : stack[n - k + i].is = words[i]

Executing(op) ==
    phase = "run" /\ status = "run" /\ index < Len(code[block])
    /\ Machine!Current.op = op

\* The flat stack is used as a stack of frames: a RETURN finds the record of
\* the call it ends, which names that call's register and the place behind
\* it; a RESTORE finds the values of its own registers; and nothing is left
\* when control falls off the end of the program.
StackDiscipline ==
    /\ Executing("RETURN") =>
          /\ OnTop(<<"result", "block", "previous", "index">>)
          /\ LET n == Len(stack)
                 call == code[stack[n - 2].n][stack[n].n]
             IN  call.op = "CALL" /\ call.id = stack[n - 3].n
    /\ Executing("RESTORE") =>
          LET args == Machine!Current.args
              base == Len(stack) - Len(args)
          IN  /\ OnTop([k \in DOMAIN args |-> "value"])
              /\ \A k \in DOMAIN args : stack[base + k].n = args[k]
    /\ status = "done" => stack = <<>>

\* The constants are loaded once, before the first instruction, and are
\* skipped when control passes them: no instruction may write their registers.
ConstantsStay ==
    [][phase = "run" =>
          \A b \in DOMAIN code : \A i \in DOMAIN code[b] :
              Optimizer!IsConst(code[b][i]) =>
                  registers'[code[b][i].id] = registers[code[b][i].id]]_vars

-----------------------------------------------------------------------------
\* A block has no identity outside the process: DUMP shows its address.
Shown(out) == [i \in DOMAIN out |-> IF IsBlock(out[i]) THEN BlockValue(0) ELSE out[i]]

\* The same lines in the same order, the same end, the same exit code, and
\* the same input consumed.
SameEnd(m) ==
    /\ status = m.status
    /\ Shown(output) = Shown(m.out)
    /\ exit = m.exit
    /\ input = m.inp

\* A program that does not fail by its own meaning ends as it means: the
\* worklist order, the blocks, the folding, dropping and saving, and the
\* machine leave nothing of it out and add nothing (README.md:3, "while
\* maintaining correctness").
Agrees ==
    Ended /\ status # "limit" =>
        meant.status \in {"panic", "fault"} \/ SameEnd(meant)

\* A program whose meaning is finite comes to its end: no loop goes on for
\* ever, and the machine is never at an instruction it cannot execute.
Terminates == meant.status # "fuel" => <>Ended
=============================================================================
