--------------------------------- MODULE IR ---------------------------------
(***************************************************************************)
(* The intermediate representation of ir.h that the generator writes, the  *)
(* optimizer rewrites and the virtual machine runs, and the control flow   *)
(* a reader of it sees.                                                    *)
(*                                                                         *)
(* A function is a map `code` from block ids to sequences of instructions. *)
(* An ir_instruction_t is a record:                                        *)
(*   op    the operation, IR_ADD written "ADD"                             *)
(*   id    instr->result, the SSA value (and register) it defines          *)
(*   args  generic.operands, var.value, branch.condition or phi.phi_values *)
(*   blks  phi.phi_blocks, <<truthy, falsey>>, <<jump>> or <<function>>    *)
(*   var   var.var_id                                                      *)
(*   val   constant.value                                                  *)
(***************************************************************************)
EXTENDS Integers, Sequences, FiniteSets

CONSTANT Null            \* the value a TYPE_NULL word stands for

Instr(op, id, args, blks) ==
    [op |-> op, id |-> id, args |-> args, blks |-> blks, var |-> 0, val |-> Null]
Const(op, id, val) == [Instr(op, id, <<>>, <<>>) EXCEPT !.val = val]
Load(id, var) == [Instr("LOAD", id, <<>>, <<>>) EXCEPT !.var = var]
Store(id, var, value) == [Instr("STORE", id, <<value>>, <<>>) EXCEPT !.var = var]

ConstOps == {"CONST_NUMBER", "CONST_STRING", "CONST_BOOLEAN", "CONST_NULL",
             "CONST_ARRAY"}

IsConst(ins) == ins.op \in ConstOps

UnaryOps == {"NOT", "NEG", "LENGTH", "BOX", "ASCII", "PRIME", "ULTIMATE"}
BinaryOps == {"ADD", "SUB", "MUL", "DIV", "MOD", "POW", "GT", "LT", "EQ"}

\* The operations that leave a block (ir.h has no terminator flag in use).
Leaving == {"BRANCH", "JUMP", "RETURN"}

-----------------------------------------------------------------------------
(* Control flow as vm_run follows it: a block runs up to its first leaving  *)
(* instruction, whatever was emitted after it.                              *)

Leaves(is) == \E i \in DOMAIN is : is[i].op \in Leaving

LiveLength(is) ==
    IF Leaves(is)
    THEN CHOOSE i \in DOMAIN is :
            /\ is[i].op \in Leaving
            /\ \A j \in 1..(i - 1) : is[j].op \notin Leaving
    ELSE Len(is)

Live(is) == SubSeq(is, 1, LiveLength(is))

Exit(is) == IF Leaves(is) THEN is[LiveLength(is)].op ELSE "END"

Targets(is) ==
    IF Exit(is) \in {"BRANCH", "JUMP"}
    THEN LET t == is[LiveLength(is)].blks IN {t[i] : i \in DOMAIN t}
    ELSE {}

\* The blocks control can reach from the blocks `from` without entering `cut`.
Reach(code, from, cut) ==
    LET r[k \in 0..Cardinality(DOMAIN code)] ==
            IF k = 0 THEN from \ cut
            ELSE LET near == r[k - 1]
                 IN  near \cup ((UNION {Targets(code[b]) : b \in near}) \ cut)
    IN  r[Cardinality(DOMAIN code)]

\* The blocks a BLOCK instruction makes callable.
Bodies(code) ==
    {code[p[1]][p[2]].blks[1] :
        p \in {q \in UNION {{b} \X DOMAIN code[b] : b \in DOMAIN code} :
                 code[q[1]][q[2]].op = "BLOCK"}}
=============================================================================
