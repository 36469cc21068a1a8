-------------------------------- MODULE Opt --------------------------------
(***************************************************************************)
(* opt.c: the passes of ir_optimize, as functions from code to code.       *)
(*                                                                         *)
(* Compute gives the result of an operation on constants, or a value that  *)
(* is Failed where the operation would stop the program (vm.h).            *)
(***************************************************************************)
EXTENDS IR, FiniteSetsExt, SequencesExt

CONSTANTS Compute(_, _), Failed(_), ConstOp(_)

-----------------------------------------------------------------------------
(* ir_fold: an operation whose operands are constants of the same block     *)
(* becomes a constant itself, in block and instruction order.               *)

Folded == UnaryOps \cup BinaryOps \cup {"GET"}

\* ir_fetch.
Fetch(is, id) == SelectSeq(is, LAMBDA ins : ins.id = id)

ConstOperands(is, ins) ==
    \A k \in DOMAIN ins.args :
        LET f == Fetch(is, ins.args[k]) IN f # <<>> /\ IsConst(f[1])

FoldInstr(is, i) ==
    LET ins == is[i]
        v == Compute(ins.op, [k \in DOMAIN ins.args |->
                                Fetch(is, ins.args[k])[1].val])
    IN  IF ins.op \in Folded /\ ConstOperands(is, ins)
        THEN [is EXCEPT ![i] =
                Const(IF Failed(v) THEN "FAILED" ELSE ConstOp(v), ins.id, v)]
        ELSE is

FoldBlock(is) == FoldLeft(FoldInstr, is, [i \in 1..Len(is) |-> i])

Fold(code) == [b \in DOMAIN code |-> FoldBlock(code[b])]

\* The pass stopped the compiler: an operation on constants panicked.
FoldFails(code) ==
    \E b \in DOMAIN code : \E i \in DOMAIN FoldBlock(code[b]) :
        FoldBlock(code[b])[i].op = "FAILED"

-----------------------------------------------------------------------------
(* ir_drop: an instruction stays if it acts or if its result is used.       *)

\* ir_first_use looks at the operands of every operation but SAVE and
\* RESTORE, which have none yet.
Uses(code) ==
    UNION {UNION {Range(code[b][i].args) : i \in DOMAIN code[b]} :
             b \in DOMAIN code}

\* (mutant: a call whose value is not used is dropped)
ActingNoCall == {"OUTPUT", "DUMP", "STORE", "RETURN", "BRANCH", "JUMP", "QUIT",
                 "SAVE", "RESTORE"}
Acting == {"OUTPUT", "DUMP", "STORE", "RETURN", "BRANCH", "JUMP", "CALL", "QUIT",
           "SAVE", "RESTORE"}

\* A block is compacted before the next one is looked at, so that what an
\* instruction dropped from it used may be dropped from a later block.
DropBlock(code, b) ==
    LET used == Uses(code)
    IN  [code EXCEPT ![b] =
            SelectSeq(@, LAMBDA ins : ins.op \in Acting \/ ins.id \in used)]

BlockOrder(code) == [i \in 1..Cardinality(DOMAIN code) |-> i - 1]

Drop(code) == FoldLeft(DropBlock, code, BlockOrder(code))

-----------------------------------------------------------------------------
(* ir_ranges and ir_preserve. *)

\* tracked[v].end: the result of the last instruction, in block order, that
\* defines or uses v, and -1 where v is gone.
Touches(ins, v) == ins.id = v \/ (v \in Range(ins.args)
                                  /\ ins.op \notin {"SAVE", "RESTORE"})

RangeEnd(code, v) ==
    LET at == {b \in DOMAIN code : \E i \in DOMAIN code[b] : Touches(code[b][i], v)}
        is == code[Max(at)]
    IN  IF at = {} THEN -1
        ELSE is[Max({i \in DOMAIN is : Touches(is[i], v)})].id

\* The values to save around the CALL at position i: results of earlier
\* instructions of the same block that are not constants and whose range
\* ends, as an id, beyond the index of the call (i - 1 as C counts) in its
\* block.
Preserved(code, b, is, i) ==
    LET before == SelectSeq(SubSeq(is, 1, i - 1), LAMBDA ins :
                    ~IsConst(ins) /\ RangeEnd(code, ins.id) > i - 1)
    IN  [k \in DOMAIN before |-> before[k].id]

\* (mutant: the values are pushed and never popped)
PreserveCallNoRestore(code, b, is, i) ==
    LET ids == Preserved(code, b, is, i)
    IN  IF ids = <<>>
        THEN SubSeq(is, 1, i - 2) \o <<is[i]>> \o SubSeq(is, i + 2, Len(is))
        ELSE [is EXCEPT ![i - 1].args = ids]

\* One call: its SAVE and RESTORE get the operands, or go if there are none.
\* Removing them moves the instructions that follow two places up, and the
\* scan goes on behind the call.
PreserveCall(code, b, is, i) ==
    LET ids == Preserved(code, b, is, i)
    IN  IF ids = <<>>
        THEN SubSeq(is, 1, i - 2) \o <<is[i]>> \o SubSeq(is, i + 2, Len(is))
        ELSE [is EXCEPT ![i - 1].args = ids, ![i + 1].args = ids]

\* The calls of a block in order; a removal before a call shifts its position,
\* which is therefore looked up again.
PreserveBlock(code, b) ==
    LET calls == SelectSeq(code[b], LAMBDA ins : ins.op = "CALL")
        position(is, id) == CHOOSE i \in DOMAIN is : is[i].id = id
        step(is, call) == PreserveCall(code, b, is, position(is, call.id))
    IN  FoldLeft(step, code[b], calls)

Preserve(code) == [b \in DOMAIN code |-> PreserveBlock(code, b)]
=============================================================================
