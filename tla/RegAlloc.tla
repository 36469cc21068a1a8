------------------------------ MODULE RegAlloc ------------------------------
(***************************************************************************)
(* jit/reg.c: a register or a stack slot for every value, as a function    *)
(* from the code and the ends of the live ranges.                          *)
(*                                                                         *)
(* A home is [reg, slot], where -1 is none.                                *)
(***************************************************************************)
EXTENDS IR, SequencesExt

CONSTANT Registers        \* how many there are

Homeless == [reg |-> -1, slot |-> -1]

\* What is not computed at run time needs no home.
Homed(ins, end) ==
    /\ end[ins.id] # -1
    /\ ins.op \notin {"BLOCK", "CONST_NULL", "CONST_BOOLEAN", "CONST_NUMBER"}

\* (mutant: the slots are not counted)
SlotsStay(n) == n

\* stack_slot++.
NextSlot(n) == n + 1

\* The value gets the first register that is free, or the next slot.
Place(s, id, free) ==
    IF free # {}
    THEN LET r == CHOOSE x \in free : \A y \in free : x <= y
         IN  [s EXCEPT !.taken = ((0..(Registers - 1)) \ free) \cup {r},
                       !.home[id].reg = r]
    ELSE [s EXCEPT !.taken = 0..(Registers - 1), !.home[id].slot = s.slots,
                   !.slots = NextSlot(s.slots)]

\* One instruction, at an index that counts from 0: first the registers of the
\* values whose range ends, as an id, at this index are free.
AllocateAt(s, ins, index, end) ==
    LET given == {s.home[p].reg : p \in {q \in DOMAIN end : end[q] = index}}
        kept == s.taken \ given
    IN  IF Homed(ins, end) THEN Place(s, ins.id, (0..(Registers - 1)) \ kept) ELSE s

\* reg_allocate: the blocks in order, each from its last instruction.
Allocate(code, end) ==
    LET start == [taken |-> {}, home |-> [p \in DOMAIN end |-> Homeless],
                  slots |-> 0]
        inBlock(s, b) ==
            FoldLeft(LAMBDA t, i : AllocateAt(t, code[b][i], i - 1, end), s,
                     Reverse([i \in 1..Len(code[b]) |-> i]))
    IN  FoldLeft(inBlock, start, [i \in 1..Cardinality(DOMAIN code) |-> i - 1])

-----------------------------------------------------------------------------
(* What an allocation should be.                                            *)

Values(code) == UNION {{code[b][i].id : i \in DOMAIN code[b]} : b \in DOMAIN code}

\* Every value that needs a home has one, a register or a slot; nothing else
\* has one; and the frame holds each slot for one value.
Complete(code, end, a) ==
    /\ \A b \in DOMAIN code : \A i \in DOMAIN code[b] :
          LET h == a.home[code[b][i].id]
          IN  IF Homed(code[b][i], end)
              THEN (h.reg \in 0..(Registers - 1)) # (h.slot \in 0..(a.slots - 1))
              ELSE h = Homeless
    /\ \A p, q \in Values(code) :
          a.home[p].slot = a.home[q].slot /\ a.home[p].slot # -1 => p = q

\* The value of the instruction at i is still used behind the one at j.
UsedBehind(is, i, j) ==
    \E k \in (j + 1)..Len(is) :
        is[k].op \notin {"SAVE", "RESTORE"} /\ is[i].id \in Range(is[k].args)

\* Two values of a block, of which the first is still used when the second is
\* there, are in different registers.
Apart(code, a) ==
    \A b \in DOMAIN code : \A i, j \in DOMAIN code[b] :
        i < j /\ UsedBehind(code[b], i, j) /\ UsedBehind(code[b], j, j) =>
            LET u == a.home[code[b][i].id].reg
                v == a.home[code[b][j].id].reg
            IN  u = -1 \/ u # v
=============================================================================
