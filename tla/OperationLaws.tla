--------------------------- MODULE OperationLaws ---------------------------
(***************************************************************************)
(* One operation of vm.h at a time, on any operands of a set, and the laws *)
(* that relate the results of different operations, or of one operation    *)
(* and its definition in mathematics.                                      *)
(***************************************************************************)
EXTENDS Operations, FiniteSets

CONSTANTS
    Operands         \* for each operation, the operands it is tried on

VARIABLES
    question,        \* the application
    answer           \* its result, once Compute has run

vars == <<question, answer>>

NoAnswer == Value("none", 0, <<>>)

Init ==
    /\ \E op \in DOMAIN Operands : \E args \in Operands[op] :
          question = [op |-> op, args |-> args]
    /\ answer = NoAnswer

Apply ==
    /\ answer = NoAnswer
    /\ answer' = Compute(question.op, question.args)
    /\ UNCHANGED question

Rest == answer # NoAnswer /\ UNCHANGED vars

Next == Apply \/ Rest

Spec == Init /\ [][Next]_vars

-----------------------------------------------------------------------------
Answered(ops) == answer # NoAnswer /\ question.op \in ops

Arg(k) == question.args[k]
Left == Arg(1)
Right == Arg(2)
Yes(op, l, r) == Compute(op, <<l, r>>) = Boolean(TRUE)

\* One answer per question: a value of the width of a word, or a stop.
TypeOK ==
    answer # NoAnswer =>
        /\ answer.t \in {"number", "boolean", "string", "list", "null", "panic",
                         "fault"}
        /\ answer.t = "number" =>
              answer.n \in (-(2^(Bits - 1)))..(2^(Bits - 1) - 1)

\* Of two values of one ordered type exactly one of <, ? and > is true, and
\* < is > read from the other side: vm_lt and vm_gt are two functions with
\* their own coercions and comparisons, vm_eq is a third.
Trichotomy ==
    Answered({"LT", "GT", "EQ"})
      /\ Left.t = Right.t /\ Left.t \in {"number", "boolean", "string"} =>
        /\ Cardinality({op \in {"LT", "GT", "EQ"} : Yes(op, Left, Right)}) = 1
        /\ Yes("LT", Left, Right) <=> Yes("GT", Right, Left)

\* The order of strings is the lexicographic one of their characters
\* (src/tests/function/binary/less-than.lua, "performs lexicographical
\* comparison"): a proper prefix comes first, else the first difference
\* decides.
Lexicographic ==
    Answered({"LT"}) /\ Left.t = "string" /\ Right.t = "string" =>
        (answer = Boolean(TRUE) <=>
            LET l == Left.s
                r == Right.s
                agree(k) == \A i \in 1..k : l[i] = r[i]
            IN  \/ Len(l) < Len(r) /\ agree(Len(l))
                \/ \E k \in 0..(Len(l) - 1) :
                      k < Len(r) /\ agree(k) /\ l[k + 1].n < r[k + 1].n)

\* / truncates towards zero and % is what it leaves, in the width of a word:
\* the quotient of the least number by -1 wraps (vm.h:292, vm.h:316).
DivisionLaw ==
    /\ Answered({"DIV"}) /\ ~Failed(answer) /\ Left.t = "number"
         /\ Right.t = "number" =>
          LET rest == Left.n - answer.n * Right.n
              size(n) == IF n < 0 THEN -n ELSE n
          IN  \/ Left.n = -(2^(Bits - 1)) /\ Right.n = -1 /\ answer = Left
              \/ size(rest) < size(Right.n) /\ rest * Left.n >= 0
    /\ Answered({"MOD"}) /\ ~Failed(answer) /\ Right.t = "number" =>
          LET q == Compute("DIV", <<Left, Right>>)
          IN  answer = Number(Left.n - q.n * Right.n)

\* ^ is repeated multiplication in the width of a word, however the squaring
\* in wider intermediate words overflowed (vm.h:346-350).
PowerLaw ==
    Answered({"POW"}) /\ Left.t = "number" /\ Right.t = "number" /\ Right.n >= 0 =>
        LET product[k \in 0..Right.n] ==
                IF k = 0 THEN Number(1)
                ELSE Compute("MUL", <<product[k - 1], Left>>)
        IN  answer = product[Right.n]

\* SET of a range inside a string or a list succeeds.  What it put in can be
\* read back by GET from where it was put, and what was before and behind the
\* replaced range is still there (src/tests/function/quaternary/set.lua, "can replace substrings" and
\* "can replace sublists").
SpliceLaw ==
    Answered({"SET"}) /\ Arg(4).t = Left.t /\ Arg(2).n >= 0 /\ Arg(3).n >= 0
      /\ Arg(2).n + Arg(3).n <= Len(Left.s) =>
        LET new == Len(Arg(4).s)
            from == Arg(2).n
            range == Arg(3).n
            behind == Len(Left.s) - from - range
            read(v, i, n) == Compute("GET", <<v, Number(i), Number(n)>>)
        IN  /\ ~Failed(answer)
            /\ Len(answer.s) = from + new + behind
            /\ new > 0 => read(answer, from, new) = Arg(4)
            /\ from > 0 => read(answer, 0, from) = read(Left, 0, from)
            /\ behind > 0 => read(answer, from + new, behind)
                             = read(Left, from + range, behind)

\* A list is only equal to a list of the same items
\* (src/tests/function/binary/equals.lua:99).
ListsEqualItemwise ==
    Answered({"EQ"}) /\ Left.t = "list" /\ Right.t = "list" =>
        (answer = Boolean(TRUE) => Left = Right)
=============================================================================
