--------------------------- MODULE MCDivergences ---------------------------
(***************************************************************************)
(* Single programs on which the interpreter does something else than the   *)
(* test suite or the README says, one for each statement.                  *)
(***************************************************************************)
EXTENDS Knight, Programs

Num(n) == Tok("NUMBER", Number(n), "_")
Var(x) == Tok("IDENTIFIER", Null, x)
Op(k) == Tok(k, Null, "_")

MCNames == {"_", "f", "n"}
MCArgs == List(<<>>)
MCRandoms == {Number(3)}
MCInputs == {<<Text(<<65>>), Text(<<66>>)>>}
MCLiterals == {Null, Boolean(FALSE)} \cup {Number(n) : n \in {0, 1, 3, 12}}

\* ; = n 3 ; = f BLOCK + n IF (= n - n 1) (CALL f) 0 : OUTPUT CALL f
SumAcrossBlocks ==
    {<<Op("EXPR"), Op("ASSIGN"), Var("n"), Num(3),
       Op("EXPR"), Op("ASSIGN"), Var("f"), Op("BLOCK"),
          Op("PLUS"), Var("n"),
             Op("IF"), Op("ASSIGN"), Var("n"), Op("MINUS"), Var("n"), Num(1),
                Op("CALL"), Var("f"),
                Num(0),
       Op("OUTPUT"), Op("CALL"), Var("f")>>}

\* OUTPUT IF FALSE (/ 1 0) 12
BranchNotTaken ==
    {<<Op("OUTPUT"), Op("IF"), Tok("BOOLEAN", Boolean(FALSE), "_"),
       Op("DIVIDE"), Num(1), Num(0), Num(12)>>}

\* ; PROMPT : OUTPUT PROMPT
SkippedLine ==
    {<<Op("EXPR"), Op("PROMPT"), Op("OUTPUT"), Op("PROMPT")>>}

\* ; = n 3 ; = f BLOCK IF n (+ n ; = n - n 1 : CALL f) 0 : OUTPUT CALL f
SumInBlock ==
    {<<Op("EXPR"), Op("ASSIGN"), Var("n"), Num(3),
       Op("EXPR"), Op("ASSIGN"), Var("f"), Op("BLOCK"),
          Op("IF"), Var("n"),
             Op("PLUS"), Var("n"), Op("EXPR"), Op("ASSIGN"), Var("n"),
                Op("MINUS"), Var("n"), Num(1), Op("CALL"), Var("f"),
             Num(0),
       Op("OUTPUT"), Op("CALL"), Var("f")>>}

-----------------------------------------------------------------------------
\* A function that calls itself finds what it had computed before the call as
\* it left it: the program writes the result it means (README.md:3,
\* "maintaining correctness").  ir_preserve saves only values of the block
\* the CALL is in (opt.c:204).
ResultsSurviveCalls ==
    Ended /\ status # "limit" => Shown(output) = Shown(meant.out)

\* The branch of an IF that is not taken is not executed: the program fails
\* only where its meaning does (tests/function/ternary/if.lua:4).  ir_fold
\* computes operations on constants wherever they are (opt.c:31).
OnlyTakenBranchFails ==
    status = "panic" => meant.status = "panic"

\* Every PROMPT reads one line (tests/function/nullary/prompt.lua:4).
\* ir_drop removes the one whose value is not used (opt.c:88-98).
EveryPromptReads ==
    status = "done" /\ meant.status = "done" => input = meant.inp
\* A register is freed when the lifetime of its value ends (jit/reg.c:30), so
\* a value that is still used is not overwritten.  What is compared is the end
\* as an id with the index of an instruction of another block (jit/reg.c:32).
LiveValuesApart == phase = "load" => Allocator!Apart(code, homes)
=============================================================================
