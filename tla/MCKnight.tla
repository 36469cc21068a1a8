------------------------------ MODULE MCKnight ------------------------------
(***************************************************************************)
(* Knight on every small program of two vocabularies and on some larger    *)
(* programs with loops, calls and recursion.                               *)
(***************************************************************************)
EXTENDS Knight, Programs, FiniteSetsExt

CONSTANTS MaxSize, MaxNested

Num(n) == Tok("NUMBER", Number(n), "_")
Var(x) == Tok("IDENTIFIER", Null, x)
Op(k) == Tok(k, Null, "_")

MCNames == {"_", "x", "f", "n"}
MCArgs == List(<<>>)
MCRandoms == {Number(3)}
MCInputs == {<<>>, <<Text(<<53>>)>>}
MCLiterals == {Null} \cup {Number(n) : n \in 0..3}

\* ; = x 0 ; WHILE < x 3 = x + x 1 : OUTPUT x
CountingLoop ==
    <<Op("EXPR"), Op("ASSIGN"), Var("x"), Num(0),
      Op("EXPR"), Op("WHILE"), Op("LESS"), Var("x"), Num(3),
                  Op("ASSIGN"), Var("x"), Op("PLUS"), Var("x"), Num(1),
      Op("OUTPUT"), Var("x")>>

\* ; = n 3 ; = f BLOCK IF n (+ n ; = n - n 1 : CALL f) 0 : OUTPUT CALL f
SumBySameBlock ==
    <<Op("EXPR"), Op("ASSIGN"), Var("n"), Num(3),
      Op("EXPR"), Op("ASSIGN"), Var("f"), Op("BLOCK"),
         Op("IF"), Var("n"),
            Op("PLUS"), Var("n"), Op("EXPR"), Op("ASSIGN"), Var("n"),
               Op("MINUS"), Var("n"), Num(1), Op("CALL"), Var("f"),
            Num(0),
      Op("OUTPUT"), Op("CALL"), Var("f")>>

\* ; = x PROMPT : IF x (; OUTPUT + x PROMPT : QUIT + 1 x) DUMP BLOCK x
ReadAndQuit ==
    <<Op("EXPR"), Op("ASSIGN"), Var("x"), Op("PROMPT"),
      Op("IF"), Var("x"),
         Op("EXPR"), Op("OUTPUT"), Op("PLUS"), Var("x"), Op("PROMPT"),
                     Op("QUIT"), Op("PLUS"), Num(1), Var("x"),
         Op("DUMP"), Op("BLOCK"), Var("x")>>

\* ; = x PROMPT : OUTPUT SET (GET x 0 1) 0 1 RANDOM
Slices ==
    <<Op("EXPR"), Op("ASSIGN"), Var("x"), Op("PROMPT"),
      Op("OUTPUT"), Op("SET"), Op("GET"), Var("x"), Num(0), Num(1),
                    Num(0), Num(1), Op("RANDOM")>>

\* OUTPUT / 1 0
DivideByZero == <<Op("OUTPUT"), Op("DIVIDE"), Num(1), Num(0)>>

\* ; = f BLOCK CALL f : CALL f, which never returns
Bottomless ==
    <<Op("EXPR"), Op("ASSIGN"), Var("f"), Op("BLOCK"), Op("CALL"), Var("f"),
      Op("CALL"), Var("f")>>

\* ; = f BLOCK + x CALL f : CALL f, which saves x first
BottomlessSaving ==
    <<Op("EXPR"), Op("ASSIGN"), Var("f"), Op("BLOCK"),
         Op("PLUS"), Var("x"), Op("CALL"), Var("f"),
      Op("CALL"), Var("f")>>

\* QUIT BLOCK 0
QuitBlock == <<Op("QUIT"), Op("BLOCK"), Num(0)>>

MCPrograms ==
    {CountingLoop, SumBySameBlock, ReadAndQuit, Slices, DivideByZero, QuitBlock,
     Bottomless, BottomlessSaving}
    \cup ExpressionsUpTo(MaxSize, {Num(0), Num(1), Var("x")},
            {"PLUS", "EXPR", "ASSIGN", "AND", "IF", "WHILE", "BLOCK", "CALL",
             "OUTPUT"}, {"x"}, Null)
    \cup ExpressionsUpTo(MaxNested, {Num(0), Num(1)},
            {"AND", "OR", "IF", "WHILE", "OUTPUT"}, {}, Null)
=============================================================================
