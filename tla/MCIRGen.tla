------------------------------ MODULE MCIRGen ------------------------------
(***************************************************************************)
(* IRGen on every tree of at most MaxSize tokens over a vocabulary with    *)
(* all the constructs that create blocks, and on MaxNested tokens of those *)
(* alone.                                                                  *)
(***************************************************************************)
EXTENDS IRGen, Programs

CONSTANTS MaxSize, MaxNested, lit

Leaf == Tok("NUMBER", lit, "_")
Name == Tok("IDENTIFIER", lit, "x")

MCAsts ==
    {Tree(p) : p \in
        ExpressionsUpTo(MaxSize, {Leaf, Name},
                        {"PLUS", "EXPR", "ASSIGN", "AND", "OR", "IF", "WHILE",
                         "BLOCK", "CALL", "DUMP"}, {"x"}, lit)
        \cup ExpressionsUpTo(MaxNested, {Leaf},
                        {"AND", "OR", "IF", "WHILE", "BLOCK"}, {}, lit)
        \cup {<<Tok("SET", lit, "_"), Leaf, Name, Leaf, Name>>,
              <<Tok("OUTPUT", lit, "_"), Tok("PROMPT", lit, "_")>>}}
=============================================================================
