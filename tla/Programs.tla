------------------------------ MODULE Programs ------------------------------
(***************************************************************************)
(* The programs the models run: every program of a given size over a       *)
(* vocabulary.  Only TLC's runs use this module.                           *)
(***************************************************************************)
EXTENDS Parser, FiniteSets

Tok(kind, lit, name) == [kind |-> kind, lit |-> lit, name |-> name]

\* Every expression of `size` tokens: the leaves are tokens, the other kinds
\* are given by name, and an ASSIGN takes one of the names.
RECURSIVE Expressions(_, _, _, _, _)
Expressions(size, leaves, kinds, names, lit) ==
    LET E(n) == Expressions(n, leaves, kinds, names, lit)
        Op(k) == <<Tok(k, lit, "_")>>
        Of(arity) == {k \in kinds \ {"ASSIGN"} : Arity(k) = arity}
    IN  IF size = 1 THEN {<<t>> : t \in leaves}
        ELSE {Op(k) \o e : k \in Of(1), e \in E(size - 1)}
             \cup {Op("ASSIGN") \o <<Tok("IDENTIFIER", lit, x)>> \o e :
                     x \in IF "ASSIGN" \in kinds /\ size > 2 THEN names ELSE {},
                     e \in IF size > 2 THEN E(size - 2) ELSE {}}
             \cup UNION {{Op(k) \o e \o f :
                            k \in Of(2), e \in E(n), f \in E(size - 1 - n)} :
                          n \in 1..(size - 2)}
             \cup UNION {UNION {{Op(k) \o e \o f \o g :
                            k \in Of(3), e \in E(n), f \in E(m),
                            g \in E(size - 1 - n - m)} :
                          m \in 1..(size - 2 - n)} : n \in 1..(size - 3)}
             \cup IF size < 5 THEN {} ELSE
                  {Op(k) \o e : k \in Of(4),
                     e \in {<<a, b, c, d>> : a, b, c, d \in leaves}}

ExpressionsUpTo(size, leaves, kinds, names, lit) ==
    UNION {Expressions(n, leaves, kinds, names, lit) : n \in 1..size}
=============================================================================
