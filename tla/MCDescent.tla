----------------------------- MODULE MCDescent -----------------------------
(***************************************************************************)
(* The parser on every token sequence of a given length over one kind of   *)
(* each arity, well-formed or not.                                         *)
(***************************************************************************)
EXTENDS Descent

CONSTANTS MaxTokens, lit

Tok(kind) == [kind |-> kind, lit |-> lit, name |-> "x"]

MCSources ==
    UNION {[1..n -> {Tok(k) : k \in {"NUMBER", "IDENTIFIER", "NOT", "PLUS", "ASSIGN",
                                     "IF", "SET"}}] : n \in 0..MaxTokens}
=============================================================================
