------------------------------ MODULE MCLexer ------------------------------
(***************************************************************************)
(* The lexer on every short text over one character of each kind, and on   *)
(* longer ones over those that go on with one another.                     *)
(***************************************************************************)
EXTENDS Lexer

CONSTANTS MaxText, MaxLonger

Every == {" ", "\n", "#", "0", "a", "_", "A", "E", "\"", "'", "+", "$", Nul}
Longer == {" ", "\n", "#", "0", "a", "\""}

MCTexts == SeqOf(Every, MaxText) \cup SeqOf(Longer, MaxLonger)
=============================================================================
