--------------------------- MODULE MCSymbolTable ---------------------------
(***************************************************************************)
(* The symbol table with four names: two have the same hash, three want    *)
(* the last slot, so that probes wrap, and one has the hash 0, which the   *)
(* table makes 1, where the third of a probe that wraps arrives.           *)
(***************************************************************************)
EXTENDS SymbolTable, TLC

CONSTANTS a, b, c, d

MCFnv == a :> 7 @@ b :> 7 @@ c :> 0 @@ d :> 15
=============================================================================
