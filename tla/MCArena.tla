------------------------------ MODULE MCArena ------------------------------
(***************************************************************************)
(* The two arenas over a heap that must give addresses out again.          *)
(***************************************************************************)
EXTENDS Arena, TLC

CONSTANTS p1, p2, p3, p4, p5, n1, n2, n3, c1, c2, c3

AnyAddress == Permutations(Addresses)
=============================================================================
