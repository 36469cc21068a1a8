------------------------------- MODULE Parser -------------------------------
(***************************************************************************)
(* parser.c: the recursive descent over a prefix notation, as a function   *)
(* from the token sequence to the tree it builds.                          *)
(*                                                                         *)
(* A token is [kind, lit, name]: the kind of node it begins, the value of  *)
(* a literal and the name of an identifier.  The lexer's TK_EOF is the end *)
(* of the sequence.  Nodes are numbered by the position of their token, so *)
(* node 1 is the root and every child is numbered above its parent.        *)
(***************************************************************************)
EXTENDS Integers, Sequences

LiteralKinds == {"NUMBER", "STRING", "BOOLEAN", "NULL", "ARRAY"}
NullaryKinds == {"PROMPT", "RANDOM"}
UnaryKinds == {"BLOCK", "CALL", "QUIT", "DUMP", "OUTPUT", "LENGTH", "NOT",
               "NEGATE", "ASCII", "BOX", "PRIME", "ULTIMATE"}
BinaryKinds == {"PLUS", "MINUS", "MULTIPLY", "DIVIDE", "MODULO", "POWER",
                "LESS", "GREATER", "EQUAL", "AND", "OR", "EXPR", "ASSIGN",
                "WHILE"}
TernaryKinds == {"IF", "GET"}
QuaternaryKinds == {"SET"}
LeafKinds == LiteralKinds \cup NullaryKinds \cup {"IDENTIFIER"}

Kinds == LeafKinds \cup UnaryKinds \cup BinaryKinds \cup TernaryKinds
            \cup QuaternaryKinds

\* How many expressions the handler that expression() selects reads.
Arity(kind) ==
    CASE kind \in LeafKinds -> 0
      [] kind \in UnaryKinds -> 1
      [] kind \in BinaryKinds -> 2
      [] kind \in TernaryKinds -> 3
      [] kind \in QuaternaryKinds -> 4

\* The position after the expression that begins at each position;
\* Len(toks) + 2 where expression() would read past the end and panic.
EndOf(toks) ==
    LET n == Len(toks)
        end[i \in 1..(n + 2)] ==
            LET a == Arity(toks[i].kind)
                e1 == end[i + 1]
                e2 == end[e1]
                e3 == end[e2]
                e4 == end[e3]
            IN  IF i > n THEN n + 2
                ELSE CASE a = 0 -> i + 1
                       [] a = 1 -> e1
                       [] a = 2 -> e2
                       [] a = 3 -> e3
                       [] a = 4 -> e4
    IN  end

\* parse(): one expression, = takes an identifier, and nothing follows.
Accepts(toks) ==
    /\ toks # <<>>
    /\ EndOf(toks)[1] = Len(toks) + 1
    /\ \A i \in DOMAIN toks :
          toks[i].kind = "ASSIGN" => toks[i + 1].kind = "IDENTIFIER"

Kids(end, i, arity) ==
    LET kid[k \in 1..4] == IF k = 1 THEN i + 1 ELSE end[kid[k - 1]]
    IN  [k \in 1..arity |-> kid[k]]

Tree(toks) ==
    LET end == EndOf(toks)
    IN  [i \in DOMAIN toks |->
            [kind |-> toks[i].kind, lit |-> toks[i].lit, name |-> toks[i].name,
             kids |-> Kids(end, i, Arity(toks[i].kind))]]

\* No node is an argument twice.
OneParent(ast) ==
    \A m, n \in DOMAIN ast :
        \A j \in DOMAIN ast[m].kids, k \in DOMAIN ast[n].kids :
            ast[m].kids[j] = ast[n].kids[k] => m = n /\ j = k

\* What ir_create may assume of a tree that parse() returned.
WellFormedTree(ast, Values, Names) ==
    /\ 1 \in DOMAIN ast /\ DOMAIN ast \subseteq Nat
    /\ \A n \in DOMAIN ast :
          /\ ast[n].kind \in Kinds
          /\ ast[n].lit \in Values
          /\ ast[n].name \in Names
          /\ ast[n].kids \in [1..Arity(ast[n].kind) -> DOMAIN ast]
          /\ \A k \in DOMAIN ast[n].kids : ast[n].kids[k] > n
          /\ ast[n].kind = "ASSIGN" => ast[ast[n].kids[1]].kind = "IDENTIFIER"
    /\ OneParent(ast)
=============================================================================
