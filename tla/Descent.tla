------------------------------ MODULE Descent ------------------------------
(***************************************************************************)
(* parser.c as it runs: expression() and the functions it calls, with the  *)
(* C call stack made explicit, on the tokens that l_consume hands out.     *)
(* Parser!Tree says what tree it should build and Parser!Accepts which     *)
(* token sequences it should build one for.                                *)
(***************************************************************************)
EXTENDS Parser, SequencesExt

CONSTANTS
    Sources,       \* the token sequences that may be read
    Literals,      \* the values of their literals
    Names          \* their identifiers

ASSUME SourcesAssumption ==
    Sources \subseteq Seq([kind : Kinds, lit : Literals, name : Names])

VARIABLES
    tokens,              \* what the lexer will hand out
    read,                \* how many tokens have been consumed
    nodes,               \* the arena: a node for every token consumed
    calls,               \* the nodes whose arguments are being read, outermost first
    returned,            \* the node expression() has just returned, else 0
    status               \* "run", "done" or "panic"

vars == <<tokens, read, nodes, calls, returned, status>>

Init ==
    /\ tokens \in Sources
    /\ read = 0
    /\ nodes = <<>>
    /\ calls = <<>>
    /\ returned = 0
    /\ status = "run"

Node(tok) == [kind |-> tok.kind, lit |-> tok.lit, name |-> tok.name, kids |-> <<>>]

\* expression(): one token, and the function for its kind.
Expression ==
    /\ status = "run"
    /\ returned = 0
    /\ read < Len(tokens)
    /\ LET tok == tokens[read + 1] IN
       /\ read' = read + 1
       /\ nodes' = Append(nodes, Node(tok))
       /\ IF tok.kind \in LeafKinds
          THEN returned' = read + 1 /\ UNCHANGED calls
          ELSE calls' = Append(calls, read + 1) /\ UNCHANGED returned
    /\ UNCHANGED <<tokens, status>>

\* Unexpected end of input.
ExpressionAtEnd ==
    /\ status = "run"
    /\ returned = 0
    /\ read = Len(tokens)
    /\ status' = "panic"
    /\ UNCHANGED <<tokens, read, nodes, calls, returned>>

\* (mutant: = takes any expression)
BadTargetNever == FALSE

\* What = assigns to must be an identifier.
BadTarget ==
    /\ nodes[Last(calls)].kind = "ASSIGN"
    /\ nodes[Last(calls)].kids = <<>>
    /\ nodes[returned].kind # "IDENTIFIER"

\* (mutant: the function returns one argument early)
ArgumentOneShort ==
    /\ status = "run"
    /\ returned # 0
    /\ calls # <<>>
    /\ ~BadTarget
    /\ LET n == Last(calls) IN
       /\ nodes' = [nodes EXCEPT ![n].kids = Append(@, returned)]
       /\ IF Len(nodes'[n].kids) + 1 >= Arity(nodes[n].kind)
          THEN returned' = n /\ calls' = Front(calls)
          ELSE returned' = 0 /\ UNCHANGED calls
    /\ UNCHANGED <<tokens, read, status>>

\* (mutant: the function reads one argument too many)
ArgumentOneMore ==
    /\ status = "run"
    /\ returned # 0
    /\ calls # <<>>
    /\ ~BadTarget
    /\ LET n == Last(calls) IN
       /\ nodes' = [nodes EXCEPT ![n].kids = Append(@, returned)]
       /\ IF Len(nodes'[n].kids) > Arity(nodes[n].kind)
          THEN returned' = n /\ calls' = Front(calls)
          ELSE returned' = 0 /\ UNCHANGED calls
    /\ UNCHANGED <<tokens, read, status>>

\* unary(), binary(), ternary() and quaternary() keep the node as their next
\* argument; with the last one they return.
Argument ==
    /\ status = "run"
    /\ returned # 0
    /\ calls # <<>>
    /\ ~BadTarget
    /\ LET n == Last(calls) IN
       /\ nodes' = [nodes EXCEPT ![n].kids = Append(@, returned)]
       /\ IF Len(nodes'[n].kids) = Arity(nodes[n].kind)
          THEN returned' = n /\ calls' = Front(calls)
          ELSE returned' = 0 /\ UNCHANGED calls
    /\ UNCHANGED <<tokens, read, status>>

ArgumentPanics ==
    /\ status = "run"
    /\ returned # 0
    /\ calls # <<>>
    /\ BadTarget
    /\ status' = "panic"
    /\ UNCHANGED <<tokens, read, nodes, calls, returned>>

\* (mutant: what follows is not looked at)
FinishTrailing ==
    /\ status = "run"
    /\ returned # 0
    /\ calls = <<>>
    /\ status' = "done"
    /\ UNCHANGED <<tokens, read, nodes, calls, returned>>

\* (mutant: what follows is waited for)
FinishWaits ==
    /\ status = "run"
    /\ returned # 0
    /\ calls = <<>>
    /\ read = Len(tokens)
    /\ status' = "done"
    /\ UNCHANGED <<tokens, read, nodes, calls, returned>>

\* parse(): nothing may follow the expression.
Finish ==
    /\ status = "run"
    /\ returned # 0
    /\ calls = <<>>
    /\ status' = IF read = Len(tokens) THEN "done" ELSE "panic"
    /\ UNCHANGED <<tokens, read, nodes, calls, returned>>

Rest == status # "run" /\ UNCHANGED vars

Next ==
    \/ Expression \/ ExpressionAtEnd \/ Argument \/ ArgumentPanics \/ Finish
    \/ Rest

Spec == Init /\ [][Next]_vars

\* One thread, which goes on while it can.
FairSpec == Spec /\ WF_vars(Next)

-----------------------------------------------------------------------------
\* The node for a token is the token's position, the calls that are open are
\* nested, and only they wait for arguments.
TypeOK ==
    /\ read \in 0..Len(tokens)
    /\ Len(nodes) = read
    /\ returned \in 0..read
    /\ status \in {"run", "done", "panic"}
    /\ \A k \in DOMAIN calls : calls[k] \in DOMAIN nodes
    /\ \A n \in DOMAIN nodes :
          /\ nodes[n].kids \in Seq((n + 1)..read)
          /\ Len(nodes[n].kids) <= Arity(nodes[n].kind)

\* An expression that was read to its end is whole: only the nodes of open
\* calls miss arguments, and each of them at least one.  The parser has no
\* list of what is missing but the C stack (parser.c:97-104, 154-178).
OnlyOpenCallsWait ==
    \A n \in DOMAIN nodes :
        Len(nodes[n].kids) < Arity(nodes[n].kind)
            <=> \E k \in DOMAIN calls : calls[k] = n

\* parse() accepts exactly the token sequences that are one expression with
\* an identifier behind every =, and the tree it returns is the one the
\* prefix notation determines.
ParsesAsTree ==
    /\ status = "done" => Accepts(tokens) /\ nodes = Tree(tokens)
    /\ status = "panic" => ~Accepts(tokens)

\* The tree that ir_create is given has the form it relies on (AstAssumption
\* of IRGen): it begins at the first token, no argument is missing, a child is
\* a later token than its parent, so that there is no cycle, no node is an
\* argument twice, and an ASSIGN has an identifier to store to.
TreeReady ==
    status = "done" => returned = 1 /\ WellFormedTree(nodes, Literals, Names)

\* The parser stops on every input.
Stops == <>(status # "run")
=============================================================================
