--------------------------- MODULE DescentProofs ---------------------------
(***************************************************************************)
(* Proofs about the recursive descent, for every set of token sequences:   *)
(* TypeOK, OnlyOpenCallsWait, TreeReady and ParsesAsTree are invariants of *)
(* Spec.                                                                   *)
(*                                                                         *)
(* The inductive invariant DInv adds to the first three that the open      *)
(* calls are nested (an argument's node comes after the node that waits    *)
(* for it), that the outermost is the first token's, and that no node is   *)
(* handed up twice: what the C stack knows and no variable of parser.c     *)
(* says.  PInv adds to DInv that each call is where the prefix notation    *)
(* (EndOf) places it, which ties the tree being built to the one that Tree *)
(* determines.                                                             *)
(***************************************************************************)
EXTENDS Descent, SharedLemmas, SequenceTheorems

TokenType == [kind : Kinds, lit : Literals, name : Names]
NodeType == [kind : Kinds, lit : Literals, name : Names, kids : Seq(Nat)]

Shape ==
    /\ tokens \in Seq(TokenType)
    /\ nodes \in Seq(NodeType)
    /\ calls \in Seq(Nat)
    /\ TypeOK

\* The argument of an ASSIGN that has been kept is an identifier.
TargetsNamed ==
    \A n \in DOMAIN nodes :
        nodes[n].kind = "ASSIGN" /\ nodes[n].kids # <<>>
            => nodes[nodes[n].kids[1]].kind = "IDENTIFIER"

\* Inner calls are for later tokens, and what returns is later than them all.
Nested ==
    /\ \A j, k \in DOMAIN calls : j < k => calls[j] < calls[k]
    /\ returned # 0 => \A k \in DOMAIN calls : calls[k] < returned

\* All that is read belongs to the expression that the first token begins.
OneRoot ==
    /\ read = 0 => returned = 0
    /\ calls # <<>> => calls[1] = 1
    /\ calls = <<>> /\ read # 0 => returned = 1
    /\ status = "done" => returned = 1 /\ calls = <<>>

\* Each node is handed up once: no kept argument is kept again, and neither
\* what returns nor what an open call is for has been kept.
HandedOnce ==
    /\ OneParent(nodes)
    /\ \A m \in DOMAIN nodes : \A j \in DOMAIN nodes[m].kids :
          /\ returned # 0 => nodes[m].kids[j] # returned
          /\ \A k \in DOMAIN calls : nodes[m].kids[j] # calls[k]

DInv ==
    /\ Shape
    /\ TargetsNamed
    /\ HandedOnce
    /\ Nested
    /\ OnlyOpenCallsWait
    /\ OneRoot

-----------------------------------------------------------------------------
\* The invariant in terms of lengths and positions.
LEMMA ShapeFacts ==
    ASSUME Shape
    PROVE  /\ Len(tokens) \in Nat /\ read \in 0..Len(tokens)
           /\ \A i \in 1..Len(tokens) : tokens[i] \in TokenType
           /\ DOMAIN nodes = 1..read /\ Len(nodes) = read
           /\ \A n \in 1..read :
                 /\ nodes[n] \in NodeType
                 /\ nodes[n].kids \in Seq((n + 1)..read)
                 /\ Len(nodes[n].kids) \in 0..Arity(nodes[n].kind)
           /\ Len(calls) \in Nat /\ DOMAIN calls = 1..Len(calls)
           /\ \A k \in 1..Len(calls) : calls[k] \in 1..read
           /\ returned \in 0..read
<1>1. /\ Len(tokens) \in Nat
      /\ \A i \in 1..Len(tokens) : tokens[i] \in TokenType
    BY LenProperties, ElementOfSeq DEF Shape
<1>2. /\ DOMAIN nodes = 1..read
      /\ \A n \in 1..read : nodes[n] \in NodeType
    BY LenProperties, ElementOfSeq DEF Shape, TypeOK
<1>3. Len(calls) \in Nat /\ DOMAIN calls = 1..Len(calls)
    BY LenProperties DEF Shape
<1>4. ASSUME NEW n \in 1..read
      PROVE  /\ nodes[n].kids \in Seq((n + 1)..read)
             /\ Len(nodes[n].kids) \in 0..Arity(nodes[n].kind)
    <2>1. nodes[n].kids \in Seq((n + 1)..read)
        BY <1>2 DEF Shape, TypeOK
    <2>2. Len(nodes[n].kids) \in Nat
        BY <2>1, LenProperties
    <2>3. Arity(nodes[n].kind) \in Nat
        BY <1>2, ArityBounds DEF NodeType
    <2>4. Len(nodes[n].kids) <= Arity(nodes[n].kind)
        BY <1>2 DEF Shape, TypeOK
    <2>. QED
        BY <2>1, <2>2, <2>3, <2>4
<1>. QED
    BY <1>1, <1>2, <1>3, <1>4 DEF Shape, TypeOK

LEMMA InitDInv == Init => DInv
<1>. SUFFICES ASSUME Init
              PROVE  DInv
    OBVIOUS
<1>. USE DEF Init
<1>1. tokens \in Seq(TokenType)
    BY SourcesAssumption DEF TokenType
<1>2. Len(tokens) \in Nat
    BY <1>1, LenProperties
<1>3. Shape
    BY <1>1, <1>2 DEF Shape, TypeOK
<1>. QED
    BY <1>3 DEF DInv, TargetsNamed, HandedOnce, OneParent, Nested, OnlyOpenCallsWait, OneRoot

-----------------------------------------------------------------------------
(* Reading a token. *)

LEMMA ExpressionKeeps ==
    ASSUME DInv, Expression
    PROVE  DInv'
<1>. DEFINE tok == tokens[read + 1]
<1>. USE DEF DInv
<1>1. Shape
    OBVIOUS
<1>2. /\ Len(tokens) \in Nat /\ read \in Nat /\ read < Len(tokens)
      /\ tok \in TokenType /\ returned = 0 /\ status = "run"
    BY <1>1, ShapeFacts DEF Expression
<1>3. /\ read' = read + 1 /\ tokens' = tokens /\ status' = status
      /\ nodes' = Append(nodes, Node(tok))
    BY DEF Expression
<1>4. Node(tok) \in NodeType /\ Node(tok).kids = <<>> /\ Node(tok).kind = tok.kind
    BY <1>2 DEF Node, NodeType, TokenType
<1>5. /\ nodes' \in Seq(NodeType) /\ Len(nodes') = read' /\ DOMAIN nodes' = 1..read'
      /\ \A n \in 1..read : nodes'[n] = nodes[n]
      /\ nodes'[read + 1] = Node(tok)
    BY <1>1, <1>2, <1>3, <1>4, ShapeFacts, AppendProperties, LenProperties DEF Shape
<1>6. \/ /\ tok.kind \in LeafKinds
         /\ returned' = read + 1 /\ calls' = calls
      \/ /\ tok.kind \notin LeafKinds
         /\ returned' = 0 /\ calls' = Append(calls, read + 1)
    BY <1>2 DEF Expression
<1>7. /\ Arity(tok.kind) \in 0..4
      /\ Arity(tok.kind) = 0 <=> tok.kind \in LeafKinds
    BY <1>2, ArityBounds DEF TokenType
<1>8. /\ Len(calls) \in Nat /\ DOMAIN calls = 1..Len(calls)
      /\ \A k \in 1..Len(calls) : calls[k] \in 1..read
    BY <1>1, ShapeFacts
<1>9. /\ calls' \in Seq(Nat)
      /\ \A k \in DOMAIN calls : k \in DOMAIN calls' /\ calls'[k] = calls[k]
      /\ \A k \in DOMAIN calls' :
            \/ k \in DOMAIN calls /\ calls'[k] = calls[k]
            \/ /\ k = Len(calls) + 1 /\ calls'[k] = read + 1
               /\ tok.kind \notin LeafKinds
      /\ tok.kind \notin LeafKinds =>
            Len(calls) + 1 \in DOMAIN calls' /\ calls'[Len(calls) + 1] = read + 1
    <2>1. CASE tok.kind \in LeafKinds
        BY <1>1, <1>6, <2>1 DEF Shape
    <2>2. CASE tok.kind \notin LeafKinds
        <3>1. calls' = Append(calls, read + 1) /\ calls \in Seq(Nat) /\ read + 1 \in Nat
            BY <1>1, <1>2, <1>6, <2>2 DEF Shape
        <3>2. /\ calls' \in Seq(Nat) /\ Len(calls') = Len(calls) + 1
              /\ \A k \in 1..Len(calls) : calls'[k] = calls[k]
              /\ calls'[Len(calls) + 1] = read + 1
            BY <3>1, AppendProperties
        <3>3. DOMAIN calls' = 1..(Len(calls) + 1)
            BY <3>2, LenProperties
        <3>. QED
            BY <1>8, <2>2, <3>2, <3>3
    <2>. QED
        BY <2>1, <2>2
<1>10. ASSUME NEW n \in 1..read'
       PROVE  /\ nodes'[n].kids \in Seq((n + 1)..read')
              /\ Len(nodes'[n].kids) <= Arity(nodes'[n].kind)
    <2>1. CASE n \in 1..read
        <3>1. nodes[n].kids \in Seq((n + 1)..read)
            BY <1>1, <2>1, ShapeFacts
        <3>2. (n + 1)..read \subseteq (n + 1)..read'
            BY <1>2, <1>3
        <3>3. nodes[n].kids \in Seq((n + 1)..read')
            BY <3>1, <3>2, SeqMonotonic
        <3>4. Len(nodes[n].kids) <= Arity(nodes[n].kind)
            BY <1>1, <1>5, <2>1, ShapeFacts DEF Shape, TypeOK
        <3>. QED
            BY <1>5, <2>1, <3>3, <3>4
    <2>2. CASE n = read + 1
        <3>1. nodes'[n].kids = <<>> /\ nodes'[n].kind = tok.kind
            BY <1>4, <1>5, <2>2
        <3>2. <<>> \in Seq((n + 1)..read') /\ Len(<<>>) = 0
            BY EmptySeq
        <3>3. 0 <= Arity(tok.kind)
            BY <1>7
        <3>. QED
            BY <3>1, <3>2, <3>3
    <2>3. n \in 1..read \/ n = read + 1
        BY <1>2, <1>3
    <2>. QED
        BY <2>1, <2>2, <2>3
<1>11. \A k \in DOMAIN calls' : calls'[k] \in 1..read'
    BY <1>2, <1>3, <1>8, <1>9
<1>12. Shape'
    <2>1. returned' \in 0..read' /\ read' \in 0..Len(tokens')
        BY <1>2, <1>3, <1>6
    <2>2. TypeOK'
        BY <1>1, <1>2, <1>3, <1>5, <1>10, <1>11, <2>1 DEF TypeOK
    <2>. QED
        BY <1>1, <1>3, <1>5, <1>9, <2>2 DEF Shape
<1>13. TargetsNamed'
    <2>. SUFFICES ASSUME NEW n \in DOMAIN nodes',
                         nodes'[n].kind = "ASSIGN", nodes'[n].kids # <<>>
                  PROVE  nodes'[nodes'[n].kids[1]].kind = "IDENTIFIER"
        BY DEF TargetsNamed
    <2>1. n \in 1..read /\ nodes'[n] = nodes[n]
        BY <1>2, <1>3, <1>4, <1>5
    <2>2. nodes[n].kids[1] \in 1..read
        <3>1. nodes[n].kids \in Seq((n + 1)..read)
            BY <1>1, <2>1, ShapeFacts
        <3>2. nodes[n].kids[1] \in (n + 1)..read
            <4>1. nodes[n].kids # <<>>
                BY <2>1
            <4>2. Len(nodes[n].kids) \in Nat /\ Len(nodes[n].kids) # 0
                BY <3>1, <4>1, EmptySeq, LenProperties
            <4>3. 1 \in 1..Len(nodes[n].kids)
                BY <4>2
            <4>. QED
                BY <3>1, <4>3, ElementOfSeq
        <3>. QED
            BY <1>2, <2>1, <3>2
    <2>. QED
        BY <1>1, <1>5, <2>1, <2>2, ShapeFacts DEF TargetsNamed
<1>14. Nested'
    <2>1. ASSUME NEW j \in DOMAIN calls', NEW k \in DOMAIN calls', j < k
          PROVE  calls'[j] < calls'[k]
        <3>1. CASE k \in DOMAIN calls
            <4>1. j \in DOMAIN calls
                BY <1>8, <1>9, <2>1, <3>1
            <4>. QED
                BY <1>8, <1>9, <2>1, <3>1, <4>1 DEF Nested
        <3>2. CASE k = Len(calls) + 1
            <4>1. j \in DOMAIN calls /\ calls'[j] = calls[j] /\ calls'[k] = read + 1
                BY <1>8, <1>9, <2>1, <3>2
            <4>. QED
                BY <1>2, <1>8, <4>1
        <3>. QED
            BY <1>9, <3>1, <3>2
    <2>2. ASSUME returned' # 0, NEW k \in DOMAIN calls'
          PROVE  calls'[k] < returned'
        BY <1>2, <1>6, <1>8, <1>9, <2>2
    <2>. QED
        BY <2>1, <2>2 DEF Nested
<1>15. OnlyOpenCallsWait'
    <2>. SUFFICES ASSUME NEW n \in DOMAIN nodes'
                  PROVE  Len(nodes'[n].kids) < Arity(nodes'[n].kind)
                            <=> \E k \in DOMAIN calls' : calls'[k] = n
        BY DEF OnlyOpenCallsWait
    <2>1. CASE n \in 1..read
        <3>1. (\E k \in DOMAIN calls : calls[k] = n)
                 <=> \E k \in DOMAIN calls' : calls'[k] = n
            <4>1. n # read + 1
                BY <1>2, <2>1
            <4>. QED
                BY <1>9, <4>1
        <3>. QED
            BY <1>1, <1>5, <2>1, <3>1, ShapeFacts DEF OnlyOpenCallsWait
    <2>2. CASE n = read + 1
        <3>1. Len(nodes'[n].kids) = 0 /\ nodes'[n].kind = tok.kind
            BY <1>4, <1>5, <2>2
        <3>2. (\E k \in DOMAIN calls' : calls'[k] = n) <=> tok.kind \notin LeafKinds
            BY <1>2, <1>8, <1>9, <2>2
        <3>. QED
            BY <1>7, <3>1, <3>2
    <2>. QED
        BY <1>2, <1>3, <1>5, <2>1, <2>2
<1>16. OneRoot'
    <2>1. CASE read = 0
        <3>1. Len(calls) = 0
            BY <1>1, <2>1, ShapeFacts
        <3>2. calls = <<>>
            BY <1>1, <3>1, EmptySeq DEF Shape
        <3>. QED
            BY <1>2, <1>3, <1>6, <1>9, <2>1, <3>1, <3>2 DEF OneRoot
    <2>2. CASE read # 0
        <3>1. calls # <<>> /\ calls[1] = 1
            BY <1>2, <2>2 DEF OneRoot
        <3>2. Len(calls) # 0
            BY <1>1, <3>1, EmptySeq DEF Shape
        <3>3. 1 \in 1..Len(calls)
            BY <1>1, <3>2, ShapeFacts
        <3>4. calls'[1] = 1 /\ calls' # <<>>
            BY <1>8, <1>9, <3>1, <3>3
        <3>. QED
            BY <1>2, <1>3, <3>4 DEF OneRoot
    <2>. QED
        BY <2>1, <2>2
\* The node that is new has no arguments, and is none.
<1>17. HandedOnce'
    <2>1. ASSUME NEW m \in DOMAIN nodes', NEW j \in DOMAIN nodes'[m].kids
          PROVE  /\ m \in 1..read /\ nodes'[m] = nodes[m]
                 /\ j \in DOMAIN nodes[m].kids /\ nodes[m].kids[j] \in 1..read
        <3>1. m \in 1..read /\ nodes'[m] = nodes[m]
            <4>1. m # read + 1
                <5>1. DOMAIN <<>> = {}
                    BY EmptySeq, LenProperties
                <5>. QED
                    BY <1>4, <1>5, <2>1, <5>1
            <4>. QED
                BY <1>2, <1>3, <1>5, <4>1
        <3>2. nodes[m].kids \in Seq((m + 1)..read)
            BY <1>1, <3>1, ShapeFacts
        <3>3. nodes[m].kids[j] \in (m + 1)..read
            <4>1. j \in 1..Len(nodes[m].kids)
                BY <2>1, <3>1, <3>2, LenProperties
            <4>. QED
                BY <3>2, <4>1, ElementOfSeq
        <3>. QED
            BY <1>2, <2>1, <3>1, <3>3
    <2>2. OneParent(nodes')
        <3>. SUFFICES ASSUME NEW m \in DOMAIN nodes', NEW n \in DOMAIN nodes',
                             NEW j \in DOMAIN nodes'[m].kids,
                             NEW k \in DOMAIN nodes'[n].kids,
                             nodes'[m].kids[j] = nodes'[n].kids[k]
                      PROVE  m = n /\ j = k
            BY DEF OneParent
        <3>1. OneParent(nodes) /\ DOMAIN nodes = 1..read
            BY <1>1, ShapeFacts DEF HandedOnce
        <3>2. m \in DOMAIN nodes /\ j \in DOMAIN nodes[m].kids /\ nodes'[m] = nodes[m]
            BY <2>1, <3>1
        <3>3. n \in DOMAIN nodes /\ k \in DOMAIN nodes[n].kids /\ nodes'[n] = nodes[n]
            BY <2>1, <3>1
        <3>. QED
            BY <3>1, <3>2, <3>3 DEF OneParent
    <2>3. ASSUME NEW m \in DOMAIN nodes', NEW j \in DOMAIN nodes'[m].kids
          PROVE  /\ returned' # 0 => nodes'[m].kids[j] # returned'
                 /\ \A k \in DOMAIN calls' : nodes'[m].kids[j] # calls'[k]
        <3>1. nodes'[m] = nodes[m] /\ nodes[m].kids[j] \in 1..read
            BY <2>1, <2>3
        <3>2. nodes[m].kids[j] # read + 1
            BY <1>2, <3>1
        <3>3. \A k \in DOMAIN calls : nodes[m].kids[j] # calls[k]
            BY <1>1, <2>1, <2>3, ShapeFacts DEF HandedOnce
        <3>. QED
            BY <1>6, <1>9, <3>1, <3>2, <3>3
    <2>. QED
        BY <2>2, <2>3 DEF HandedOnce
<1>. QED
    BY <1>12, <1>13, <1>14, <1>15, <1>16, <1>17

-----------------------------------------------------------------------------
(* Keeping an argument. *)

LEMMA ArgumentKeeps ==
    ASSUME DInv, Argument
    PROVE  DInv'
<1>. DEFINE n == Last(calls)
<1>. USE DEF DInv
<1>1. Shape
    OBVIOUS
<1>2. /\ Len(calls) \in Nat /\ DOMAIN calls = 1..Len(calls)
      /\ \A k \in 1..Len(calls) : calls[k] \in 1..read
      /\ read \in Nat /\ Len(calls) # 0
      /\ n = calls[Len(calls)] /\ Len(calls) \in DOMAIN calls /\ n \in 1..read
    <2>1. calls # <<>> /\ calls \in Seq(Nat)
        BY <1>1 DEF Argument, Shape
    <2>2. Len(calls) # 0 /\ Len(calls) \in Nat
        BY <2>1, EmptySeq
    <2>. QED
        BY <1>1, <2>2, ShapeFacts DEF Last
<1>3. /\ returned # 0 /\ status = "run" /\ status' = status
      /\ tokens' = tokens /\ read' = read
    BY DEF Argument
<1>4. returned \in (n + 1)..read
    <2>1. returned \in 0..read
        BY <1>1, ShapeFacts
    <2>2. n < returned
        BY <1>2, <1>3 DEF Nested
    <2>. QED
        BY <1>2, <2>1, <2>2
<1>5. /\ DOMAIN nodes = 1..read /\ Len(nodes) = read
      /\ \A m \in 1..read : nodes[m] \in NodeType
      /\ nodes[n].kids \in Seq((n + 1)..read) /\ nodes[n].kids \in Seq(Nat)
    <2>1. nodes[n].kids \in Seq((n + 1)..read)
        BY <1>1, <1>2, ShapeFacts
    <2>2. nodes[n].kids \in Seq(Nat)
        BY <1>1, <1>2, ShapeFacts DEF NodeType
    <2>. QED
        BY <1>1, <2>1, <2>2, ShapeFacts
<1>. DEFINE kept == Append(nodes[n].kids, returned)
<1>6. /\ kept \in Seq((n + 1)..read) /\ kept \in Seq(Nat)
      /\ Len(nodes[n].kids) \in Nat /\ Len(kept) = Len(nodes[n].kids) + 1
      /\ \A i \in 1..Len(nodes[n].kids) : kept[i] = nodes[n].kids[i]
      /\ kept[Len(nodes[n].kids) + 1] = returned
    <2>1. returned \in Nat
        BY <1>2, <1>4
    <2>. QED
        BY <1>4, <1>5, <2>1, AppendProperties, LenProperties
<1>7. /\ nodes' = [nodes EXCEPT ![n].kids = kept]
      /\ \/ /\ Len(nodes'[n].kids) = Arity(nodes[n].kind)
            /\ returned' = n /\ calls' = Front(calls)
         \/ /\ Len(nodes'[n].kids) # Arity(nodes[n].kind)
            /\ returned' = 0 /\ calls' = calls
    BY DEF Argument
<1>8. /\ DOMAIN nodes' = 1..read
      /\ \A m \in 1..read : m # n => nodes'[m] = nodes[m]
      /\ nodes'[n] = [nodes[n] EXCEPT !.kids = kept]
    BY <1>2, <1>5, <1>7
<1>9. /\ nodes'[n] \in NodeType
      /\ nodes'[n].kids = kept /\ nodes'[n].kind = nodes[n].kind
    BY <1>2, <1>5, <1>6, <1>8 DEF NodeType
<1>10. nodes' \in Seq(NodeType) /\ Len(nodes') = read
    <2>1. nodes' = [m \in 1..read |-> nodes'[m]]
        BY <1>5, <1>7
    <2>2. \A m \in 1..read : nodes'[m] \in NodeType
        BY <1>5, <1>8, <1>9
    <2>3. nodes' \in Seq(NodeType)
        BY <1>2, <2>1, <2>2, IsASeq
    <2>. QED
        BY <1>2, <1>8, <2>3, LenProperties
<1>11. /\ Arity(nodes[n].kind) \in 0..4
       /\ Len(nodes[n].kids) < Arity(nodes[n].kind)
    <2>1. Arity(nodes[n].kind) \in 0..4
        BY <1>2, <1>5, ArityBounds DEF NodeType
    <2>2. Len(nodes[n].kids) < Arity(nodes[n].kind)
        BY <1>2, <1>5 DEF OnlyOpenCallsWait
    <2>. QED
        BY <2>1, <2>2
\* The innermost call is a later one than the others.
<1>12. \A k \in DOMAIN calls : k # Len(calls) => calls[k] < n
    BY <1>2 DEF Nested
<1>. DEFINE Returns == Len(kept) = Arity(nodes[n].kind)
<1>13. /\ calls' \in Seq(Nat)
       /\ \A k \in DOMAIN calls' : k \in DOMAIN calls /\ calls'[k] = calls[k]
       /\ \A k \in DOMAIN calls : k # Len(calls) \/ ~Returns => k \in DOMAIN calls'
       /\ Returns => Len(calls) \notin DOMAIN calls' /\ returned' = n
                        /\ Len(calls') = Len(calls) - 1
       /\ ~Returns => calls' = calls /\ returned' = 0
    <2>1. CASE Returns
        <3>1. calls' = SubSeq(calls, 1, Len(calls) - 1) /\ returned' = n
            BY <1>7, <1>9, <2>1 DEF Front
        <3>2. /\ Len(calls) - 1 \in Int
              /\ \A i \in 1..(Len(calls) - 1) : calls[i] \in Nat
            BY <1>2
        <3>3. /\ calls' \in Seq(Nat)
              /\ Len(calls') = IF 1 <= Len(calls) - 1 THEN (Len(calls) - 1) - 1 + 1 ELSE 0
              /\ \A k \in 1..((Len(calls) - 1) - 1 + 1) : calls'[k] = calls[1 + k - 1]
            BY <3>1, <3>2, SubSeqProperties
        <3>4. Len(calls') = Len(calls) - 1
            <4>1. Len(calls) \in Nat /\ Len(calls) # 0
                BY <1>2
            <4>2. \A l \in Nat : l # 0 =>
                     (IF 1 <= l - 1 THEN (l - 1) - 1 + 1 ELSE 0) = l - 1
                OBVIOUS
            <4>. QED
                BY <3>3, <4>1, <4>2
        <3>5. DOMAIN calls' = 1..(Len(calls) - 1)
            BY <3>3, <3>4, LenProperties
        <3>6. \A k \in 1..(Len(calls) - 1) : calls'[k] = calls[k]
            <4>. SUFFICES ASSUME NEW k \in 1..(Len(calls) - 1)
                          PROVE  calls'[k] = calls[k]
                OBVIOUS
            <4>1. k \in 1..((Len(calls) - 1) - 1 + 1) /\ 1 + k - 1 = k
                BY <1>2
            <4>. QED
                BY <3>3, <4>1
        <3>. QED
            BY <1>2, <2>1, <3>1, <3>3, <3>4, <3>5, <3>6
    <2>2. CASE ~Returns
        BY <1>1, <1>7, <1>9, <2>2 DEF Shape
    <2>. QED
        BY <2>1, <2>2
<1>14. Shape'
    <2>1. ASSUME NEW m \in 1..read
          PROVE  /\ nodes'[m].kids \in Seq((m + 1)..read)
                 /\ Len(nodes'[m].kids) <= Arity(nodes'[m].kind)
        <3>1. CASE m = n
            <4>1. Len(kept) <= Arity(nodes[n].kind)
                BY <1>6, <1>11
            <4>. QED
                BY <1>6, <1>9, <3>1, <4>1
        <3>2. CASE m # n
            BY <1>1, <1>5, <1>8, <3>2 DEF Shape, TypeOK
        <3>. QED
            BY <3>1, <3>2
    <2>2. \A k \in DOMAIN calls' : calls'[k] \in 1..read
        BY <1>2, <1>13
    <2>3. returned' \in 0..read
        <3>1. 0 \in 0..read /\ n \in 0..read
            BY <1>2
        <3>2. returned' = n \/ returned' = 0
            BY <1>13
        <3>. QED
            BY <3>1, <3>2
    <2>4. TypeOK'
        BY <1>1, <1>3, <1>8, <1>10, <2>1, <2>2, <2>3 DEF Shape, TypeOK
    <2>. QED
        BY <1>1, <1>3, <1>10, <1>13, <2>4 DEF Shape
<1>15. TargetsNamed'
    <2>1. \A m \in 1..read : nodes'[m].kind = nodes[m].kind
        BY <1>8, <1>9
    <2>. SUFFICES ASSUME NEW m \in 1..read,
                         nodes'[m].kind = "ASSIGN", nodes'[m].kids # <<>>
                  PROVE  nodes'[nodes'[m].kids[1]].kind = "IDENTIFIER"
        BY <1>8 DEF TargetsNamed
    <2>2. CASE m = n /\ nodes[n].kids = <<>>
        <3>1. kept[1] = returned
            BY <1>6, <2>2
        <3>2. nodes[returned].kind = "IDENTIFIER"
            BY <1>9, <2>2 DEF Argument, BadTarget
        <3>3. returned \in 1..read
            BY <1>2, <1>4
        <3>. QED
            BY <1>9, <2>1, <2>2, <3>1, <3>2, <3>3
    <2>3. CASE m # n \/ nodes[n].kids # <<>>
        <3>1. nodes[m].kids # <<>> /\ nodes[m].kids \in Seq((m + 1)..read)
            BY <1>1, <1>8, <2>3, ShapeFacts
        <3>2. Len(nodes[m].kids) \in Nat /\ Len(nodes[m].kids) # 0
            BY <3>1, EmptySeq
        <3>3. 1 \in 1..Len(nodes[m].kids)
            BY <3>2
        <3>4. nodes[m].kids[1] \in (m + 1)..read
            BY <3>1, <3>3, ElementOfSeq
        <3>5. nodes'[m].kids[1] = nodes[m].kids[1]
            <4>1. CASE m = n
                BY <1>6, <1>9, <3>3, <4>1
            <4>2. CASE m # n
                BY <1>8, <4>2
            <4>. QED
                BY <4>1, <4>2
        <3>6. nodes[nodes[m].kids[1]].kind = "IDENTIFIER"
            BY <1>5, <2>1, <3>1 DEF TargetsNamed
        <3>7. nodes[m].kids[1] \in 1..read
            BY <1>2, <3>4
        <3>. QED
            BY <2>1, <3>5, <3>6, <3>7
    <2>. QED
        BY <2>2, <2>3
<1>16. Nested'
    <2>1. ASSUME NEW j \in DOMAIN calls', NEW k \in DOMAIN calls', j < k
          PROVE  calls'[j] < calls'[k]
        BY <1>13, <2>1 DEF Nested
    <2>2. ASSUME returned' # 0, NEW k \in DOMAIN calls'
          PROVE  calls'[k] < returned'
        BY <1>12, <1>13, <2>2
    <2>. QED
        BY <2>1, <2>2 DEF Nested
<1>17. OnlyOpenCallsWait'
    <2>. SUFFICES ASSUME NEW m \in 1..read
                  PROVE  Len(nodes'[m].kids) < Arity(nodes'[m].kind)
                            <=> \E k \in DOMAIN calls' : calls'[k] = m
        BY <1>8 DEF OnlyOpenCallsWait
    <2>1. CASE m = n
        <3>1. Len(nodes'[m].kids) < Arity(nodes'[m].kind) <=> ~Returns
            <4>1. Len(kept) < Arity(nodes[n].kind) <=> ~Returns
                BY <1>6, <1>11
            <4>. QED
                BY <1>9, <2>1, <4>1
        <3>2. (\E k \in DOMAIN calls' : calls'[k] = n) <=> ~Returns
            <4>1. CASE Returns
                BY <1>2, <1>12, <1>13, <4>1
            <4>2. CASE ~Returns
                BY <1>2, <1>13, <4>2
            <4>. QED
                BY <4>1, <4>2
        <3>. QED
            BY <2>1, <3>1, <3>2
    <2>2. CASE m # n
        <3>1. (\E k \in DOMAIN calls : calls[k] = m)
                 <=> \E k \in DOMAIN calls' : calls'[k] = m
            BY <1>2, <1>13, <2>2
        <3>. QED
            BY <1>5, <1>8, <2>2, <3>1 DEF OnlyOpenCallsWait
    <2>. QED
        BY <2>1, <2>2
<1>18. OneRoot'
    <2>1. calls # <<>> /\ calls[1] = 1
        BY DEF OneRoot, Argument
    <2>2. read # 0
        BY <1>2
    <2>3. ASSUME calls' # <<>>
          PROVE  calls'[1] = 1
        <3>1. Len(calls') # 0 /\ Len(calls') \in Nat /\ DOMAIN calls' = 1..Len(calls')
            BY <1>13, <2>3, EmptySeq, LenProperties
        <3>2. 1 \in DOMAIN calls'
            BY <3>1
        <3>. QED
            BY <1>13, <2>1, <3>2
    <2>4. ASSUME calls' = <<>>
          PROVE  returned' = 1
        <3>1. Returns
            BY <1>13, <2>1, <2>4
        <3>2. Len(calls) = 1
            BY <1>2, <1>13, <2>4, <3>1, EmptySeq
        <3>. QED
            BY <1>2, <1>13, <2>1, <3>1, <3>2
    <2>. QED
        BY <1>3, <2>2, <2>3, <2>4 DEF OneRoot
\* What is kept was no argument, and the call that keeps it is none.
<1>19. HandedOnce'
    <2>1. ASSUME NEW m \in DOMAIN nodes', NEW j \in DOMAIN nodes'[m].kids
          PROVE  \/ /\ m \in DOMAIN nodes /\ j \in DOMAIN nodes[m].kids
                    /\ nodes'[m].kids[j] = nodes[m].kids[j]
                 \/ /\ m = n /\ j = Len(nodes[n].kids) + 1
                    /\ nodes'[m].kids[j] = returned
        <3>1. CASE m = n
            <4>1. /\ DOMAIN kept = 1..(Len(nodes[n].kids) + 1)
                  /\ DOMAIN nodes[n].kids = 1..Len(nodes[n].kids)
                BY <1>5, <1>6, LenProperties
            <4>2. j \in 1..Len(nodes[n].kids) \/ j = Len(nodes[n].kids) + 1
                BY <1>6, <1>9, <2>1, <3>1, <4>1
            <4>. QED
                BY <1>2, <1>5, <1>6, <1>9, <3>1, <4>1, <4>2
        <3>2. CASE m # n
            BY <1>5, <1>8, <2>1, <3>2
        <3>. QED
            BY <3>1, <3>2
    <2>2. \A m \in DOMAIN nodes : \A j \in DOMAIN nodes[m].kids :
             /\ nodes[m].kids[j] # returned
             /\ \A k \in DOMAIN calls : nodes[m].kids[j] # calls[k]
        BY <1>3 DEF HandedOnce
    <2>3. OneParent(nodes')
        <3>. SUFFICES ASSUME NEW m \in DOMAIN nodes', NEW o \in DOMAIN nodes',
                             NEW j \in DOMAIN nodes'[m].kids,
                             NEW k \in DOMAIN nodes'[o].kids,
                             nodes'[m].kids[j] = nodes'[o].kids[k]
                      PROVE  m = o /\ j = k
            BY DEF OneParent
        <3>1. OneParent(nodes)
            BY DEF HandedOnce
        <3>2. \/ /\ m \in DOMAIN nodes /\ j \in DOMAIN nodes[m].kids
                 /\ nodes'[m].kids[j] = nodes[m].kids[j]
              \/ /\ m = n /\ j = Len(nodes[n].kids) + 1
                 /\ nodes'[m].kids[j] = returned
            BY <2>1
        <3>3. \/ /\ o \in DOMAIN nodes /\ k \in DOMAIN nodes[o].kids
                 /\ nodes'[o].kids[k] = nodes[o].kids[k]
              \/ /\ o = n /\ k = Len(nodes[n].kids) + 1
                 /\ nodes'[o].kids[k] = returned
            BY <2>1
        <3>. QED
            BY <2>2, <3>1, <3>2, <3>3 DEF OneParent
    <2>4. ASSUME NEW m \in DOMAIN nodes', NEW j \in DOMAIN nodes'[m].kids
          PROVE  /\ returned' # 0 => nodes'[m].kids[j] # returned'
                 /\ \A k \in DOMAIN calls' : nodes'[m].kids[j] # calls'[k]
        <3>1. \/ /\ m \in DOMAIN nodes /\ j \in DOMAIN nodes[m].kids
                 /\ nodes'[m].kids[j] = nodes[m].kids[j]
              \/ nodes'[m].kids[j] = returned
            BY <2>1, <2>4
        <3>2. \A k \in DOMAIN calls : calls[k] # returned
            BY <1>2, <1>3, <1>4 DEF Nested
        <3>3. \A k \in DOMAIN calls : nodes'[m].kids[j] # calls[k]
            BY <2>2, <3>1, <3>2
        <3>4. nodes'[m].kids[j] # n
            BY <1>2, <3>3
        <3>. QED
            BY <1>13, <3>3, <3>4
    <2>. QED
        BY <2>3, <2>4 DEF HandedOnce
<1>. QED
    BY <1>14, <1>15, <1>16, <1>17, <1>18, <1>19

-----------------------------------------------------------------------------
(* The other steps, and the theorems. *)

\* The steps that end the parse change only status.
LEMMA EndKeeps ==
    ASSUME DInv, ExpressionAtEnd \/ ArgumentPanics \/ Finish \/ Rest \/ UNCHANGED vars
    PROVE  DInv'
<1>1. /\ tokens' = tokens /\ read' = read /\ nodes' = nodes
      /\ calls' = calls /\ returned' = returned
    BY DEF ExpressionAtEnd, ArgumentPanics, Finish, Rest, vars
<1>2. /\ status' \in {"run", "done", "panic"}
      /\ status' = "done" => \/ status = "done"
                             \/ returned # 0 /\ calls = <<>>
    BY DEF ExpressionAtEnd, ArgumentPanics, Finish, Rest, vars, DInv, Shape, TypeOK
<1>3. Shape'
    BY <1>1, <1>2 DEF DInv, Shape, TypeOK
<1>4. TargetsNamed' /\ HandedOnce' /\ Nested' /\ OnlyOpenCallsWait'
    BY <1>1 DEF DInv, TargetsNamed, HandedOnce, Nested, OnlyOpenCallsWait
<1>5. OneRoot'
    BY <1>1, <1>2 DEF DInv, OneRoot
<1>. QED
    BY <1>3, <1>4, <1>5 DEF DInv

LEMMA StepKeeps ==
    ASSUME DInv, [Next]_vars
    PROVE  DInv'
BY ExpressionKeeps, ArgumentKeeps, EndKeeps DEF Next

LEMMA Invariant == Spec => []DInv
<1>1. DInv /\ [Next]_vars => DInv'
    BY StepKeeps
<1>. QED
    BY InitDInv, <1>1, PTL DEF Spec

\* When no call is open, every node has all its arguments.
LEMMA DInvReady ==
    ASSUME DInv
    PROVE  TreeReady
<1>. SUFFICES ASSUME status = "done"
              PROVE  returned = 1 /\ WellFormedTree(nodes, Literals, Names)
    BY DEF TreeReady
<1>. USE DEF DInv
<1>1. Shape /\ returned = 1 /\ calls = <<>>
    BY DEF OneRoot
<1>2. DOMAIN nodes = 1..read /\ read \in Nat /\ 1 \in 1..read
    BY <1>1, ShapeFacts
<1>3. ASSUME NEW n \in 1..read
      PROVE  /\ nodes[n].kind \in Kinds /\ nodes[n].lit \in Literals
             /\ nodes[n].name \in Names
             /\ nodes[n].kids \in [1..Arity(nodes[n].kind) -> 1..read]
             /\ \A k \in DOMAIN nodes[n].kids : nodes[n].kids[k] > n
             /\ nodes[n].kind = "ASSIGN"
                   => nodes[nodes[n].kids[1]].kind = "IDENTIFIER"
    <2>1. /\ nodes[n] \in NodeType /\ nodes[n].kids \in Seq((n + 1)..read)
          /\ Len(nodes[n].kids) \in 0..Arity(nodes[n].kind)
        BY <1>1, ShapeFacts
    <2>2. Arity(nodes[n].kind) \in 0..4
        BY <2>1, ArityBounds DEF NodeType
    <2>3. Len(calls) = 0 /\ DOMAIN calls = {}
        BY <1>1, ShapeFacts
    <2>4. Len(nodes[n].kids) = Arity(nodes[n].kind)
        BY <1>2, <2>1, <2>2, <2>3 DEF OnlyOpenCallsWait
    <2>5. /\ nodes[n].kids \in [1..Arity(nodes[n].kind) -> (n + 1)..read]
          /\ DOMAIN nodes[n].kids = 1..Arity(nodes[n].kind)
        BY <2>1, <2>4, LenProperties
    <2>6. nodes[n].kind = "ASSIGN" => nodes[n].kids # <<>>
        <3>1. Arity("ASSIGN") = 2
            BY Arities DEF BinaryKinds
        <3>. QED
            BY <2>4, <3>1, EmptySeq
    <2>7. \A k \in 1..Arity(nodes[n].kind) :
             nodes[n].kids[k] \in 1..read /\ nodes[n].kids[k] > n
        <3>. SUFFICES ASSUME NEW k \in 1..Arity(nodes[n].kind)
                      PROVE  nodes[n].kids[k] \in 1..read /\ nodes[n].kids[k] > n
            OBVIOUS
        <3>1. nodes[n].kids[k] \in (n + 1)..read
            BY <2>5
        <3>. QED
            BY <1>2, <3>1
    <2>8. nodes[n].kids \in [1..Arity(nodes[n].kind) -> 1..read]
        BY <2>5, <2>7
    <2>9. nodes[n].kind = "ASSIGN" => nodes[nodes[n].kids[1]].kind = "IDENTIFIER"
        BY <1>2, <2>6 DEF TargetsNamed
    <2>. QED
        BY <2>1, <2>5, <2>7, <2>8, <2>9 DEF NodeType
<1>. QED
    BY <1>1, <1>2, <1>3 DEF WellFormedTree, HandedOnce

\* The variables of the parser keep their types: an open call's node exists, a
\* node has no more arguments than its kind takes, and each is a later node.
THEOREM TypeCorrect == Spec => []TypeOK
<1>1. DInv => TypeOK
    BY DEF DInv, Shape
<1>. QED
    BY Invariant, <1>1, PTL

\* However deep expression() has recursed, the nodes that miss arguments are
\* exactly those whose calls are on the C stack.
THEOREM OnlyOpenCallsWaitAlways == Spec => []OnlyOpenCallsWait
<1>1. DInv => OnlyOpenCallsWait
    BY DEF DInv
<1>. QED
    BY Invariant, <1>1, PTL

\* Whatever parse() returns, for every input, meets what ir_create assumes: a
\* tree from the first token, with every argument there and none shared.
THEOREM TreeAlwaysReady == Spec => []TreeReady
<1>1. DInv => TreeReady
    BY DInvReady
<1>. QED
    BY Invariant, <1>1, PTL

-----------------------------------------------------------------------------
(* The positions that the prefix notation determines. *)

\* Where the k-th argument of the token at i begins, when expressions end as
\* e says; one more than there are, and it is where the expression at i ends.
Nth(e, i, k) ==
    IF k = 1 THEN i + 1
    ELSE IF k = 2 THEN e[i + 1]
    ELSE IF k = 3 THEN e[e[i + 1]]
    ELSE IF k = 4 THEN e[e[e[i + 1]]]
    ELSE e[e[e[e[i + 1]]]]

\* Each argument begins where the one before it ends.
LEMMA NthStep ==
    ASSUME NEW e, NEW i
    PROVE  /\ Nth(e, i, 1) = i + 1
           /\ \A k \in 1..4 : Nth(e, i, k + 1) = e[Nth(e, i, k)]
<1>1. \A k \in 1..4 : k = 1 \/ k = 2 \/ k = 3 \/ k = 4
    OBVIOUS
<1>2. /\ Nth(e, i, 1) = i + 1
      /\ Nth(e, i, 1 + 1) = e[Nth(e, i, 1)]
      /\ Nth(e, i, 2 + 1) = e[Nth(e, i, 2)]
      /\ Nth(e, i, 3 + 1) = e[Nth(e, i, 3)]
      /\ Nth(e, i, 4 + 1) = e[Nth(e, i, 4)]
    BY DEF Nth
<1>. QED
    BY <1>1, <1>2

\* g is the function that EndOf defines.
IsEnds(g, toks) ==
    g = [i \in 1..(Len(toks) + 2) |->
            LET a == Arity(toks[i].kind)
                e1 == g[i + 1]
                e2 == g[e1]
                e3 == g[e2]
                e4 == g[e3]
            IN  IF i > Len(toks) THEN Len(toks) + 2
                ELSE CASE a = 0 -> i + 1
                       [] a = 1 -> e1
                       [] a = 2 -> e2
                       [] a = 3 -> e3
                       [] a = 4 -> e4]

\* What it says of one position.
EndAt(g, toks, i) ==
    IF i > Len(toks) THEN Len(toks) + 2 ELSE Nth(g, i, Arity(toks[i].kind) + 1)

\* The first lines of the definition, with the cases as places of arguments.
LEMMA EndsAsNth ==
    ASSUME NEW toks \in Seq(TokenType), NEW g
    PROVE  IsEnds(g, toks) <=> g = [i \in 1..(Len(toks) + 2) |-> EndAt(g, toks, i)]
<1>1. Len(toks) \in Nat /\ \A i \in 1..Len(toks) : toks[i] \in TokenType
    BY LenProperties, ElementOfSeq
<1>2. ASSUME NEW i \in 1..(Len(toks) + 2)
      PROVE  (LET a == Arity(toks[i].kind)
                  e1 == g[i + 1]
                  e2 == g[e1]
                  e3 == g[e2]
                  e4 == g[e3]
              IN  IF i > Len(toks) THEN Len(toks) + 2
                  ELSE CASE a = 0 -> i + 1
                         [] a = 1 -> e1
                         [] a = 2 -> e2
                         [] a = 3 -> e3
                         [] a = 4 -> e4) = EndAt(g, toks, i)
    <2>1. CASE i > Len(toks)
        BY <2>1 DEF EndAt
    <2>2. CASE ~(i > Len(toks))
        <3>1. Arity(toks[i].kind) \in 0..4
            BY <1>1, <2>2, ArityBounds DEF TokenType
        <3>2. PICK a \in 0..4 : a = Arity(toks[i].kind)
            BY <3>1
        <3>3. a = 0 \/ a = 1 \/ a = 2 \/ a = 3 \/ a = 4
            BY <3>2
        <3>. QED
            BY <2>2, <3>2, <3>3 DEF EndAt, Nth
    <2>. QED
        BY <2>1, <2>2
<1>. QED
    BY <1>2 DEF IsEnds

\* The arguments of a token are behind it, and so is its end: what EndAt says
\* of i depends on later positions alone.
LEMMA NthBehind ==
    ASSUME NEW n \in Nat, NEW i \in 1..n, NEW e,
           \A j \in (i + 1)..(n + 2) : e[j] \in (i + 1)..(n + 2)
    PROVE  \A k \in 1..5 : Nth(e, i, k) \in (i + 1)..(n + 2)
<1>1. PICK P : P = (i + 1)..(n + 2)
    OBVIOUS
<1>2. i + 1 \in P /\ \A j \in P : e[j] \in P
    BY <1>1
<1>3. \A k \in 1..5 : k = 1 \/ k = 2 \/ k = 3 \/ k = 4 \/ k = 5
    OBVIOUS
<1>4. \A k \in 1..5 : Nth(e, i, k) \in P
    BY <1>2, <1>3 DEF Nth
<1>. QED
    BY <1>1, <1>4

\* Two functions that agree behind i agree on the arguments of i.
Agree(e, f, i, n) ==
    \A j \in (i + 1)..(n + 2) : e[j] \in (i + 1)..(n + 2) /\ f[j] = e[j]

\* (see Agree)
LEMMA NthSame ==
    ASSUME NEW n \in Nat, NEW i \in 1..n, NEW e, NEW f, Agree(e, f, i, n)
    PROVE  \A k \in 1..5 : Nth(f, i, k) = Nth(e, i, k)
<1>1. PICK P : P = (i + 1)..(n + 2)
    OBVIOUS
<1>2. i + 1 \in P /\ \A j \in P : e[j] \in P /\ f[j] = e[j]
    BY <1>1 DEF Agree
<1>3. \A k \in 1..5 : k = 1 \/ k = 2 \/ k = 3 \/ k = 4 \/ k = 5
    OBVIOUS
<1>. QED
    BY <1>2, <1>3 DEF Nth

\* The function exists: it is found from its last position to its first.
LEMMA EndsExist ==
    ASSUME NEW toks \in Seq(TokenType)
    PROVE  \E g : IsEnds(g, toks)
<1>. DEFINE n == Len(toks)
            Good(g, m) == \A j \in (n + 2 - m)..(n + 2) :
                              g[j] = EndAt(g, toks, j) /\ g[j] \in j..(n + 2)
            N == {m \in Nat : \E g : Good(g, m)}
<1>1. n \in Nat /\ \A j \in 1..n : toks[j] \in TokenType
    BY LenProperties, ElementOfSeq
<1>2. \A g, j : EndAt(g, toks, j) = IF j > n THEN n + 2
                                    ELSE Nth(g, j, Arity(toks[j].kind) + 1)
    BY DEF EndAt
<1>. HIDE DEF n
<1>3. 0 \in N
    <2>. DEFINE g == [j \in {n + 2} |-> n + 2]
    <2>1. (n + 2 - 0)..(n + 2) = {n + 2} /\ n + 2 > n /\ n + 2 \in (n + 2)..(n + 2)
        BY <1>1
    <2>2. g[n + 2] = n + 2
        OBVIOUS
    <2>. HIDE DEF g
    <2>3. Good(g, 0)
        BY <1>2, <2>1, <2>2
    <2>. QED
        BY <2>3
<1>4. ASSUME NEW m \in 1..(n + 1), m - 1 \in N
      PROVE  m \in N
    <2>1. PICK g : Good(g, m - 1)
        BY <1>4
    <2>2. PICK i \in 1..(n + 1) : i = n + 2 - m
        BY <1>1
    <2>3. n + 2 - (m - 1) = i + 1
        BY <1>1, <2>2
    <2>4. \A j \in (i + 1)..(n + 2) : g[j] = EndAt(g, toks, j) /\ g[j] \in j..(n + 2)
        BY <2>1, <2>3
    <2>5. ASSUME NEW j \in i..n, NEW f, \A x \in (i + 1)..(n + 2) : f[x] = g[x]
          PROVE  EndAt(f, toks, j) = EndAt(g, toks, j) /\ EndAt(g, toks, j) \in j..(n + 2)
        <3>1. j \in 1..n /\ ~(j > n)
            BY <1>1
        <3>2. PICK k \in 1..5 : k = Arity(toks[j].kind) + 1
            <4>1. Arity(toks[j].kind) \in 0..4
                BY <1>1, <3>1, ArityBounds DEF TokenType
            <4>. QED
                BY <4>1
        <3>3. ASSUME NEW x \in (j + 1)..(n + 2)
              PROVE  g[x] \in (j + 1)..(n + 2) /\ f[x] = g[x]
            <4>1. x \in (i + 1)..(n + 2)
                BY <1>1
            <4>2. g[x] \in x..(n + 2) /\ f[x] = g[x]
                BY <2>4, <2>5, <4>1
            <4>. QED
                BY <1>1, <4>2
        <3>4. Nth(f, j, k) = Nth(g, j, k) /\ Nth(g, j, k) \in (j + 1)..(n + 2)
            <4>1. Agree(g, f, j, n)
                BY <3>3 DEF Agree
            <4>2. \A x \in (j + 1)..(n + 2) : g[x] \in (j + 1)..(n + 2)
                BY <3>3
            <4>3. \A l \in 1..5 : Nth(f, j, l) = Nth(g, j, l)
                BY <1>1, <3>1, <4>1, NthSame
            <4>4. \A l \in 1..5 : Nth(g, j, l) \in (j + 1)..(n + 2)
                BY <1>1, <3>1, <4>2, NthBehind
            <4>. QED
                BY <4>3, <4>4
        <3>5. EndAt(f, toks, j) = Nth(f, j, k) /\ EndAt(g, toks, j) = Nth(g, j, k)
            BY <1>2, <3>1, <3>2
        <3>. QED
            BY <1>1, <3>1, <3>4, <3>5
    <2>6. PICK v : v = EndAt(g, toks, i)
        OBVIOUS
    <2>. DEFINE f == [j \in i..(n + 2) |-> IF j = i THEN v ELSE g[j]]
    <2>7. f[i] = v /\ \A j \in (i + 1)..(n + 2) : f[j] = g[j]
        BY <1>1
    <2>. HIDE DEF f, Good
    <2>8. ASSUME NEW j \in i..(n + 2)
          PROVE  f[j] = EndAt(f, toks, j) /\ f[j] \in j..(n + 2)
        <3>1. CASE j > n
            <4>1. EndAt(f, toks, j) = n + 2 /\ EndAt(g, toks, j) = n + 2
                BY <1>2, <3>1
            <4>2. j = i \/ j \in (i + 1)..(n + 2)
                BY <1>1
            <4>3. f[j] = n + 2
                BY <2>4, <2>6, <2>7, <4>1, <4>2
            <4>. QED
                BY <1>1, <4>1, <4>3
        <3>2. CASE ~(j > n)
            <4>1. j \in i..n /\ (j = i \/ j \in (i + 1)..(n + 2))
                BY <1>1, <3>2
            <4>2. EndAt(f, toks, j) = EndAt(g, toks, j) /\ EndAt(g, toks, j) \in j..(n + 2)
                BY <2>5, <2>7, <4>1
            <4>3. f[j] = EndAt(g, toks, j)
                BY <2>4, <2>6, <2>7, <4>1
            <4>. QED
                BY <4>2, <4>3
        <3>. QED
            BY <3>1, <3>2
    <2>9. Good(f, m)
        BY <2>2, <2>8 DEF Good
    <2>. QED
        BY <2>9
<1>5. n + 1 \in N
    <2>1. n + 1 \in Nat
        BY <1>1
    <2>. HIDE DEF N
    <2>2. 0..(n + 1) \subseteq N
        BY <1>3, <1>4, <2>1, UpTo
    <2>. QED
        BY <2>1, <2>2
<1>6. PICK g : Good(g, n + 1)
    BY <1>5
<1>7. n + 2 - (n + 1) = 1
    BY <1>1
<1>8. \A j \in 1..(n + 2) : g[j] = EndAt(g, toks, j) /\ g[j] \in j..(n + 2)
    BY <1>6, <1>7
<1>. DEFINE h == [j \in 1..(n + 2) |-> g[j]]
<1>9. \A j \in 1..(n + 2) : h[j] = g[j]
    OBVIOUS
<1>10. h = [j \in 1..(n + 2) |-> h[j]]
    OBVIOUS
<1>. HIDE DEF h, Good
<1>11. ASSUME NEW j \in 1..(n + 2)
       PROVE  EndAt(h, toks, j) = EndAt(g, toks, j)
    <2>1. CASE j > n
        BY <1>2, <2>1
    <2>2. CASE ~(j > n)
        <3>1. j \in 1..n
            BY <1>1, <2>2
        <3>2. PICK k \in 1..5 : k = Arity(toks[j].kind) + 1
            <4>1. Arity(toks[j].kind) \in 0..4
                BY <1>1, <3>1, ArityBounds DEF TokenType
            <4>. QED
                BY <4>1
        <3>3. ASSUME NEW x \in (j + 1)..(n + 2)
              PROVE  g[x] \in (j + 1)..(n + 2) /\ h[x] = g[x]
            <4>1. x \in 1..(n + 2)
                BY <1>1
            <4>2. g[x] \in x..(n + 2) /\ h[x] = g[x]
                BY <1>8, <1>9, <4>1
            <4>. QED
                BY <1>1, <4>2
        <3>4. Nth(h, j, k) = Nth(g, j, k)
            <4>1. Agree(g, h, j, n)
                BY <3>3 DEF Agree
            <4>2. \A l \in 1..5 : Nth(h, j, l) = Nth(g, j, l)
                BY <1>1, <3>1, <4>1, NthSame
            <4>. QED
                BY <4>2
        <3>. QED
            BY <1>2, <2>2, <3>2, <3>4
    <2>. QED
        BY <2>1, <2>2
<1>12. h = [j \in 1..(n + 2) |-> EndAt(h, toks, j)]
    BY <1>8, <1>9, <1>10, <1>11
<1>. QED
    BY <1>12, EndsAsNth DEF n

\* What EndOf says of each position.
LEMMA EndFacts ==
    ASSUME NEW toks \in Seq(TokenType)
    PROVE  /\ EndOf(toks)[Len(toks) + 1] = Len(toks) + 2
           /\ EndOf(toks)[Len(toks) + 2] = Len(toks) + 2
           /\ \A i \in 1..Len(toks) :
                 EndOf(toks)[i] = Nth(EndOf(toks), i, Arity(toks[i].kind) + 1)
<1>. DEFINE P(g) == IsEnds(g, toks)
<1>1. \E g : P(g)
    BY EndsExist
<1>2. EndOf(toks) = CHOOSE g : P(g)
    BY DEF EndOf, IsEnds
<1>. HIDE DEF P
<1>3. P(EndOf(toks))
    BY <1>1, <1>2, Zenon
<1>4. PICK e : e = EndOf(toks)
    OBVIOUS
<1>5. e = [i \in 1..(Len(toks) + 2) |-> EndAt(e, toks, i)]
    BY <1>3, <1>4, EndsAsNth DEF P
<1>6. Len(toks) \in Nat
    BY LenProperties
<1>7. \A i \in 1..(Len(toks) + 2) : e[i] = EndAt(e, toks, i)
    <2>. DEFINE A(i) == EndAt(e, toks, i)
    <2>1. e = [i \in 1..(Len(toks) + 2) |-> A(i)]
        BY <1>5
    <2>. HIDE DEF A
    <2>2. \A i \in 1..(Len(toks) + 2) : e[i] = A(i)
        BY <2>1
    <2>. QED
        BY <2>2 DEF A
<1>8. /\ EndAt(e, toks, Len(toks) + 1) = Len(toks) + 2
      /\ EndAt(e, toks, Len(toks) + 2) = Len(toks) + 2
      /\ \A i \in 1..Len(toks) :
            EndAt(e, toks, i) = Nth(e, i, Arity(toks[i].kind) + 1)
    BY <1>6 DEF EndAt
<1>9. /\ Len(toks) + 1 \in 1..(Len(toks) + 2) /\ Len(toks) + 2 \in 1..(Len(toks) + 2)
      /\ \A i \in 1..Len(toks) : i \in 1..(Len(toks) + 2)
    BY <1>6
<1>. QED
    BY <1>4, <1>7, <1>8, <1>9

\* The arguments in Tree are the places that EndOf determines.
LEMMA KidsNth ==
    ASSUME NEW e, NEW i, NEW a \in 0..4
    PROVE  Kids(e, i, a) = [k \in 1..a |-> Nth(e, i, k)]
<1>. DEFINE IsKid(g) == g = [k \in 1..4 |-> IF k = 1 THEN i + 1 ELSE e[g[k - 1]]]
            kid[k \in 1..4] == IF k = 1 THEN i + 1 ELSE e[kid[k - 1]]
<1>1. \E g : IsKid(g)
    <2>. DEFINE g == [k \in 1..4 |-> Nth(e, i, k)]
    <2>1. \A k \in 1..4 : g[k] = Nth(e, i, k)
        OBVIOUS
    <2>2. g = [k \in 1..4 |-> g[k]]
        OBVIOUS
    <2>. HIDE DEF g
    <2>3. ASSUME NEW k \in 1..4
          PROVE  g[k] = IF k = 1 THEN i + 1 ELSE e[g[k - 1]]
        <3>1. CASE k = 1
            BY <2>1, <3>1, NthStep
        <3>2. CASE k # 1
            <4>1. k - 1 \in 1..4 /\ (k - 1) + 1 = k
                BY <3>2
            <4>2. Nth(e, i, k) = e[Nth(e, i, k - 1)]
                BY <4>1, NthStep
            <4>. QED
                BY <2>1, <3>2, <4>1, <4>2
        <3>. QED
            BY <3>1, <3>2
    <2>4. IsKid(g)
        BY <2>2, <2>3
    <2>. HIDE DEF IsKid
    <2>. QED
        BY <2>4
<1>2. kid = CHOOSE g : IsKid(g)
    OBVIOUS
<1>3. IsKid(kid)
    <2>. HIDE DEF IsKid, kid
    <2>. QED
        BY <1>1, <1>2, Zenon
<1>4. Kids(e, i, a) = [k \in 1..a |-> kid[k]]
    BY DEF Kids
<1>. HIDE DEF kid
<1>5. kid[1] = i + 1 /\ \A k \in 2..4 : kid[k] = e[kid[k - 1]]
    BY <1>3
<1>6. kid[2] = e[kid[1]] /\ kid[3] = e[kid[2]] /\ kid[4] = e[kid[3]]
    BY <1>5
<1>7. \A k \in 1..4 : k = 1 \/ k = 2 \/ k = 3 \/ k = 4
    OBVIOUS
<1>8. \A k \in 1..4 : kid[k] = Nth(e, i, k)
    BY <1>5, <1>6, <1>7 DEF Nth
<1>9. \A k \in 1..a : k \in 1..4
    OBVIOUS
<1>. QED
    BY <1>4, <1>8, <1>9


-----------------------------------------------------------------------------
(* What has been read is where the prefix notation places it. *)

\* Where the next argument of the node n begins, when it has another, and
\* where its expression ends, when it has not.
Due(e, n) == Nth(e, n, Len(nodes[n].kids) + 1)

Copied ==
    \A n \in 1..read :
        /\ nodes[n].kind = tokens[n].kind
        /\ nodes[n].lit = tokens[n].lit
        /\ nodes[n].name = tokens[n].name

KidsPlaced(e) ==
    \A n \in 1..read : \A k \in 1..Len(nodes[n].kids) :
        nodes[n].kids[k] = Nth(e, n, k)

\* An open call is for the argument that the call around it has due; the
\* innermost one has due what has just returned, or else what is read next.
CallsPlaced(e) ==
    /\ \A j \in 1..Len(calls) :
          j # Len(calls) => Due(e, calls[j]) = calls[j + 1]
    /\ calls # <<>> =>
          Due(e, calls[Len(calls)]) = IF returned = 0 THEN read + 1 ELSE returned

\* What returns has been read to its end.
EndPlaced(e) == returned # 0 => e[returned] = read + 1

Outcome ==
    /\ status = "done" => read = Len(tokens)
    /\ status = "panic" => ~Accepts(tokens)

PlacedBy(e) == Copied /\ KidsPlaced(e) /\ CallsPlaced(e) /\ EndPlaced(e)

PInv == DInv /\ PlacedBy(EndOf(tokens)) /\ Outcome

LEMMA InitPInv == Init => PInv
<1>. SUFFICES ASSUME Init
              PROVE  PlacedBy(EndOf(tokens)) /\ Outcome
    BY InitDInv DEF PInv
<1>1. read = 0 /\ calls = <<>> /\ Len(calls) = 0 /\ returned = 0 /\ status = "run"
    BY DEF Init
<1>. QED
    BY <1>1 DEF PlacedBy, Copied, KidsPlaced, CallsPlaced, EndPlaced, Outcome

\* What EndOf says of the node n, at the kind that it was made with.
LEMMA NodeEnd ==
    ASSUME DInv, Copied, NEW e, e = EndOf(tokens), NEW n \in 1..read
    PROVE  /\ nodes[n].kind \in Kinds
           /\ Arity(nodes[n].kind) \in 0..4
           /\ e[n] = Nth(e, n, Arity(nodes[n].kind) + 1)
<1>1. /\ nodes[n] \in NodeType /\ n \in 1..Len(tokens)
      /\ nodes[n].kind = tokens[n].kind /\ tokens \in Seq(TokenType)
    BY ShapeFacts DEF DInv, Shape, Copied
<1>2. nodes[n].kind \in Kinds /\ Arity(nodes[n].kind) \in 0..4
    BY <1>1, ArityBounds DEF NodeType
<1>3. EndOf(tokens)[n] = Nth(EndOf(tokens), n, Arity(tokens[n].kind) + 1)
    BY <1>1, EndFacts
<1>. QED
    BY <1>1, <1>2, <1>3

LEMMA ExpressionPlaces ==
    ASSUME DInv, NEW e, e = EndOf(tokens), PlacedBy(e), Expression
    PROVE  PlacedBy(e)'
<1>. USE DEF PlacedBy
<1>1. Shape
    BY DEF DInv
<1>2. /\ Len(tokens) \in Nat /\ read \in Nat /\ read + 1 \in 1..Len(tokens)
      /\ tokens[read + 1] \in TokenType /\ returned = 0
      /\ Len(calls) \in Nat /\ DOMAIN calls = 1..Len(calls)
      /\ \A k \in 1..Len(calls) : calls[k] \in 1..read
    BY <1>1, ShapeFacts DEF Expression
<1>3. PICK tok \in TokenType : tok = tokens[read + 1]
    BY <1>2
<1>4. /\ read' = read + 1 /\ tokens' = tokens
      /\ nodes' = Append(nodes, Node(tok))
    BY <1>3 DEF Expression
<1>5. /\ Node(tok) \in NodeType /\ Node(tok).kids = <<>>
      /\ Node(tok).kind = tok.kind /\ Node(tok).lit = tok.lit
      /\ Node(tok).name = tok.name
    BY <1>3 DEF Node, NodeType, TokenType
<1>6. /\ \A n \in 1..read : nodes'[n] = nodes[n]
      /\ nodes'[read + 1] = Node(tok)
    BY <1>1, <1>2, <1>4, <1>5, ShapeFacts, AppendProperties DEF Shape
<1>7. \A n \in 1..read' : n \in 1..read \/ n = read + 1
    BY <1>2, <1>4
<1>8. Copied'
    BY <1>3, <1>4, <1>5, <1>6, <1>7 DEF Copied
<1>9. KidsPlaced(e)'
    <2>1. Len(nodes'[read + 1].kids) = 0
        BY <1>5, <1>6
    <2>. QED
        BY <1>6, <1>7, <2>1 DEF KidsPlaced
<1>10. PICK r \in Nat : r = read + 1
    BY <1>2
<1>11. /\ \A n \in 1..read : Due(e, n)' = Due(e, n)
       /\ Due(e, r)' = r + 1
    <2>1. Len(nodes'[r].kids) + 1 = 1
        BY <1>5, <1>6, <1>10
    <2>2. Nth(e, r, 1) = r + 1
        BY NthStep
    <2>3. Due(e, r)' = r + 1
        BY <2>1, <2>2 DEF Due
    <2>4. \A n \in 1..read : Due(e, n)' = Due(e, n)
        BY <1>6 DEF Due
    <2>. QED
        BY <2>3, <2>4
<1>12. CASE tok.kind \in LeafKinds
    <2>1. returned' = read + 1 /\ calls' = calls
        BY <1>3, <1>12 DEF Expression
    <2>2. \A j \in 1..Len(calls) : Due(e, calls[j])' = Due(e, calls[j])
        BY <1>2, <1>11, <2>1
    <2>3. calls # <<>> => Len(calls) \in 1..Len(calls)
        BY <1>1, <1>2, EmptySeq DEF Shape
    <2>4. CallsPlaced(e)'
        <3>1. \A j \in 1..Len(calls) :
                 j # Len(calls) => Due(e, calls[j]) = calls[j + 1]
            BY DEF CallsPlaced
        <3>2. calls # <<>> => Due(e, calls[Len(calls)]) = read + 1
            BY <1>2 DEF CallsPlaced
        <3>3. read + 1 # 0
            BY <1>2
        <3>4. \A j \in 1..Len(calls') :
                 j # Len(calls') => Due(e, calls[j])' = calls'[j + 1]
            BY <2>1, <2>2, <3>1
        <3>5. calls' # <<>> => Due(e, calls[Len(calls)])' = returned'
            BY <2>1, <2>2, <2>3, <3>2
        <3>. QED
            BY <2>1, <3>3, <3>4, <3>5 DEF CallsPlaced
    <2>5. e[read + 1] = read + 2
        <3>1. tokens \in Seq(TokenType)
            BY <1>1 DEF Shape
        <3>2. Arity(tokens[read + 1].kind) + 1 = 1
            BY <1>3, <1>12, Arities
        <3>3. EndOf(tokens)[read + 1] = Nth(EndOf(tokens), read + 1, 1)
            BY <1>2, <3>1, <3>2, EndFacts
        <3>4. Nth(e, r, 1) = r + 1
            BY NthStep
        <3>. QED
            BY <1>2, <1>10, <3>3, <3>4
    <2>. QED
        BY <1>2, <1>4, <1>8, <1>9, <2>1, <2>4, <2>5 DEF EndPlaced
<1>13. CASE tok.kind \notin LeafKinds
    <2>1. returned' = 0 /\ calls' = Append(calls, read + 1)
        BY <1>2, <1>3, <1>13 DEF Expression
    <2>2. calls \in Seq(Nat) /\ read + 1 \in Nat
        BY <1>1, <1>2 DEF Shape
    <2>3. /\ Len(calls') = Len(calls) + 1
          /\ \A k \in 1..Len(calls) : calls'[k] = calls[k]
          /\ calls'[Len(calls) + 1] = read + 1
        BY <2>1, <2>2, AppendProperties
    <2>4. ASSUME NEW j \in 1..Len(calls'), j # Len(calls')
          PROVE  Due(e, calls[j])' = calls'[j + 1]
        <3>1. j \in 1..Len(calls)
            BY <1>2, <2>3, <2>4
        <3>2. Due(e, calls[j])' = Due(e, calls[j])
            BY <1>2, <1>11, <2>3, <3>1
        <3>3. CASE j = Len(calls)
            <4>1. calls # <<>>
                BY <3>1
            <4>2. Due(e, calls[Len(calls)]) = read + 1
                BY <1>2, <4>1 DEF CallsPlaced
            <4>. QED
                BY <2>3, <3>2, <3>3, <4>2
        <3>4. CASE j # Len(calls)
            <4>1. Due(e, calls[j]) = calls[j + 1]
                BY <3>1, <3>4 DEF CallsPlaced
            <4>2. j + 1 \in 1..Len(calls)
                <5>1. \A l \in Nat : \A i \in 1..l : i # l => i + 1 \in 1..l
                    OBVIOUS
                <5>2. Len(calls) \in Nat
                    BY <1>2
                <5>. QED
                    BY <3>1, <3>4, <5>1, <5>2
            <4>. QED
                BY <2>3, <3>2, <4>1, <4>2
        <3>. QED
            BY <3>3, <3>4
    <2>5. Due(e, calls[Len(calls)])' = read' + 1
        <3>1. calls'[Len(calls')] = r
            BY <1>2, <1>10, <2>3
        <3>. QED
            BY <1>2, <1>4, <1>10, <1>11, <3>1
    <2>6. CallsPlaced(e)'
        BY <2>1, <2>4, <2>5 DEF CallsPlaced
    <2>. QED
        BY <1>8, <1>9, <2>1, <2>6 DEF EndPlaced
<1>. QED
    BY <1>12, <1>13

LEMMA ArgumentPlaces ==
    ASSUME DInv, NEW e, e = EndOf(tokens), PlacedBy(e), Argument
    PROVE  PlacedBy(e)'
<1>. USE DEF PlacedBy
<1>1. Shape
    BY DEF DInv
<1>2. /\ Len(calls) \in Nat /\ DOMAIN calls = 1..Len(calls)
      /\ \A k \in 1..Len(calls) : calls[k] \in 1..read
      /\ read \in Nat /\ returned \in 0..read
    BY <1>1, ShapeFacts
<1>3. calls # <<>> /\ returned # 0 /\ tokens' = tokens /\ read' = read
    BY DEF Argument
<1>4. Len(calls) \in 1..Len(calls)
    <2>1. Len(calls) # 0
        BY <1>1, <1>3, EmptySeq DEF Shape
    <2>. QED
        BY <1>2, <2>1
<1>5. PICK n \in 1..read : n = calls[Len(calls)] /\ n = Last(calls)
    BY <1>2, <1>4 DEF Last
<1>6. /\ DOMAIN nodes = 1..read
      /\ \A m \in 1..read : nodes[m] \in NodeType
      /\ nodes[n].kids \in Seq(Nat) /\ Len(nodes[n].kids) \in Nat
    <2>1. DOMAIN nodes = 1..read /\ \A m \in 1..read : nodes[m] \in NodeType
        BY <1>1, ShapeFacts
    <2>2. nodes[n].kids \in Seq(Nat)
        BY <2>1 DEF NodeType
    <2>. QED
        BY <2>1, <2>2, LenProperties
<1>7. PICK l \in Nat : l = Len(nodes[n].kids)
    BY <1>6
<1>8. /\ nodes[n].kind \in Kinds /\ Arity(nodes[n].kind) \in 0..4
      /\ e[n] = Nth(e, n, Arity(nodes[n].kind) + 1)
    BY NodeEnd
<1>9. PICK a \in 0..4 : a = Arity(nodes[n].kind)
    BY <1>8
<1>10. l < a
    BY <1>2, <1>4, <1>5, <1>6, <1>7, <1>9 DEF DInv, OnlyOpenCallsWait
\* What is kept is what was due, and its end is where the next is due.
<1>11. Nth(e, n, l + 1) = returned
    BY <1>3, <1>5, <1>7 DEF CallsPlaced, Due
<1>12. Nth(e, n, l + 2) = read + 1
    <2>1. e[returned] = read + 1
        BY <1>3 DEF EndPlaced
    <2>2. l + 1 \in 1..4 /\ (l + 1) + 1 = l + 2
        BY <1>10
    <2>3. Nth(e, n, l + 2) = e[Nth(e, n, l + 1)]
        BY <2>2, NthStep
    <2>. QED
        BY <1>11, <2>1, <2>3
<1>13. PICK kept : kept = Append(nodes[n].kids, returned)
    OBVIOUS
<1>14. /\ Len(kept) = l + 1 /\ kept[l + 1] = returned
       /\ \A k \in 1..l : kept[k] = nodes[n].kids[k]
    <2>1. returned \in Nat
        BY <1>2
    <2>. QED
        BY <1>6, <1>7, <1>13, <2>1, AppendProperties
<1>15. nodes' = [nodes EXCEPT ![n].kids = kept]
    BY <1>5, <1>13 DEF Argument
<1>16. /\ \A m \in 1..read : m # n => nodes'[m] = nodes[m]
       /\ nodes'[n] = [nodes[n] EXCEPT !.kids = kept]
    BY <1>6, <1>15
<1>17. /\ nodes'[n].kids = kept /\ nodes'[n].kind = nodes[n].kind
       /\ nodes'[n].lit = nodes[n].lit /\ nodes'[n].name = nodes[n].name
    BY <1>6, <1>16 DEF NodeType
<1>18. \/ l + 1 = a /\ returned' = n /\ calls' = Front(calls)
       \/ l + 1 # a /\ returned' = 0 /\ calls' = calls
    BY <1>5, <1>9, <1>14, <1>17 DEF Argument
<1>19. Copied'
    BY <1>3, <1>16, <1>17 DEF Copied
<1>20. KidsPlaced(e)'
    <2>. SUFFICES ASSUME NEW m \in 1..read, NEW k \in 1..Len(nodes'[m].kids)
                  PROVE  nodes'[m].kids[k] = Nth(e, m, k)
        BY <1>3 DEF KidsPlaced
    <2>1. CASE m # n
        BY <1>16, <2>1 DEF KidsPlaced
    <2>2. CASE m = n
        <3>1. k \in 1..l \/ k = l + 1
            BY <1>14, <1>17, <2>2
        <3>2. CASE k \in 1..l
            BY <1>7, <1>14, <1>17, <2>2, <3>2 DEF KidsPlaced
        <3>3. CASE k = l + 1
            BY <1>11, <1>14, <1>17, <2>2, <3>3
        <3>. QED
            BY <3>1, <3>2, <3>3
    <2>. QED
        BY <2>1, <2>2
<1>21. /\ \A m \in 1..read : m # n => Due(e, m)' = Due(e, m)
       /\ Due(e, n)' = read + 1
    <2>1. Len(nodes'[n].kids) + 1 = l + 2
        BY <1>14, <1>17
    <2>2. Due(e, n)' = read + 1
        BY <1>12, <2>1 DEF Due
    <2>3. \A m \in 1..read : m # n => Due(e, m)' = Due(e, m)
        BY <1>16 DEF Due
    <2>. QED
        BY <2>2, <2>3
\* The other open calls are for other nodes.
<1>22. \A j \in 1..Len(calls) : j # Len(calls) => calls[j] # n
    <2>. SUFFICES ASSUME NEW j \in 1..Len(calls), j # Len(calls)
                  PROVE  calls[j] # n
        OBVIOUS
    <2>1. Len(calls) \in Nat
        BY <1>2
    <2>2. j < Len(calls)
        BY <2>1
    <2>3. j \in DOMAIN calls /\ Len(calls) \in DOMAIN calls
        BY <1>2, <1>4
    <2>4. calls[j] < n
        BY <1>5, <2>2, <2>3 DEF DInv, Nested
    <2>5. calls[j] \in 1..read
        BY <1>2
    <2>. QED
        BY <2>4, <2>5
<1>23. \A j \in 1..Len(calls) :
          j # Len(calls) => Due(e, calls[j]) = calls[j + 1]
    BY DEF CallsPlaced
<1>24. CASE l + 1 # a
    <2>1. returned' = 0 /\ calls' = calls
        BY <1>18, <1>24
    <2>2. \A j \in 1..Len(calls') :
             j # Len(calls') => Due(e, calls[j])' = calls'[j + 1]
        BY <1>2, <1>21, <1>22, <1>23, <2>1
    <2>3. Due(e, calls[Len(calls)])' = read' + 1
        BY <1>3, <1>5, <1>21, <2>1
    <2>. QED
        BY <1>19, <1>20, <2>1, <2>2, <2>3 DEF CallsPlaced, EndPlaced
<1>25. CASE l + 1 = a
    <2>1. returned' = n /\ calls' = Front(calls)
        BY <1>18, <1>25
    <2>2. PICK c \in Nat : c = Len(calls) /\ c # 0
        <3>1. Len(calls) \in Nat
            BY <1>2
        <3>2. Len(calls) # 0
            BY <1>4, <3>1
        <3>. QED
            BY <3>1, <3>2
    <2>3. Len(calls') = c - 1 /\ \A j \in 1..(c - 1) : calls'[j] = calls[j]
        <3>1. calls \in Seq(Nat) /\ Len(calls) > 0
            BY <1>1, <2>2 DEF Shape
        <3>. QED
            BY <2>1, <2>2, <3>1 DEF Front
    <2>4. ASSUME NEW j \in 1..(c - 1)
          PROVE  Due(e, calls[j])' = calls[j + 1]
        <3>1. j \in 1..c /\ j # c
            BY <2>2
        <3>2. calls[j] # n /\ calls[j] \in 1..read /\ Due(e, calls[j]) = calls[j + 1]
            BY <1>2, <1>22, <1>23, <2>2, <3>1
        <3>3. PICK m \in 1..read : m = calls[j]
            BY <3>2
        <3>4. Due(e, m)' = Due(e, m)
            BY <1>21, <3>2, <3>3
        <3>5. calls'[j] = m
            BY <2>3, <3>3
        <3>. QED
            BY <3>2, <3>3, <3>4, <3>5
    <2>5. ASSUME NEW j \in 1..Len(calls'), j # Len(calls')
          PROVE  Due(e, calls[j])' = calls'[j + 1]
        <3>1. j \in 1..(c - 1) /\ j + 1 \in 1..(c - 1)
            BY <2>2, <2>3, <2>5
        <3>. QED
            BY <2>3, <2>4, <3>1
    <2>6. ASSUME calls' # <<>>
          PROVE  Due(e, calls[Len(calls)])' = returned'
        <3>1. calls' \in Seq(Nat)
            BY ArgumentKeeps DEF DInv, Shape
        <3>2. Len(calls') # 0
            BY <2>6, <3>1, EmptySeq
        <3>3. PICK j \in 1..(c - 1) : j = c - 1
            BY <2>2, <2>3, <3>2
        <3>4. Due(e, calls[j])' = calls[j + 1] /\ j + 1 = c
            BY <2>2, <2>4, <3>3
        <3>5. calls[j + 1] = n
            BY <1>5, <2>2, <3>4
        <3>6. Len(calls') = j
            BY <2>3, <3>3
        <3>. QED
            BY <2>1, <3>4, <3>5, <3>6
    <2>7. CallsPlaced(e)'
        <3>1. returned' # 0
            BY <2>1
        <3>. QED
            BY <2>5, <2>6, <3>1 DEF CallsPlaced
    <2>8. EndPlaced(e)'
        <3>1. e[n] = read + 1
            <4>1. a + 1 = l + 2
                BY <1>25
            <4>. QED
                BY <1>8, <1>9, <1>12, <4>1
        <3>. QED
            BY <1>3, <2>1, <3>1 DEF EndPlaced
    <2>. QED
        BY <1>19, <1>20, <2>7, <2>8
<1>. QED
    BY <1>24, <1>25

-----------------------------------------------------------------------------
(* The outcomes. *)

\* From an argument that ends past the input, so do the ones behind it and
\* the expression that they belong to.
LEMMA PastInput ==
    ASSUME NEW e, NEW i, NEW x, e[x] = x, NEW l \in 0..3, NEW a \in 1..4, l < a,
           e[Nth(e, i, l + 1)] = x
    PROVE  Nth(e, i, a + 1) = x
<1>1. /\ Nth(e, i, 2) = e[Nth(e, i, 1)] /\ Nth(e, i, 3) = e[Nth(e, i, 2)]
      /\ Nth(e, i, 4) = e[Nth(e, i, 3)] /\ Nth(e, i, 5) = e[Nth(e, i, 4)]
    BY DEF Nth
<1>2. (l = 0 \/ l = 1 \/ l = 2 \/ l = 3) /\ (a = 1 \/ a = 2 \/ a = 3 \/ a = 4)
    OBVIOUS
<1>3. CASE l = 0
    BY <1>1, <1>2, <1>3
<1>4. CASE l = 1
    BY <1>1, <1>2, <1>4
<1>5. CASE l = 2
    BY <1>1, <1>2, <1>5
<1>6. CASE l = 3
    BY <1>1, <1>2, <1>6
<1>. QED
    BY <1>2, <1>3, <1>4, <1>5, <1>6

\* Where the input ends too early, that is so of every open call, from the
\* innermost to the outermost, which is for the first token.
LEMMA EndsEarly ==
    ASSUME DInv, NEW e, e = EndOf(tokens), PlacedBy(e), ExpressionAtEnd
    PROVE  ~Accepts(tokens)
<1>. USE DEF PlacedBy
<1>1. /\ Shape /\ tokens \in Seq(TokenType) /\ Len(tokens) \in Nat
      /\ returned = 0 /\ read = Len(tokens)
    BY LenProperties DEF DInv, Shape, ExpressionAtEnd
<1>2. CASE calls = <<>>
    <2>1. Len(tokens) = 0
        BY <1>1, <1>2 DEF DInv, OneRoot
    <2>. QED
        BY <1>1, <2>1, EmptySeq DEF Accepts
<1>3. CASE calls # <<>>
    <2>1. PICK x \in Nat : x = Len(tokens) + 2
        BY <1>1
    <2>2. e[x] = x /\ e[read + 1] = x
        BY <1>1, <2>1, EndFacts
    <2>3. PICK c \in Nat : c = Len(calls) /\ c # 0
        <3>1. Len(calls) \in Nat
            BY <1>1, ShapeFacts
        <3>2. Len(calls) # 0
            BY <1>1, <1>3, EmptySeq DEF Shape
        <3>. QED
            BY <3>1, <3>2
    \* Of one call, when what it has due ends past the input.
    <2>4. ASSUME NEW j \in 1..c, e[Due(e, calls[j])] = x
          PROVE  e[calls[j]] = x
        <3>1. PICK n \in 1..read : n = calls[j]
            BY <1>1, <2>3, ShapeFacts
        <3>2. /\ Arity(nodes[n].kind) \in 0..4
              /\ e[n] = Nth(e, n, Arity(nodes[n].kind) + 1)
            BY NodeEnd
        <3>3. Len(nodes[n].kids) \in 0..Arity(nodes[n].kind)
            BY <1>1, ShapeFacts
        <3>4. Len(nodes[n].kids) < Arity(nodes[n].kind)
            <4>1. n \in DOMAIN nodes /\ j \in DOMAIN calls
                BY <1>1, <2>3, ShapeFacts
            <4>. QED
                BY <3>1, <4>1 DEF DInv, OnlyOpenCallsWait
        <3>5. PICK l \in 0..3, a \in 1..4 :
                 l = Len(nodes[n].kids) /\ a = Arity(nodes[n].kind) /\ l < a
            <4>1. \A b \in 0..4 : \A k \in 0..b : k < b => k \in 0..3 /\ b \in 1..4
                OBVIOUS
            <4>. QED
                BY <3>2, <3>3, <3>4, <4>1
        <3>6. e[Nth(e, n, l + 1)] = x
            BY <2>4, <3>1, <3>5 DEF Due
        <3>7. Nth(e, n, a + 1) = x
            <4>1. e[x] = x /\ l < a
                BY <2>2, <3>5
            <4>. QED
                BY <3>6, <4>1, PastInput
        <3>. QED
            BY <3>1, <3>2, <3>5, <3>7
    <2>. DEFINE N == {m \in Nat : m < c => e[calls[c - m]] = x}
    <2>5. 0 \in N
        <3>1. Due(e, calls[c]) = read + 1
            BY <1>1, <1>3, <2>3 DEF CallsPlaced
        <3>2. c - 0 = c /\ c \in 1..c
            BY <2>3
        <3>3. e[calls[c]] = x
            BY <2>2, <2>4, <3>1, <3>2
        <3>. QED
            BY <3>2, <3>3
    <2>6. ASSUME NEW m \in 1..(c - 1), m - 1 \in N
          PROVE  m \in N
        <3>1. PICK j \in 1..c : /\ j = c - m /\ j # c /\ j + 1 = c - (m - 1)
                                /\ m - 1 < c /\ m \in Nat
            <4>1. \A i \in Nat : \A k \in 1..(i - 1) :
                     /\ i - k \in 1..i /\ i - k # i /\ (i - k) + 1 = i - (k - 1)
                     /\ k - 1 < i /\ k \in Nat
                OBVIOUS
            <4>2. m \in 1..(c - 1) /\ c \in Nat
                OBVIOUS
            <4>. HIDE DEF N
            <4>. QED
                BY <4>1, <4>2
        <3>2. e[calls[j + 1]] = x
            BY <2>6, <3>1
        <3>3. Due(e, calls[j]) = calls[j + 1]
            BY <2>3, <3>1 DEF CallsPlaced
        <3>4. e[calls[j]] = x
            BY <2>4, <3>2, <3>3
        <3>. QED
            BY <3>1, <3>4
    <2>7. c - 1 \in N
        <3>1. c - 1 \in Nat
            BY <2>3
        <3>. HIDE DEF N
        <3>2. 0..(c - 1) \subseteq N
            BY <2>5, <2>6, <3>1, UpTo
        <3>. QED
            BY <3>1, <3>2
    <2>8. e[1] = x
        <3>1. c - (c - 1) = 1 /\ c - 1 < c
            BY <2>3
        <3>2. e[calls[1]] = x
            BY <2>7, <3>1
        <3>. QED
            BY <1>3, <3>2 DEF DInv, OneRoot
    <2>. QED
        BY <1>1, <2>1, <2>8 DEF Accepts
<1>. QED
    BY <1>2, <1>3

\* The token behind = has been read, and is no identifier.
LEMMA TargetPanics ==
    ASSUME DInv, NEW e, e = EndOf(tokens), PlacedBy(e), ArgumentPanics
    PROVE  ~Accepts(tokens)
<1>. USE DEF PlacedBy
<1>1. Shape
    BY DEF DInv
<1>2. /\ Len(tokens) \in Nat /\ read \in 0..Len(tokens) /\ returned \in 0..read
      /\ Len(calls) \in Nat /\ \A k \in 1..Len(calls) : calls[k] \in 1..read
    BY <1>1, ShapeFacts
<1>3. calls # <<>> /\ returned # 0 /\ BadTarget
    BY DEF ArgumentPanics
<1>4. Len(calls) \in 1..Len(calls)
    <2>1. Len(calls) # 0
        BY <1>1, <1>3, EmptySeq DEF Shape
    <2>. QED
        BY <1>2, <2>1
<1>5. PICK n \in 1..read : n = calls[Len(calls)] /\ n = Last(calls)
    BY <1>2, <1>4 DEF Last
<1>6. /\ nodes[n].kind = "ASSIGN" /\ nodes[n].kids = <<>>
      /\ nodes[returned].kind # "IDENTIFIER"
    BY <1>3, <1>5 DEF BadTarget
<1>7. returned = n + 1
    <2>1. Len(nodes[n].kids) + 1 = 1
        BY <1>6
    <2>2. Due(e, n) = n + 1
        BY <2>1, NthStep DEF Due
    <2>. QED
        BY <1>3, <1>5, <2>2 DEF CallsPlaced
<1>8. returned \in 1..read
    BY <1>2, <1>3
<1>9. tokens[n].kind = "ASSIGN" /\ tokens[n + 1].kind # "IDENTIFIER"
    BY <1>6, <1>7, <1>8 DEF Copied
<1>10. n \in DOMAIN tokens
    <2>1. DOMAIN tokens = 1..Len(tokens)
        BY <1>1, LenProperties DEF Shape
    <2>. QED
        BY <1>2, <2>1
<1>. QED
    BY <1>9, <1>10 DEF Accepts

LEMMA StepPlaces ==
    ASSUME PInv, [Next]_vars
    PROVE  PInv'
<1>. USE DEF PInv
<1>1. DInv'
    BY StepKeeps
<1>2. PICK e : e = EndOf(tokens)
    OBVIOUS
<1>3. tokens' = tokens /\ EndOf(tokens') = e
    <2>1. tokens' = tokens
        BY DEF Next, Expression, ExpressionAtEnd, Argument, ArgumentPanics,
               Finish, Rest, vars
    <2>. QED
        BY <1>2, <2>1
<1>4. PlacedBy(e)
    BY <1>2
<1>5. CASE Expression
    <2>1. PlacedBy(e)'
        BY <1>2, <1>4, <1>5, ExpressionPlaces
    <2>2. Outcome'
        BY <1>5 DEF Expression, Outcome
    <2>. QED
        BY <1>1, <1>3, <2>1, <2>2
<1>6. CASE Argument
    <2>1. PlacedBy(e)'
        BY <1>2, <1>4, <1>6, ArgumentPlaces
    <2>2. Outcome'
        BY <1>6 DEF Argument, Outcome
    <2>. QED
        BY <1>1, <1>3, <2>1, <2>2
<1>7. CASE UNCHANGED <<tokens, read, nodes, calls, returned>>
    <2>1. PlacedBy(e)'
        BY <1>4, <1>7 DEF PlacedBy, Copied, KidsPlaced, CallsPlaced, EndPlaced, Due
    <2>2. CASE ExpressionAtEnd
        <3>1. ~Accepts(tokens) /\ status' = "panic"
            BY <1>2, <1>4, <2>2, EndsEarly DEF ExpressionAtEnd
        <3>. QED
            BY <1>1, <1>3, <1>7, <2>1, <3>1 DEF Outcome
    <2>3. CASE ArgumentPanics
        <3>1. ~Accepts(tokens) /\ status' = "panic"
            BY <1>2, <1>4, <2>3, TargetPanics DEF ArgumentPanics
        <3>. QED
            BY <1>1, <1>3, <1>7, <2>1, <3>1 DEF Outcome
    <2>4. CASE Finish
        <3>1. returned = 1 /\ e[1] = read + 1
            <4>1. returned # 0 /\ calls = <<>>
                BY <2>4 DEF Finish
            <4>2. returned = 1
                BY <4>1 DEF DInv, OneRoot
            <4>. QED
                BY <1>4, <4>1, <4>2 DEF PlacedBy, EndPlaced
        <3>2. read \in Nat /\ Len(tokens) \in Nat
            BY ShapeFacts DEF DInv
        <3>3. read # Len(tokens) => ~Accepts(tokens)
            BY <1>2, <3>1, <3>2 DEF Accepts
        <3>4. status' = IF read = Len(tokens) THEN "done" ELSE "panic"
            BY <2>4 DEF Finish
        <3>. QED
            BY <1>1, <1>3, <1>7, <2>1, <3>3, <3>4 DEF Outcome
    <2>5. CASE status' = status
        BY <1>1, <1>3, <1>7, <2>1, <2>5 DEF Outcome
    <2>. QED
        BY <2>2, <2>3, <2>4, <2>5
           DEF Next, Expression, Argument, Rest, vars
<1>. QED
    BY <1>5, <1>6, <1>7
       DEF Next, ExpressionAtEnd, ArgumentPanics, Finish, Rest, vars

\* The tree is whole, and each of its places is the one that Tree gives it.
LEMMA PInvParses ==
    ASSUME PInv
    PROVE  ParsesAsTree
<1>. SUFFICES ASSUME status = "done"
              PROVE  Accepts(tokens) /\ nodes = Tree(tokens)
    BY DEF ParsesAsTree, PInv, Outcome
<1>. USE DEF PInv
<1>1. PICK e : e = EndOf(tokens)
    OBVIOUS
<1>2. PlacedBy(e) /\ Shape
    BY <1>1 DEF DInv
<1>3. /\ Len(tokens) \in Nat /\ read = Len(tokens) /\ tokens \in Seq(TokenType)
      /\ DOMAIN tokens = 1..read
      /\ DOMAIN nodes = 1..read /\ nodes \in Seq(NodeType) /\ calls = <<>>
      /\ returned = 1 /\ returned \in 1..read
    BY <1>2, ShapeFacts, LenProperties DEF DInv, Shape, OneRoot, Outcome
<1>4. ASSUME NEW n \in 1..read
      PROVE  /\ nodes[n].kids = Kids(e, n, Arity(tokens[n].kind))
             /\ nodes[n] = [kind |-> tokens[n].kind, lit |-> tokens[n].lit,
                            name |-> tokens[n].name, kids |-> nodes[n].kids]
    <2>1. /\ nodes[n] \in NodeType /\ nodes[n].kind = tokens[n].kind
          /\ nodes[n].lit = tokens[n].lit /\ nodes[n].name = tokens[n].name
        BY <1>2, <1>3, ShapeFacts DEF PlacedBy, Copied
    <2>2. PICK a \in 0..4 : a = Arity(tokens[n].kind)
        BY <2>1, ArityBounds DEF NodeType
    <2>3. nodes[n].kids \in Seq(Nat) /\ Len(nodes[n].kids) = a
        <3>1. Len(nodes[n].kids) \in 0..a
            BY <1>2, <2>1, <2>2, ShapeFacts
        <3>2. ~(Len(nodes[n].kids) < a)
            BY <1>3, <2>1, <2>2 DEF DInv, OnlyOpenCallsWait
        <3>. QED
            BY <2>1, <3>1, <3>2 DEF NodeType
    <2>4. nodes[n].kids = [k \in 1..a |-> Nth(e, n, k)]
        <3>1. nodes[n].kids = [k \in 1..a |-> nodes[n].kids[k]]
            BY <2>3, LenProperties
        <3>2. \A k \in 1..a : nodes[n].kids[k] = Nth(e, n, k)
            BY <1>2, <2>3 DEF PlacedBy, KidsPlaced
        <3>. QED
            BY <3>1, <3>2
    <2>5. nodes[n].kids = Kids(e, n, Arity(tokens[n].kind))
        <3>1. Kids(e, n, a) = [k \in 1..a |-> Nth(e, n, k)]
            BY KidsNth
        <3>. QED
            BY <2>2, <2>4, <3>1
    <2>6. nodes[n] = [kind |-> nodes[n].kind, lit |-> nodes[n].lit,
                      name |-> nodes[n].name, kids |-> nodes[n].kids]
        BY <2>1 DEF NodeType
    <2>. QED
        BY <2>1, <2>5, <2>6
<1>5. nodes = Tree(tokens)
    <2>1. nodes = [n \in 1..read |-> nodes[n]]
        BY <1>3
    <2>2. Tree(tokens) =
             [n \in 1..read |->
                [kind |-> tokens[n].kind, lit |-> tokens[n].lit,
                 name |-> tokens[n].name,
                 kids |-> Kids(e, n, Arity(tokens[n].kind))]]
        BY <1>1, <1>3 DEF Tree
    <2>. QED
        BY <1>4, <2>1, <2>2
<1>6. tokens # <<>> /\ e[1] = Len(tokens) + 1
    <2>1. Len(tokens) # 0
        BY <1>3
    <2>. QED
        BY <1>2, <1>3, <2>1 DEF PlacedBy, EndPlaced
<1>7. ASSUME NEW n \in 1..read, tokens[n].kind = "ASSIGN"
      PROVE  tokens[n + 1].kind = "IDENTIFIER"
    <2>1. /\ nodes[n].kids[1] = n + 1 /\ nodes[n].kids # <<>>
          /\ nodes[n].kids[1] \in 1..read
        <3>1. Arity(tokens[n].kind) = 2
            BY <1>7, Arities DEF BinaryKinds
        <3>2. nodes[n].kids = [k \in 1..2 |-> Nth(e, n, k)]
            <4>1. Kids(e, n, 2) = [k \in 1..2 |-> Nth(e, n, k)]
                BY KidsNth
            <4>. QED
                BY <1>4, <3>1, <4>1
        <3>3. nodes[n].kids[1] = n + 1
            BY <3>2, NthStep
        <3>4. nodes[n].kids \in Seq((n + 1)..read)
            BY <1>2, ShapeFacts
        <3>5. Len(nodes[n].kids) = 2 /\ nodes[n].kids # <<>>
            <4>1. DOMAIN nodes[n].kids = 1..2
                BY <3>2
            <4>2. DOMAIN nodes[n].kids = 1..Len(nodes[n].kids) /\ Len(nodes[n].kids) \in Nat
                BY <3>4, LenProperties
            <4>3. \A l \in Nat : 1..l = 1..2 => l = 2
                OBVIOUS
            <4>4. Len(nodes[n].kids) = 2
                BY <4>1, <4>2, <4>3
            <4>. QED
                BY <4>4, EmptySeq
        <3>6. nodes[n].kids[1] \in (n + 1)..read
            <4>1. 1 \in 1..Len(nodes[n].kids)
                BY <3>5
            <4>. QED
                BY <3>4, <4>1, ElementOfSeq
        <3>. QED
            BY <1>3, <3>3, <3>5, <3>6
    <2>2. nodes[n].kind = "ASSIGN"
        BY <1>2, <1>7 DEF PlacedBy, Copied
    <2>3. nodes[n + 1].kind = "IDENTIFIER"
        BY <1>3, <2>1, <2>2 DEF DInv, TargetsNamed
    <2>. QED
        BY <1>2, <2>1, <2>3 DEF PlacedBy, Copied
<1>8. Accepts(tokens)
    BY <1>1, <1>3, <1>6, <1>7 DEF Accepts
<1>. QED
    BY <1>5, <1>8

\* For every input: what parse() accepts is one whole expression with an
\* identifier behind every =, the tree is the one that the prefix notation
\* determines, and what it refuses is no such expression.
THEOREM ParsesAsTreeAlways == Spec => []ParsesAsTree
<1>1. PInv /\ [Next]_vars => PInv'
    BY StepPlaces
<1>2. PInv => ParsesAsTree
    BY PInvParses
<1>. QED
    BY InitPInv, <1>1, <1>2, PTL DEF Spec
=============================================================================
