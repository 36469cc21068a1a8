---------------------------- MODULE IRGenProofs ----------------------------
(***************************************************************************)
(* Proofs about the generator, for every tree, vocabulary and argument     *)
(* list: TypeOK, UniqueIds and Pending are invariants of Spec.             *)
(*                                                                         *)
(* The inductive invariant IInv says the three at once, in the form the    *)
(* steps need: the worklist, the walks and the blocks are sequences over   *)
(* sets of things that are ready, sets that only grow while the code grows *)
(* (Kept), so that what was ready before a step is ready after it.         *)
(***************************************************************************)
EXTENDS IRGen, SharedLemmas, FiniteSetTheorems, SequenceTheorems

ReadyInstructions(bs) == {ins \in Instruction(bs) : Shaped(ins)}

ReadyItems ==
    {item \in [node : Nodes, block : Blocks, state : 0..2] : ItemReady(item)}

ReadyFrames ==
    {frame \in [do : Walks \cup {"link", "rewrite"}, node : Nodes, block : Blocks,
                jump : Blocks \cup {NoBlock}, at : Nat, value : Int] :
        FrameReady(frame)}

CodeInv ==
    /\ NextBlock \in Nat
    /\ Blocks = 0..(NextBlock - 1)
    /\ code \in [Blocks -> Seq(ReadyInstructions(Blocks))]
    /\ nextValue \in Nat
    /\ UniqueIds

TreeInv == WellFormedTree(ast, Literals, Names)

IInv ==
    /\ TreeInv
    /\ CodeInv
    /\ FlowOK
    /\ TablesOK
    /\ worklist \in Seq(ReadyItems)
    /\ walk \in Seq(ReadyFrames)

\* The code only grows: an instruction stays where it is and what it does.
Kept ==
    /\ Blocks \subseteq Blocks'
    /\ \A b \in Blocks : \A i \in DOMAIN code[b] :
          i \in DOMAIN code'[b] /\ code'[b][i].op = code[b][i].op

-----------------------------------------------------------------------------
(* Sequences and the code. *)

\* A block is a sequence: its positions are 1 to its length.
LEMMA BlockIsSeq ==
    ASSUME CodeInv, NEW b \in Blocks
    PROVE  /\ code[b] \in Seq(ReadyInstructions(Blocks))
           /\ Len(code[b]) \in Nat
           /\ DOMAIN code[b] = 1..Len(code[b])
           /\ \A i \in DOMAIN code[b] : code[b][i] \in ReadyInstructions(Blocks)
<1>1. code[b] \in Seq(ReadyInstructions(Blocks))
    BY DEF CodeInv
<1>. QED
    BY <1>1, LenProperties, ElementOfSeq

\* More blocks, more instructions.
LEMMA InstructionsGrow ==
    ASSUME NEW bs, NEW cs, bs \subseteq cs
    PROVE  ReadyInstructions(bs) \subseteq ReadyInstructions(cs)
<1>. SUFFICES ASSUME NEW ins \in ReadyInstructions(bs)
              PROVE  ins \in ReadyInstructions(cs)
    OBVIOUS
<1>1. ins \in Instruction(bs) /\ Shaped(ins)
    BY DEF ReadyInstructions
<1>2. ins.blks \in Seq(cs)
    <2>1. ins.blks \in Seq(bs)
        BY <1>1 DEF Instruction
    <2>. QED
        BY <2>1, SeqMonotonic
<1>3. ins \in Instruction(cs)
    BY <1>1, <1>2 DEF Instruction
<1>. QED
    BY <1>1, <1>3 DEF ReadyInstructions

\* Growing by no block changes nothing.
LEMMA GrownByNone ==
    ASSUME NEW f, NEW S, NextBlock \in Nat, Blocks = 0..(NextBlock - 1),
           f \in [Blocks -> S]
    PROVE  Grown(f, 0) = f
BY DEF Grown

\* The ids of the code c are below n, and each is there once.
Numbered(c, n) ==
    \A x, y \in DOMAIN c : \A i \in DOMAIN c[x], j \in DOMAIN c[y] :
        /\ c[x][i].id \in Nat /\ c[x][i].id < n
        /\ c[x][i].id = c[y][j].id => x = y /\ i = j

\* In d, m instructions with the ids from n on follow the first l of block b;
\* the others have the ids that they have in c.
Continued(c, d, n, m, b, l) ==
    \A x \in DOMAIN d : \A i \in DOMAIN d[x] :
        \/ /\ x \in DOMAIN c /\ i \in DOMAIN c[x]
           /\ d[x][i].id = c[x][i].id
        \/ /\ x = b /\ i \in (l + 1)..(l + m)
           /\ d[x][i].id = n + ((i - l) - 1)

\* Ids that are counted on are new.
LEMMA FreshIds ==
    ASSUME NEW c, NEW d, NEW n \in Nat, NEW m \in Nat, NEW b, NEW l \in Nat,
           Numbered(c, n), Continued(c, d, n, m, b, l)
    PROVE  Numbered(d, n + m)
<1>. USE DEF Numbered, Continued
<1>. SUFFICES ASSUME NEW x \in DOMAIN d, NEW y \in DOMAIN d,
                     NEW i \in DOMAIN d[x], NEW j \in DOMAIN d[y]
              PROVE  /\ d[x][i].id \in Nat /\ d[x][i].id < n + m
                     /\ d[x][i].id = d[y][j].id => x = y /\ i = j
    OBVIOUS
<1>. DEFINE Old(z, k) == /\ z \in DOMAIN c /\ k \in DOMAIN c[z]
                         /\ d[z][k].id = c[z][k].id
            New(z, k) == /\ z = b /\ k \in (l + 1)..(l + m)
                         /\ d[z][k].id = n + ((k - l) - 1)
<1>1. CASE Old(x, i) /\ Old(y, j)
    BY <1>1
<1>2. CASE New(x, i) /\ New(y, j)
    BY <1>2
<1>3. CASE Old(x, i) /\ New(y, j)
    BY <1>3
<1>4. CASE New(x, i) /\ Old(y, j)
    BY <1>4
<1>. QED
    BY <1>1, <1>2, <1>3, <1>4

\* The effect of emitting a sequence of instructions into one block, after
\* the creation of k blocks.
LEMMA Appended ==
    ASSUME CodeInv, NEW k \in Nat, NEW b \in 0..(NextBlock + k - 1),
           NEW s \in Seq(ReadyInstructions(0..(NextBlock + k - 1))),
           code' = [Grown(code, k) EXCEPT ![b] = @ \o s],
           nextValue' = nextValue + Len(s),
           \A i \in 1..Len(s) : s[i].id = nextValue + (i - 1)
    PROVE  /\ CodeInv'
           /\ NextBlock' = NextBlock + k
           /\ Kept
           /\ \A i \in 1..Len(s) :
                 /\ Len(Grown(code, k)[b]) + i \in DOMAIN code'[b]
                 /\ code'[b][Len(Grown(code, k)[b]) + i] = s[i]
<1>. DEFINE bs == 0..(NextBlock + k - 1)
            old(c) == Grown(code, k)[c]
<1>1. /\ NextBlock \in Nat
      /\ Blocks = 0..(NextBlock - 1)
      /\ nextValue \in Nat
    BY DEF CodeInv
<1>2. Blocks \subseteq bs
    BY <1>1
<1>3. code \in [Blocks -> Seq(ReadyInstructions(bs))]
    <2>1. \A c \in Blocks : code[c] \in Seq(ReadyInstructions(bs))
        <3>. SUFFICES ASSUME NEW c \in Blocks
                      PROVE  code[c] \in Seq(ReadyInstructions(bs))
            OBVIOUS
        <3>1. code[c] \in Seq(ReadyInstructions(Blocks))
            BY BlockIsSeq
        <3>2. ReadyInstructions(Blocks) \subseteq ReadyInstructions(bs)
            BY <1>2, InstructionsGrow
        <3>. QED
            BY <3>1, <3>2, SeqMonotonic
    <2>. QED
        BY <2>1 DEF CodeInv
<1>4. /\ Grown(code, k) \in [bs -> Seq(ReadyInstructions(bs))]
      /\ \A c \in Blocks : old(c) = code[c]
      /\ \A c \in bs : c \notin Blocks => old(c) = <<>>
    <2>1. <<>> \in Seq(ReadyInstructions(bs))
        BY EmptySeq
    <2>. QED
        BY <1>1, <1>2, <1>3, <2>1 DEF Grown
<1>5. old(b) \in Seq(ReadyInstructions(bs))
    BY <1>4
<1>6. /\ old(b) \o s \in Seq(ReadyInstructions(bs))
      /\ Len(old(b) \o s) = Len(old(b)) + Len(s)
      /\ \A i \in 1..(Len(old(b)) + Len(s)) : (old(b) \o s)[i] =
            IF i <= Len(old(b)) THEN old(b)[i] ELSE s[i - Len(old(b))]
    BY <1>5, ConcatProperties
<1>7. code' \in [bs -> Seq(ReadyInstructions(bs))]
    BY <1>4, <1>6
<1>8. DOMAIN code' = bs
    BY <1>7
<1>9. Cardinality(bs) = NextBlock + k
    <2>1. 0 \in Int /\ NextBlock + k - 1 \in Int
        BY <1>1
    <2>2. Cardinality(bs) = IF 0 > NextBlock + k - 1 THEN 0
                            ELSE (NextBlock + k - 1) - 0 + 1
        BY <2>1, FS_Interval
    <2>. QED
        BY <1>1, <2>2
<1>10. /\ Blocks' = bs
       /\ NextBlock' = NextBlock + k
    BY <1>8, <1>9 DEF NextBlock, Blocks
<1>11. Len(old(b)) \in Nat /\ Len(s) \in Nat /\ Len(code'[b]) = Len(old(b)) + Len(s)
    BY <1>4, <1>5, <1>6, LenProperties
<1>12. \A c \in bs : c # b => code'[c] = old(c)
    BY <1>4
<1>13. code'[b] = old(b) \o s
    BY <1>4
<1>14. \A c \in bs : /\ DOMAIN code'[c] = 1..Len(code'[c])
                     /\ DOMAIN old(c) = 1..Len(old(c))
                     /\ Len(old(c)) \in Nat
    BY <1>4, <1>7, LenProperties
\* An instruction of the new code is an old one or one of s.
<1>15. \A c \in bs : \A i \in DOMAIN code'[c] :
          \/ c \in Blocks /\ i \in DOMAIN code[c] /\ code'[c][i] = code[c][i]
          \/ /\ c = b /\ i \in (Len(old(b)) + 1)..(Len(old(b)) + Len(s))
             /\ code'[c][i] = s[i - Len(old(b))]
    <2>. SUFFICES ASSUME NEW c \in bs, NEW i \in DOMAIN code'[c]
                  PROVE  \/ c \in Blocks /\ i \in DOMAIN code[c] /\ code'[c][i] = code[c][i]
                         \/ /\ c = b /\ i \in (Len(old(b)) + 1)..(Len(old(b)) + Len(s))
                            /\ code'[c][i] = s[i - Len(old(b))]
        OBVIOUS
    <2>1. CASE c # b
        <3>1. i \in DOMAIN old(c) /\ code'[c][i] = old(c)[i]
            BY <1>12, <2>1
        <3>2. c \in Blocks
            BY <1>4, <1>14, <3>1, EmptySeq
        <3>. QED
            BY <1>4, <3>1, <3>2
    <2>2. CASE c = b /\ i <= Len(old(b))
        <3>1. i \in 1..Len(old(b))
            BY <1>11, <1>14, <2>2
        <3>2. i \in DOMAIN old(b) /\ code'[c][i] = old(b)[i]
            BY <1>6, <1>11, <1>13, <1>14, <2>2, <3>1
        <3>3. b \in Blocks
            BY <1>4, <1>14, <3>1, EmptySeq
        <3>. QED
            BY <1>4, <2>2, <3>2, <3>3
    <2>3. CASE c = b /\ ~(i <= Len(old(b)))
        BY <1>6, <1>11, <1>13, <1>14, <2>3
    <2>. QED
        BY <2>1, <2>2, <2>3
<1>16. UniqueIds'
    <2>1. Numbered(code, nextValue)
        <3>1. \A c \in Blocks : \A i \in DOMAIN code[c] :
                 code[c][i] \in Instruction(Blocks)
            BY BlockIsSeq DEF ReadyInstructions
        <3>2. \A c \in Blocks : \A i \in DOMAIN code[c] : code[c][i].id \in Nat
            BY <3>1 DEF Instruction
        <3>3. UniqueIds
            BY DEF CodeInv
        <3>. QED
            BY <3>2, <3>3, SMTT(30) DEF Blocks, UniqueIds, Numbered
    <2>2. ASSUME NEW c \in DOMAIN code', NEW i \in DOMAIN code'[c]
          PROVE  \/ /\ c \in DOMAIN code /\ i \in DOMAIN code[c]
                    /\ code'[c][i].id = code[c][i].id
                 \/ /\ c = b /\ i \in (Len(old(b)) + 1)..(Len(old(b)) + Len(s))
                    /\ code'[c][i].id = nextValue + ((i - Len(old(b))) - 1)
        <3>1. CASE c \in Blocks /\ i \in DOMAIN code[c] /\ code'[c][i] = code[c][i]
            BY <3>1 DEF Blocks
        <3>2. CASE /\ c = b /\ i \in (Len(old(b)) + 1)..(Len(old(b)) + Len(s))
                   /\ code'[c][i] = s[i - Len(old(b))]
            <4>1. i - Len(old(b)) \in 1..Len(s)
                BY <1>11, <3>2
            <4>2. s[i - Len(old(b))].id = nextValue + ((i - Len(old(b))) - 1)
                BY <4>1
            <4>. QED
                BY <3>2, <4>2
        <3>. QED
            BY <1>8, <1>15, <3>1, <3>2
    <2>3. Continued(code, code', nextValue, Len(s), b, Len(old(b)))
        BY <2>2 DEF Continued
    <2>4. Numbered(code', nextValue + Len(s))
        BY <1>1, <1>11, <2>1, <2>3, FreshIds
    <2>. QED
        BY <2>4, SMTT(30) DEF Numbered, UniqueIds, Blocks
<1>17. Kept
    <2>1. \A c \in Blocks : \A i \in DOMAIN code[c] :
             i \in DOMAIN code'[c] /\ code'[c][i] = code[c][i]
        <3>. SUFFICES ASSUME NEW c \in Blocks, NEW i \in DOMAIN code[c]
                      PROVE  i \in DOMAIN code'[c] /\ code'[c][i] = code[c][i]
            OBVIOUS
        <3>1. CASE c # b
            BY <1>2, <1>4, <1>12, <3>1
        <3>2. CASE c = b
            BY <1>2, <1>4, <1>6, <1>11, <1>13, <1>14, <3>2
        <3>. QED
            BY <3>1, <3>2
    <2>. QED
        BY <1>2, <1>10, <2>1 DEF Kept
<1>18. \A i \in 1..Len(s) : /\ Len(old(b)) + i \in DOMAIN code'[b]
                            /\ code'[b][Len(old(b)) + i] = s[i]
    BY <1>6, <1>11, <1>13, <1>14
<1>19. CodeInv'
    <2>1. NextBlock' \in Nat /\ nextValue' \in Nat
        BY <1>10, <1>1, <1>11 DEF CodeInv
    <2>2. Blocks' = 0..(NextBlock' - 1)
        BY <1>1, <1>10
    <2>. QED
        BY <1>7, <1>10, <1>16, <2>1, <2>2 DEF CodeInv
<1>. QED
    BY <1>10, <1>17, <1>18, <1>19

\* One instruction emitted, as ir_emit does it.
LEMMA Emitted ==
    ASSUME CodeInv, NEW k \in Nat, NEW b \in 0..(NextBlock + k - 1),
           NEW ins \in ReadyInstructions(0..(NextBlock + k - 1)),
           ins.id = nextValue, Emit(Grown(code, k), b, ins)
    PROVE  /\ CodeInv'
           /\ NextBlock' = NextBlock + k
           /\ Kept
           /\ Len(Grown(code, k)[b]) + 1 \in DOMAIN code'[b]
           /\ code'[b][Len(Grown(code, k)[b]) + 1] = ins
<1>. DEFINE bs == 0..(NextBlock + k - 1)
            s == <<ins>>
<1>1. s \in Seq(ReadyInstructions(bs)) /\ Len(s) = 1 /\ s[1] = ins
    OBVIOUS
<1>2. NextBlock \in Nat /\ Blocks = 0..(NextBlock - 1) /\ nextValue \in Nat
    BY DEF CodeInv
<1>3. Grown(code, k)[b] \in Seq(ReadyInstructions(bs))
    <2>1. CASE b \in Blocks
        <3>1. code[b] \in Seq(ReadyInstructions(Blocks))
            BY <2>1, BlockIsSeq
        <3>2. ReadyInstructions(Blocks) \subseteq ReadyInstructions(bs)
            BY <1>2, InstructionsGrow
        <3>3. code[b] \in Seq(ReadyInstructions(bs))
            BY <3>1, <3>2, SeqMonotonic
        <3>. QED
            BY <2>1, <3>3 DEF Grown
    <2>2. CASE b \notin Blocks
        BY <2>2, EmptySeq DEF Grown
    <2>. QED
        BY <2>1, <2>2
<1>4. Append(Grown(code, k)[b], ins) = Grown(code, k)[b] \o s
    BY <1>3, AppendIsConcat
<1>5. code' = [Grown(code, k) EXCEPT ![b] = @ \o s]
    BY <1>4 DEF Emit
<1>6. nextValue' = nextValue + Len(s)
    BY <1>1 DEF Emit
<1>7. \A i \in 1..Len(s) : s[i].id = nextValue + (i - 1)
    BY <1>1, <1>2
<1>8. /\ CodeInv'
      /\ NextBlock' = NextBlock + k
      /\ Kept
      /\ \A i \in 1..Len(s) :
            /\ Len(Grown(code, k)[b]) + i \in DOMAIN code'[b]
            /\ code'[b][Len(Grown(code, k)[b]) + i] = s[i]
    BY <1>1, <1>5, <1>6, <1>7, Appended
<1>. QED
    BY <1>1, <1>8

\* The same without a new block.
LEMMA EmittedHere ==
    ASSUME CodeInv, NEW b \in Blocks,
           NEW ins \in ReadyInstructions(Blocks),
           ins.id = nextValue, Emit(code, b, ins)
    PROVE  /\ CodeInv'
           /\ Blocks' = Blocks
           /\ Kept
           /\ Len(code[b]) + 1 \in DOMAIN code'[b]
           /\ code'[b][Len(code[b]) + 1] = ins
<1>1. NextBlock \in Nat /\ Blocks = 0..(NextBlock - 1)
    BY DEF CodeInv
<1>2. Grown(code, 0) = code
    BY <1>1, GrownByNone DEF CodeInv
<1>3. NextBlock + 0 - 1 = NextBlock - 1
    BY <1>1
<1>4. /\ b \in 0..(NextBlock + 0 - 1)
      /\ ins \in ReadyInstructions(0..(NextBlock + 0 - 1))
      /\ Emit(Grown(code, 0), b, ins)
    BY <1>1, <1>2, <1>3
<1>5. /\ CodeInv'
      /\ NextBlock' = NextBlock + 0
      /\ Kept
      /\ Len(Grown(code, 0)[b]) + 1 \in DOMAIN code'[b]
      /\ code'[b][Len(Grown(code, 0)[b]) + 1] = ins
    BY <1>4, Emitted
<1>6. Blocks' = 0..(NextBlock' - 1)
    BY <1>5 DEF CodeInv
<1>. QED
    BY <1>1, <1>2, <1>5, <1>6

-----------------------------------------------------------------------------
(* What was ready stays ready. *)

\* A held instruction may only be replaced by one of the kind the node needs.
LEMMA ItemsStay ==
    ASSUME TreeInv, Kept, ast' = ast,
           \A n \in Nodes :
              /\ nodeBlock'[n] = nodeBlock[n] \/ nodeBlock'[n] # NoBlock
              /\ top'[n] = top[n] \/ top'[n] # NoBlock
              /\ \/ held'[n] = held[n]
                 \/ ast[n].kind = "BLOCK" /\ Holds(n, {"BLOCK"})'
                 \/ ast[n].kind # "BLOCK" /\ Holds(n, {"BRANCH"})'
    PROVE  ReadyItems \subseteq ReadyItems'
<1>. SUFFICES ASSUME NEW item \in ReadyItems
              PROVE  item \in ReadyItems'
    OBVIOUS
<1>1. item \in [node : Nodes, block : Blocks, state : 0..2] /\ ItemReady(item)
    BY DEF ReadyItems
<1>2. item \in [node : Nodes, block : Blocks, state : 0..2]'
    BY <1>1 DEF Kept, Nodes
<1>3. \A n \in Nodes : \A ops : Holds(n, ops) /\ held'[n] = held[n] => Holds(n, ops)'
    BY DEF Holds, HeldInstr, Kept
<1>4. item.node \in Nodes /\ item.state \in 0..2
    BY <1>1
<1>5. ItemReady(item)'
    <2>1. item.state = 1 /\ ast[item.node].kind = "BLOCK" =>
             Holds(item.node, {"BLOCK"})'
        BY <1>1, <1>3, <1>4 DEF ItemReady
    <2>2. item.state # 0 /\ ast[item.node].kind = "WHILE" =>
             nodeBlock'[item.node] # NoBlock /\ top'[item.node] # NoBlock
        BY <1>1, <1>4 DEF ItemReady
    <2>3. item.state = 2 => /\ ast[item.node].kind \in {"AND", "OR", "IF", "WHILE"}
                            /\ Holds(item.node, {"BRANCH"})'
        BY <1>1, <1>3, <1>4 DEF ItemReady
    <2>. QED
        BY <2>1, <2>2, <2>3 DEF ItemReady
<1>. QED
    BY <1>2, <1>5 DEF ReadyItems

LEMMA FramesStay ==
    ASSUME Kept, NoBlock \notin Blocks, UNCHANGED <<ast, held>>
    PROVE  ReadyFrames \subseteq ReadyFrames'
<1>. SUFFICES ASSUME NEW frame \in ReadyFrames
              PROVE  frame \in ReadyFrames'
    OBVIOUS
<1>1. /\ frame \in [do : Walks \cup {"link", "rewrite"}, node : Nodes, block : Blocks,
                    jump : Blocks \cup {NoBlock}, at : Nat, value : Int]
      /\ FrameReady(frame)
    BY DEF ReadyFrames
<1>2. frame \in [do : Walks \cup {"link", "rewrite"}, node : Nodes', block : Blocks',
                jump : Blocks' \cup {NoBlock}, at : Nat, value : Int]
    BY <1>1 DEF Kept, Nodes
<1>3. FrameReady(frame)'
    <2>1. frame.do # "return" => frame.jump # NoBlock /\ frame.jump \in Blocks
        BY <1>1 DEF FrameReady
    <2>2. frame.do = "phi" \/ frame.at # 0 =>
             /\ frame.jump \in Blocks /\ frame.jump # NoBlock
             /\ frame.at \in DOMAIN code[frame.jump]
             /\ code[frame.jump][frame.at].op = "PHI"
        BY <1>1 DEF FrameReady
    <2>3. frame.do = "phi" \/ frame.at # 0 =>
             /\ frame.at \in DOMAIN code'[frame.jump]
             /\ code'[frame.jump][frame.at].op = "PHI"
        BY <2>2 DEF Kept
    <2>4. frame.do # "return" => Holds(frame.node, {"BRANCH"})'
        <3>1. Holds(frame.node, {"BRANCH"}) => Holds(frame.node, {"BRANCH"})'
            BY DEF Holds, HeldInstr, Kept
        <3>. QED
            BY <1>1, <3>1 DEF FrameReady
    <2>. QED
        BY <2>1, <2>2, <2>3, <2>4 DEF FrameReady
<1>. QED
    BY <1>2, <1>3 DEF ReadyFrames

-----------------------------------------------------------------------------
(* What a step does not touch stays as it was. *)

\* -1 is no block.
LEMMA NoBlockIsNone ==
    ASSUME CodeInv
    PROVE  NoBlock \notin Blocks
BY DEF CodeInv, NoBlock

LEMMA CodeSame ==
    ASSUME CodeInv, UNCHANGED <<code, nextValue>>
    PROVE  CodeInv' /\ Blocks' = Blocks /\ NextBlock' = NextBlock /\ Kept
<1>1. Blocks' = Blocks /\ NextBlock' = NextBlock
    BY DEF Blocks, NextBlock
<1>2. UniqueIds'
    BY <1>1 DEF CodeInv, UniqueIds
<1>. QED
    BY <1>1, <1>2 DEF CodeInv, Kept

\* An empty walk is a walk of ready frames.
LEMMA WalkSame ==
    ASSUME walk = <<>>, UNCHANGED walk
    PROVE  walk' \in Seq(ReadyFrames')
BY EmptySeq

\* The worklist below its top.
LEMMA TopAndRest ==
    ASSUME IInv, worklist # <<>>
    PROVE  /\ Top \in ReadyItems
           /\ Top.node \in Nodes /\ Top.block \in Blocks /\ ItemReady(Top)
           /\ Rest \in Seq(ReadyItems)
<1>1. worklist \in Seq(ReadyItems)
    BY DEF IInv
<1>2. Len(worklist) \in Nat \ {0}
    BY <1>1, EmptySeq
<1>3. Top \in ReadyItems
    BY <1>1, <1>2, ElementOfSeq DEF Top
<1>4. \A i \in 1..(Len(worklist) - 1) : worklist[i] \in ReadyItems
    BY <1>1, <1>2, ElementOfSeq
<1>5. Rest \in Seq(ReadyItems)
    <2>1. 1 \in Int /\ Len(worklist) - 1 \in Int
        BY <1>2
    <2>. QED
        BY <1>4, <2>1, SubSeqProperties DEF Rest
<1>. QED
    BY <1>3, <1>5 DEF ReadyItems

\* The children of a node, and their results.
LEMMA KidsAreNodes ==
    ASSUME TreeInv, NEW n \in Nodes
    PROVE  /\ ast[n].kind \in Kinds /\ ast[n].lit \in Literals /\ ast[n].name \in Names
           /\ ast[n].kids \in [1..Arity(ast[n].kind) -> Nodes]
           /\ \A k \in 1..Arity(ast[n].kind) : Kid(n, k) \in Nodes
<1>1. /\ ast[n].kind \in Kinds /\ ast[n].lit \in Literals /\ ast[n].name \in Names
      /\ ast[n].kids \in [1..Arity(ast[n].kind) -> Nodes]
    BY DEF TreeInv, WellFormedTree, Nodes
<1>. QED
    BY <1>1 DEF Kid

LEMMA KidResultsAreInts ==
    ASSUME TreeInv, TablesOK, NEW n \in Nodes, ast[n].kind \in Kinds
    PROVE  /\ \A k \in 1..Arity(ast[n].kind) : KidResult(n, k) \in Int
           /\ KidResults(n) \in Seq(Int)
<1>1. /\ ast[n].kids \in [1..Arity(ast[n].kind) -> Nodes]
      /\ \A k \in 1..Arity(ast[n].kind) : Kid(n, k) \in Nodes
    BY KidsAreNodes
<1>2. \A k \in 1..Arity(ast[n].kind) : KidResult(n, k) \in Int
    BY <1>1 DEF TablesOK, KidResult
<1>3. Arity(ast[n].kind) \in Nat
    BY Arities DEF Kinds
<1>4. KidResults(n) \in [1..Arity(ast[n].kind) -> Int]
    BY <1>1, <1>2 DEF KidResults
<1>. QED
    BY <1>2, <1>3, <1>4, SeqDef

\* The instructions that the handlers make are ready.
LEMMA InstrTyped ==
    ASSUME NEW bs, NEW op \in Ops, NEW id \in Nat, NEW args \in Seq(Int),
           NEW blks \in Seq(bs)
    PROVE  /\ Instr(op, id, args, blks) \in Instruction(bs)
           /\ Instr(op, id, args, blks).op = op
           /\ Instr(op, id, args, blks).id = id
           /\ Instr(op, id, args, blks).blks = blks
BY DEF Instr, Instruction

LEMMA InstrReady ==
    ASSUME NEW bs, NEW op \in Ops \ {"BRANCH", "BLOCK"}, NEW id \in Nat,
           NEW args \in Seq(Int), NEW blks \in Seq(bs)
    PROVE  /\ Instr(op, id, args, blks) \in ReadyInstructions(bs)
           /\ Instr(op, id, args, blks).id = id
           /\ Instr(op, id, args, blks).op = op
BY InstrTyped DEF Shaped, ReadyInstructions

\* One that names no block, and one that has no operand either.
LEMMA PlainReady ==
    ASSUME NEW bs, NEW op \in Ops \ {"BRANCH", "BLOCK"}, NEW id \in Nat,
           NEW args \in Seq(Int)
    PROVE  /\ Instr(op, id, args, <<>>) \in ReadyInstructions(bs)
           /\ Instr(op, id, args, <<>>).id = id
           /\ Instr(op, id, <<>>, <<>>) \in ReadyInstructions(bs)
           /\ Instr(op, id, <<>>, <<>>).id = id
<1>1. \A as \in Seq(Int) :
         /\ [op |-> op, id |-> id, args |-> as, blks |-> <<>>, var |-> 0,
             val |-> Null] \in Instruction(bs)
         /\ Shaped([op |-> op, id |-> id, args |-> as, blks |-> <<>>, var |-> 0,
                    val |-> Null])
    BY EmptySeq DEF Instruction, Shaped
<1>2. <<>> \in Seq(Int)
    BY EmptySeq
<1>3. \A as : Instr(op, id, as, <<>>) =
         [op |-> op, id |-> id, args |-> as, blks |-> <<>>, var |-> 0, val |-> Null]
    BY DEF Instr
<1>4. \A as \in Seq(Int) : /\ Instr(op, id, as, <<>>) \in ReadyInstructions(bs)
                           /\ Instr(op, id, as, <<>>).id = id
    <2>. TAKE as \in Seq(Int)
    <2>. DEFINE ins == [op |-> op, id |-> id, args |-> as, blks |-> <<>>, var |-> 0,
                        val |-> Null]
    <2>1. ins \in ReadyInstructions(bs) /\ ins.id = id
        BY <1>1 DEF ReadyInstructions
    <2>2. Instr(op, id, as, <<>>) = ins
        BY <1>3
    <2>. HIDE DEF ins
    <2>. QED
        BY <2>1, <2>2
<1>. QED
    BY <1>2, <1>4, Zenon

LEMMA BranchReady ==
    ASSUME NEW bs, NEW id \in Nat, NEW value \in Int, NEW b \in bs, NEW c \in bs
    PROVE  /\ Instr("BRANCH", id, <<value>>, <<b, c>>) \in ReadyInstructions(bs)
           /\ Instr("BRANCH", id, <<value>>, <<b, c>>).id = id
           /\ Instr("BRANCH", id, <<value>>, <<b, c>>).op = "BRANCH"
<1>1. "BRANCH" \in Ops
    BY DEF Ops, Leaving
<1>2. [op |-> "BRANCH", id |-> id, args |-> <<value>>, blks |-> <<b, c>>,
       var |-> 0, val |-> Null] \in Instruction(bs)
    BY <1>1 DEF Instruction
<1>3. Shaped([op |-> "BRANCH", id |-> id, args |-> <<value>>, blks |-> <<b, c>>,
              var |-> 0, val |-> Null])
    BY DEF Shaped
<1>4. Instr("BRANCH", id, <<value>>, <<b, c>>) =
         [op |-> "BRANCH", id |-> id, args |-> <<value>>, blks |-> <<b, c>>,
          var |-> 0, val |-> Null]
    BY DEF Instr
<1>. QED
    BY <1>2, <1>3, <1>4 DEF ReadyInstructions

LEMMA BlockReady ==
    ASSUME NEW bs, NEW id \in Nat, NEW b \in bs
    PROVE  /\ Instr("BLOCK", id, <<>>, <<b>>) \in ReadyInstructions(bs)
           /\ Instr("BLOCK", id, <<>>, <<b>>).id = id
           /\ Instr("BLOCK", id, <<>>, <<b>>).op = "BLOCK"
<1>1. "BLOCK" \in Ops
    BY DEF Ops
<1>2. [op |-> "BLOCK", id |-> id, args |-> <<>>, blks |-> <<b>>,
       var |-> 0, val |-> Null] \in Instruction(bs)
    BY <1>1, EmptySeq DEF Instruction
<1>3. Shaped([op |-> "BLOCK", id |-> id, args |-> <<>>, blks |-> <<b>>,
              var |-> 0, val |-> Null])
    BY DEF Shaped
<1>4. Instr("BLOCK", id, <<>>, <<b>>) =
         [op |-> "BLOCK", id |-> id, args |-> <<>>, blks |-> <<b>>,
          var |-> 0, val |-> Null]
    BY DEF Instr
<1>. QED
    BY <1>2, <1>3, <1>4 DEF ReadyInstructions

LEMMA ConstReady ==
    ASSUME NEW bs, NEW op \in ConstOps, NEW id \in Nat,
           NEW val \in Literals \cup {Null, Args}
    PROVE  Const(op, id, val) \in ReadyInstructions(bs) /\ Const(op, id, val).id = id
<1>1. <<>> \in Seq(Int) /\ <<>> \in Seq(bs)
    BY EmptySeq
<1>2. op \in Ops /\ op # "BRANCH" /\ op # "BLOCK"
    BY DEF Ops, ConstOps
<1>3. Const(op, id, val) = [op |-> op, id |-> id, args |-> <<>>, blks |-> <<>>,
                            var |-> 0, val |-> val]
    BY DEF Const, Instr
<1>4. Const(op, id, val) \in Instruction(bs)
    BY <1>1, <1>2, <1>3 DEF Instruction
<1>5. Shaped(Const(op, id, val))
    BY <1>2, <1>3 DEF Shaped
<1>. QED
    BY <1>3, <1>4, <1>5 DEF ReadyInstructions

LEMMA LoadStoreReady ==
    ASSUME NEW bs, NEW id \in Nat, NEW var \in Nat, NEW value \in Int
    PROVE  /\ Load(id, var) \in ReadyInstructions(bs) /\ Load(id, var).id = id
           /\ Store(id, var, value) \in ReadyInstructions(bs)
           /\ Store(id, var, value).id = id
<1>1. /\ <<>> \in Seq(Int) /\ <<>> \in Seq(bs) /\ <<value>> \in Seq(Int)
    BY EmptySeq
<1>2. "LOAD" \in Ops /\ "STORE" \in Ops
    BY DEF Ops
<1>3. Load(id, var) = [op |-> "LOAD", id |-> id, args |-> <<>>, blks |-> <<>>,
                       var |-> var, val |-> Null]
    BY DEF Load, Instr
<1>4. Store(id, var, value) = [op |-> "STORE", id |-> id, args |-> <<value>>,
                               blks |-> <<>>, var |-> var, val |-> Null]
    BY DEF Store, Instr
<1>5. Load(id, var) \in Instruction(bs)
    BY <1>1, <1>2, <1>3 DEF Instruction
<1>6. Store(id, var, value) \in Instruction(bs)
    BY <1>1, <1>2, <1>4 DEF Instruction
<1>7. Shaped(Load(id, var)) /\ Shaped(Store(id, var, value))
    BY <1>3, <1>4 DEF Shaped
<1>. QED
    BY <1>3, <1>4, <1>5, <1>6, <1>7 DEF ReadyInstructions

-----------------------------------------------------------------------------
(* The initial state. *)

LEMMA InitIInv == Init => IInv
<1>. SUFFICES ASSUME Init PROVE IInv
    OBVIOUS
<1>. USE DEF Init
<1>1. TreeInv
    BY AstAssumption DEF TreeInv
<1>2. Blocks = 0..0 /\ NextBlock = 1
    <2>1. Blocks = {0}
        BY DEF Blocks
    <2>2. Cardinality({0}) = 1
        BY FS_Singleton
    <2>. QED
        BY <2>1, <2>2 DEF NextBlock
<1>. DEFINE first == Const("CONST_ARRAY", 0, Args)
            second == Store(1, 1, 0)
<1>3. first \in ReadyInstructions(Blocks) /\ second \in ReadyInstructions(Blocks)
    BY ConstReady, LoadStoreReady DEF ConstOps
<1>4. code = [b \in Blocks |-> <<first, second>>]
    BY <1>2
<1>5. CodeInv
    <2>1. code \in [Blocks -> Seq(ReadyInstructions(Blocks))]
        BY <1>3, <1>4
    <2>2. UniqueIds
        <3>1. first.id = 0 /\ second.id = 1
            BY DEF Const, Store, Instr
        <3>2. \A b \in Blocks : \A i \in DOMAIN code[b] :
                 /\ b = 0
                 /\ \/ i = 1 /\ code[b][i].id = 0
                    \/ i = 2 /\ code[b][i].id = 1
            BY <1>2, <1>4, <3>1
        <3>. QED
            BY <3>2 DEF UniqueIds
    <2>. QED
        BY <1>2, <2>1, <2>2 DEF CodeInv
<1>6. FlowOK
    BY <1>2, EmptySeq DEF FlowOK, Nodes
<1>7. TablesOK
    BY NamesAssumption DEF TablesOK, NoId, NoPos, Nodes
<1>8. worklist \in Seq(ReadyItems)
    <2>1. Item(1, 0, 0) \in ReadyItems
        BY <1>1, <1>2
        DEF ReadyItems, ItemReady, Item, Nodes, TreeInv, WellFormedTree
    <2>. QED
        BY <2>1
<1>9. walk \in Seq(ReadyFrames)
    BY EmptySeq
<1>. QED
    BY <1>1, <1>5, <1>6, <1>7, <1>8, <1>9 DEF IInv

-----------------------------------------------------------------------------
(* The steps that pop an item and emit at most one instruction. *)

\* One instruction at the end of the item's block, and a result.
LEMMA SimpleStep ==
    ASSUME IInv, worklist # <<>>, walk = <<>>,
           NEW ins \in ReadyInstructions(Blocks), ins.id = nextValue,
           Emit(code, Top.block, ins),
           NEW v \in Int, SetResult(Top.node, v), worklist' = Rest,
           UNCHANGED <<ast, walk, succ, closed, held, nodeBlock, top>>,
           symtab' \in [Names -> Nat], varId' \in Nat
    PROVE  IInv'
<1>1. /\ Top.node \in Nodes /\ Top.block \in Blocks
      /\ Rest \in Seq(ReadyItems)
    BY TopAndRest
<1>2. CodeInv' /\ Blocks' = Blocks /\ Kept
    BY <1>1, EmittedHere DEF IInv
<1>3. TreeInv' /\ Nodes' = Nodes
    BY DEF IInv, TreeInv, Nodes
<1>4. FlowOK'
    BY <1>2, <1>3 DEF IInv, FlowOK
<1>5. TablesOK'
    BY <1>3 DEF IInv, TablesOK, SetResult
<1>6. ReadyItems \subseteq ReadyItems'
    BY <1>2, ItemsStay DEF IInv
<1>7. worklist' \in Seq(ReadyItems')
    BY <1>1, <1>6, SeqMonotonic
<1>8. walk' \in Seq(ReadyFrames')
    BY <1>2, WalkSame
<1>. QED
    BY <1>2, <1>3, <1>4, <1>5, <1>7, <1>8 DEF IInv

\* The variable of a name.
LEMMA InternTyped ==
    ASSUME TablesOK, NEW name \in Names
    PROVE  /\ VarOf(name) \in Nat
           /\ Intern(name) => symtab' \in [Names -> Nat] /\ varId' \in Nat
BY DEF TablesOK, VarOf, Intern

LEMMA GenLiteralStep == IInv /\ GenLiteral => IInv'
<1>. SUFFICES ASSUME IInv, GenLiteral PROVE IInv'
    OBVIOUS
<1>1. worklist # <<>> /\ walk = <<>> /\ ast[Top.node].kind \in LiteralKinds
    BY DEF GenLiteral, Turn
<1>2. Top.node \in Nodes
    BY <1>1, TopAndRest
<1>. DEFINE ins == Const(LiteralOp[ast[Top.node].kind], nextValue, ast[Top.node].lit)
<1>3. LiteralOp[ast[Top.node].kind] \in ConstOps
    BY <1>1 DEF LiteralOp, LiteralKinds, ConstOps
<1>4. ast[Top.node].lit \in Literals
    BY <1>2, KidsAreNodes DEF IInv
<1>5. nextValue \in Nat
    BY DEF IInv, CodeInv
<1>6. ins \in ReadyInstructions(Blocks) /\ ins.id = nextValue
    BY <1>3, <1>4, <1>5, ConstReady
<1>7. symtab' \in [Names -> Nat] /\ varId' \in Nat
    BY DEF GenLiteral, IInv, TablesOK
<1>. QED
    BY <1>1, <1>5, <1>6, <1>7, SimpleStep DEF GenLiteral

LEMMA GenIdentifierStep == IInv /\ GenIdentifier => IInv'
<1>. SUFFICES ASSUME IInv, GenIdentifier PROVE IInv'
    OBVIOUS
<1>1. worklist # <<>> /\ walk = <<>>
    BY DEF GenIdentifier, Turn
<1>2. ast[Top.node].name \in Names
    BY <1>1, TopAndRest, KidsAreNodes DEF IInv
<1>. DEFINE ins == Load(nextValue, VarOf(ast[Top.node].name))
<1>3. /\ VarOf(ast[Top.node].name) \in Nat
      /\ symtab' \in [Names -> Nat] /\ varId' \in Nat
    BY <1>2, InternTyped DEF GenIdentifier, IInv
<1>4. nextValue \in Nat
    BY DEF IInv, CodeInv
<1>5. ins \in ReadyInstructions(Blocks) /\ ins.id = nextValue
    BY <1>3, <1>4, LoadStoreReady
<1>. QED
    BY <1>1, <1>3, <1>4, <1>5, SimpleStep DEF GenIdentifier

LEMMA GenNullaryStep == IInv /\ GenNullary => IInv'
<1>. SUFFICES ASSUME IInv, GenNullary PROVE IInv'
    OBVIOUS
<1>1. worklist # <<>> /\ walk = <<>> /\ ast[Top.node].kind \in NullaryKinds
    BY DEF GenNullary, Turn
<1>. DEFINE ins == Instr(ast[Top.node].kind, nextValue, <<>>, <<>>)
<1>2. ast[Top.node].kind \in Ops \ {"BRANCH", "BLOCK"}
    BY <1>1 DEF NullaryKinds, Ops
<1>3. nextValue \in Nat
    BY DEF IInv, CodeInv
<1>5. ins \in ReadyInstructions(Blocks) /\ ins.id = nextValue
    BY <1>2, <1>3, PlainReady, EmptySeq
<1>6. symtab' \in [Names -> Nat] /\ varId' \in Nat
    BY DEF GenNullary, IInv, TablesOK
<1>. QED
    BY <1>1, <1>3, <1>5, <1>6, SimpleStep DEF GenNullary

\* The operators, by one lemma.
LEMMA OperatorStep ==
    ASSUME IInv, NEW kinds, kinds \subseteq DOMAIN OperatorOp, Operator(kinds)
    PROVE  IInv'
<1>1. worklist # <<>> /\ walk = <<>> /\ ast[Top.node].kind \in kinds
    BY DEF Operator, Turn
<1>. DEFINE op == OperatorOp[ast[Top.node].kind]
            ins == Instr(op, nextValue, KidResults(Top.node), <<>>)
<1>2. \A k \in DOMAIN OperatorOp :
         OperatorOp[k] \in Ops \ {"BRANCH", "BLOCK"}
    BY DEF OperatorOp, Ops, UnaryOps, BinaryOps
<1>3. op \in Ops \ {"BRANCH", "BLOCK"}
    BY <1>1, <1>2
<1>4. nextValue \in Nat
    BY DEF IInv, CodeInv
<1>5. KidResults(Top.node) \in Seq(Int)
    BY <1>1, TopAndRest, KidsAreNodes, KidResultsAreInts DEF IInv
<1>6. ins \in ReadyInstructions(Blocks) /\ ins.id = nextValue
    BY <1>3, <1>4, <1>5, PlainReady
<1>7. symtab' \in [Names -> Nat] /\ varId' \in Nat
    BY DEF Operator, IInv, TablesOK
<1>. QED
    BY <1>1, <1>4, <1>6, <1>7, SimpleStep DEF Operator

LEMMA OperatorSteps == IInv /\ (GenUnary \/ GenBinary \/ GenSlice) => IInv'
<1>. SUFFICES ASSUME IInv, GenUnary \/ GenBinary \/ GenSlice PROVE IInv'
    OBVIOUS
<1>1. /\ UnaryKinds \ {"BLOCK", "CALL", "DUMP"} \subseteq DOMAIN OperatorOp
      /\ BinaryKinds \ {"AND", "OR", "EXPR", "ASSIGN", "WHILE"} \subseteq DOMAIN OperatorOp
      /\ {"GET", "SET"} \subseteq DOMAIN OperatorOp
    BY DEF OperatorOp, UnaryKinds, BinaryKinds
<1>. QED
    BY <1>1, OperatorStep DEF GenUnary, GenBinary, GenSlice

LEMMA GenDumpStep == IInv /\ GenDump => IInv'
<1>. SUFFICES ASSUME IInv, GenDump PROVE IInv'
    OBVIOUS
<1>1. worklist # <<>> /\ walk = <<>> /\ ast[Top.node].kind = "DUMP"
    BY DEF GenDump, Turn
<1>. DEFINE ins == Instr("DUMP", nextValue, KidResults(Top.node), <<>>)
<1>2. nextValue \in Nat /\ "DUMP" \in Ops \ {"BRANCH", "BLOCK"}
    BY DEF IInv, CodeInv, Ops
<1>3. KidResults(Top.node) \in Seq(Int)
    BY <1>1, TopAndRest, KidsAreNodes, KidResultsAreInts DEF IInv
<1>4. ins \in ReadyInstructions(Blocks) /\ ins.id = nextValue
    BY <1>2, <1>3, PlainReady
<1>5. KidResult(Top.node, 1) \in Int
    <2>1. Arity("DUMP") = 1
        BY Arities DEF UnaryKinds
    <2>. QED
        BY <1>1, <2>1, TopAndRest, KidsAreNodes, KidResultsAreInts DEF IInv
<1>6. symtab' \in [Names -> Nat] /\ varId' \in Nat
    BY DEF GenDump, IInv, TablesOK
<1>. QED
    BY <1>1, <1>4, <1>5, <1>6, SimpleStep DEF GenDump

LEMMA GenAssignStep == IInv /\ GenAssign => IInv'
<1>. SUFFICES ASSUME IInv, GenAssign PROVE IInv'
    OBVIOUS
<1>1. worklist # <<>> /\ walk = <<>> /\ ast[Top.node].kind = "ASSIGN"
    BY DEF GenAssign, Turn
<1>. DEFINE name == ast[Kid(Top.node, 1)].name
            ins == Store(nextValue, VarOf(name), KidResult(Top.node, 2))
<1>2. Arity("ASSIGN") = 2
    BY Arities DEF BinaryKinds
<1>. HIDE DEF name, ins
<1>3. name \in Names /\ KidResult(Top.node, 2) \in Int
    <2>1. Top.node \in Nodes /\ TreeInv /\ TablesOK
        BY <1>1, TopAndRest DEF IInv
    <2>2. Kid(Top.node, 1) \in Nodes
        BY <1>1, <1>2, <2>1, KidsAreNodes
    <2>3. name \in Names
        BY <2>1, <2>2, KidsAreNodes DEF name
    <2>4. KidResult(Top.node, 2) \in Int
        BY <1>1, <1>2, <2>1, KidsAreNodes, KidResultsAreInts
    <2>. QED
        BY <2>3, <2>4
<1>. USE DEF name, ins
<1>4. /\ VarOf(name) \in Nat
      /\ symtab' \in [Names -> Nat] /\ varId' \in Nat
    BY <1>3, InternTyped DEF GenAssign, IInv
<1>5. nextValue \in Nat
    BY DEF IInv, CodeInv
<1>6. ins \in ReadyInstructions(Blocks) /\ ins.id = nextValue
    BY <1>3, <1>4, <1>5, LoadStoreReady
<1>. QED
    BY <1>1, <1>3, <1>4, <1>6, SimpleStep DEF GenAssign

LEMMA GenExprStep == IInv /\ GenExpr => IInv'
<1>. SUFFICES ASSUME IInv, GenExpr PROVE IInv'
    OBVIOUS
<1>1. worklist # <<>> /\ walk = <<>> /\ ast[Top.node].kind = "EXPR"
    BY DEF GenExpr, Turn
<1>2. /\ Top.node \in Nodes
      /\ Rest \in Seq(ReadyItems)
    BY <1>1, TopAndRest
<1>3. KidResult(Top.node, 2) \in Int
    <2>1. Arity("EXPR") = 2
        BY Arities DEF BinaryKinds
    <2>. QED
        BY <1>1, <2>1, TopAndRest, KidsAreNodes, KidResultsAreInts DEF IInv
<1>4. CodeInv' /\ Blocks' = Blocks /\ Kept
    BY CodeSame DEF GenExpr, IInv
<1>5. TreeInv' /\ Nodes' = Nodes
    BY DEF GenExpr, IInv, TreeInv, Nodes
<1>6. FlowOK' /\ TablesOK'
    BY <1>3, <1>4, <1>5 DEF GenExpr, IInv, FlowOK, TablesOK, SetResult
<1>7. ReadyItems \subseteq ReadyItems'
    BY <1>4, ItemsStay DEF GenExpr, IInv
<1>8. worklist' \in Seq(ReadyItems')
    BY <1>2, <1>7, SeqMonotonic DEF GenExpr
<1>9. walk' \in Seq(ReadyFrames')
    BY WalkSame DEF GenExpr, Turn
<1>. QED
    BY <1>4, <1>5, <1>6, <1>8, <1>9 DEF IInv

-----------------------------------------------------------------------------
(* The steps that put items back. *)

LEMMA PushTwo ==
    ASSUME NEW S, NEW T, NEW s \in Seq(S), S \subseteq T, NEW a \in T, NEW b \in T
    PROVE  s \o <<a, b>> \in Seq(T)
<1>1. s \in Seq(T)
    BY SeqMonotonic
<1>2. <<a, b>> \in Seq(T)
    OBVIOUS
<1>. QED
    BY <1>1, <1>2, ConcatProperties

LEMMA PushThree ==
    ASSUME NEW S, NEW T, NEW s \in Seq(S), S \subseteq T,
           NEW a \in T, NEW b \in T, NEW c \in T
    PROVE  s \o <<a, b, c>> \in Seq(T)
<1>1. s \in Seq(T)
    BY SeqMonotonic
<1>2. <<a, b, c>> \in Seq(T)
    OBVIOUS
<1>. QED
    BY <1>1, <1>2, ConcatProperties

\* The arguments that a node schedules are nodes.
LEMMA ScheduledAreNodes ==
    ASSUME TreeInv, NEW n \in Nodes
    PROVE  Scheduled(n) \in Seq(Nodes)
<1>1. /\ ast[n].kind \in Kinds
      /\ ast[n].kids \in [1..Arity(ast[n].kind) -> Nodes]
      /\ \A k \in 1..Arity(ast[n].kind) : Kid(n, k) \in Nodes
    BY KidsAreNodes
<1>2. Arity(ast[n].kind) \in Nat
    BY <1>1, Arities DEF Kinds
<1>3. ast[n].kids \in Seq(Nodes)
    BY <1>1, <1>2, SeqDef
<1>4. CASE ast[n].kind \in {"AND", "OR", "IF"}
    <2>1. Arity(ast[n].kind) >= 1
        BY <1>4, Arities DEF BinaryKinds, TernaryKinds
    <2>2. Kid(n, 1) \in Nodes
        BY <1>1, <1>2, <2>1
    <2>. QED
        BY <1>4, <2>2 DEF Scheduled
<1>5. CASE ast[n].kind = "ASSIGN"
    <2>1. Arity("ASSIGN") = 2
        BY Arities DEF BinaryKinds
    <2>2. Kid(n, 2) \in Nodes
        BY <1>1, <1>5, <2>1
    <2>. QED
        BY <1>5, <2>2 DEF Scheduled
<1>6. CASE ast[n].kind \notin {"AND", "OR", "IF", "ASSIGN"}
    BY <1>3, <1>6 DEF Scheduled
<1>. QED
    BY <1>4, <1>5, <1>6

LEMMA GenScheduleStep == IInv /\ GenSchedule => IInv'
<1>. SUFFICES ASSUME IInv, GenSchedule PROVE IInv'
    OBVIOUS
<1>1. /\ worklist # <<>>
      /\ ast[Top.node].kind \notin {"BLOCK", "WHILE"}
    BY DEF GenSchedule, Turn
<1>2. Top.node \in Nodes /\ Top.block \in Blocks /\ Rest \in Seq(ReadyItems)
    BY <1>1, TopAndRest
<1>. DEFINE s == Scheduled(Top.node)
            pushed == [k \in 1..Len(s) |-> Item(s[Len(s) + 1 - k], Top.block, 0)]
            again == Item(Top.node, Top.block, 1)
<1>3. s \in Seq(Nodes) /\ Len(s) \in Nat
    BY <1>2, ScheduledAreNodes, LenProperties DEF IInv
<1>4. \A n \in Nodes : Item(n, Top.block, 0) \in ReadyItems
    BY <1>2 DEF ReadyItems, ItemReady, Item
<1>5. \A k \in 1..Len(s) : s[Len(s) + 1 - k] \in Nodes
    <2>1. \A k \in 1..Len(s) : Len(s) + 1 - k \in 1..Len(s)
        BY <1>3
    <2>. QED
        BY <1>3, <2>1, ElementOfSeq
<1>6. pushed \in [1..Len(s) -> ReadyItems]
    BY <1>4, <1>5
<1>7. pushed \in Seq(ReadyItems)
    BY <1>3, <1>6, SeqDef
<1>8. again \in ReadyItems
    BY <1>1, <1>2 DEF ReadyItems, ItemReady, Item
<1>9. worklist' \in Seq(ReadyItems)
    <2>1. <<again>> \in Seq(ReadyItems)
        BY <1>8
    <2>2. Rest \o <<again>> \in Seq(ReadyItems)
        BY <1>2, <2>1, ConcatProperties
    <2>3. (Rest \o <<again>>) \o pushed \in Seq(ReadyItems)
        BY <1>7, <2>2, ConcatProperties
    <2>. QED
        BY <2>3 DEF GenSchedule
<1>10. CodeInv' /\ Blocks' = Blocks /\ Kept
    BY CodeSame DEF GenSchedule, IInv
<1>11. TreeInv' /\ Nodes' = Nodes
    BY DEF GenSchedule, IInv, TreeInv, Nodes
<1>12. FlowOK' /\ TablesOK'
    BY <1>10, <1>11 DEF GenSchedule, IInv, FlowOK, TablesOK
<1>13. ReadyItems \subseteq ReadyItems'
    BY <1>10, ItemsStay DEF GenSchedule, IInv
<1>14. worklist' \in Seq(ReadyItems')
    BY <1>9, <1>13, SeqMonotonic
<1>15. walk' \in Seq(ReadyFrames')
    BY WalkSame DEF GenSchedule, Turn
<1>. QED
    BY <1>10, <1>11, <1>12, <1>14, <1>15 DEF IInv

\* The SAVE, the CALL and the RESTORE.
LEMMA GenCallStep == IInv /\ GenCall => IInv'
<1>. SUFFICES ASSUME IInv, GenCall PROVE IInv'
    OBVIOUS
<1>1. worklist # <<>> /\ ast[Top.node].kind = "CALL"
    BY DEF GenCall, Turn
<1>2. Top.node \in Nodes /\ Top.block \in Blocks /\ Rest \in Seq(ReadyItems)
    BY <1>1, TopAndRest
<1>. DEFINE save == Instr("SAVE", nextValue, <<>>, <<>>)
            call == Instr("CALL", nextValue + 1, KidResults(Top.node), <<>>)
            restore == Instr("RESTORE", nextValue + 2, <<>>, <<>>)
            s == <<save, call, restore>>
            bs == 0..(NextBlock + 0 - 1)
<1>3. NextBlock \in Nat /\ Blocks = 0..(NextBlock - 1) /\ nextValue \in Nat
    BY DEF IInv, CodeInv
<1>4. Blocks = bs
    BY <1>3
<1>5. KidResults(Top.node) \in Seq(Int)
    BY <1>2, KidsAreNodes, KidResultsAreInts DEF IInv
<1>6. /\ save \in ReadyInstructions(bs) /\ save.id = nextValue
      /\ call \in ReadyInstructions(bs) /\ call.id = nextValue + 1
      /\ restore \in ReadyInstructions(bs) /\ restore.id = nextValue + 2
    <2>1. {"SAVE", "CALL", "RESTORE"} \subseteq Ops \ {"BRANCH", "BLOCK"}
        BY DEF Ops
    <2>2. nextValue + 1 \in Nat /\ nextValue + 2 \in Nat
        BY <1>3
    <2>3. save \in ReadyInstructions(bs) /\ save.id = nextValue
        BY <1>3, <1>5, <2>1, PlainReady
    <2>4. call \in ReadyInstructions(bs) /\ call.id = nextValue + 1
        BY <1>5, <2>1, <2>2, PlainReady
    <2>5. restore \in ReadyInstructions(bs) /\ restore.id = nextValue + 2
        BY <1>5, <2>1, <2>2, PlainReady
    <2>. QED
        BY <2>3, <2>4, <2>5
<1>. HIDE DEF save, call, restore
<1>7. /\ s \in Seq(ReadyInstructions(bs)) /\ Len(s) = 3
      /\ s[1] = save /\ s[2] = call /\ s[3] = restore
    BY <1>6
<1>8. \A i \in 1..Len(s) : s[i].id = nextValue + (i - 1)
    BY <1>3, <1>6, <1>7
<1>9. Grown(code, 0) = code
    BY <1>3, GrownByNone DEF IInv, CodeInv
<1>10. code' = [Grown(code, 0) EXCEPT ![Top.block] = @ \o s]
    BY <1>9 DEF GenCall, save, call, restore
<1>11. nextValue' = nextValue + Len(s)
    BY <1>7 DEF GenCall
<1>. HIDE DEF s
<1>12. CodeInv' /\ NextBlock' = NextBlock + 0 /\ Kept
    BY <1>2, <1>4, <1>7, <1>8, <1>10, <1>11, Appended DEF IInv
<1>13. Blocks' = Blocks
    BY <1>3, <1>12 DEF CodeInv
<1>14. TreeInv' /\ Nodes' = Nodes
    BY DEF GenCall, IInv, TreeInv, Nodes
<1>15. FlowOK'
    BY <1>13, <1>14 DEF GenCall, IInv, FlowOK
<1>16. TablesOK'
    <2>1. nextValue + 1 \in Int
        BY <1>3
    <2>2. result' = [result EXCEPT ![Top.node] = nextValue + 1]
        BY DEF GenCall, SetResult
    <2>. QED
        BY <1>14, <2>1, <2>2 DEF GenCall, IInv, TablesOK
<1>17. ReadyItems \subseteq ReadyItems'
    BY <1>12, ItemsStay DEF GenCall, IInv
<1>18. worklist' \in Seq(ReadyItems')
    BY <1>2, <1>17, SeqMonotonic DEF GenCall
<1>19. walk' \in Seq(ReadyFrames')
    BY WalkSame DEF GenCall, Turn
<1>. QED
    BY <1>12, <1>14, <1>15, <1>16, <1>18, <1>19 DEF IInv

-----------------------------------------------------------------------------
(* The steps that create blocks. *)

LEMMA FlowStays ==
    ASSUME FlowOK, Blocks \subseteq Blocks',
           UNCHANGED <<ast, closed, nodeBlock, top>>,
           succ' \in [Blocks' -> Seq(Blocks')]
    PROVE  FlowOK'
BY DEF FlowOK, Nodes

\* The successors of the blocks there are stay, those of new blocks are empty.
LEMMA SuccGrown ==
    ASSUME CodeInv, FlowOK, NEW k \in Nat, Blocks' = 0..(NextBlock + k - 1)
    PROVE  Grown(succ, k) \in [Blocks' -> Seq(Blocks')]
<1>1. NextBlock \in Nat /\ Blocks = 0..(NextBlock - 1)
    BY DEF CodeInv
<1>2. Blocks \subseteq Blocks'
    BY <1>1
<1>3. \A b \in Blocks : succ[b] \in Seq(Blocks')
    BY <1>2, SeqMonotonic DEF FlowOK
<1>4. <<>> \in Seq(Blocks')
    BY EmptySeq
<1>. QED
    BY <1>3, <1>4 DEF Grown

LEMMA SuccAppended ==
    ASSUME CodeInv, FlowOK, NEW k \in Nat, Blocks' = 0..(NextBlock + k - 1),
           NEW b, NEW t \in Seq(Blocks'),
           succ' = [Grown(succ, k) EXCEPT ![b] = @ \o t]
    PROVE  succ' \in [Blocks' -> Seq(Blocks')]
<1>1. Grown(succ, k) \in [Blocks' -> Seq(Blocks')]
    BY SuccGrown
<1>2. \A c \in Blocks' : Grown(succ, k)[c] \o t \in Seq(Blocks')
    BY <1>1, ConcatProperties
<1>. QED
    BY <1>1, <1>2

\* The node at the top emits, after the creation of k blocks, the instruction
\* it then holds.
HeldOp(kind) == IF kind = "BLOCK" THEN "BLOCK" ELSE "BRANCH"
Entering(k, b, ins) ==
    /\ walk = <<>> /\ worklist # <<>>
    /\ ins.id = nextValue
    /\ ins.op = HeldOp(ast[Top.node].kind)
    /\ Emit(Grown(code, k), b, ins)
    /\ held' = [held EXCEPT ![Top.node] = <<b, Len(code[b]) + 1>>]
    /\ UNCHANGED <<ast, walk, result, nodeBlock, top, symtab, varId>>

\* What then holds of everything but the worklist and the successors.
Entered(k) ==
    /\ Top.node \in Nodes /\ Top.block \in Blocks
    /\ Rest \in Seq(ReadyItems)
    /\ ast' = ast /\ TreeInv' /\ Nodes' = Nodes
    /\ CodeInv' /\ TablesOK'
    /\ Blocks' = 0..(NextBlock + k - 1) /\ Blocks \subseteq Blocks'
    /\ ReadyItems \subseteq ReadyItems'
    /\ walk' \in Seq(ReadyFrames')
    /\ \A n \in Nodes : n = Top.node => Holds(n, {HeldOp(ast[n].kind)})'

LEMMA EnterStep ==
    ASSUME IInv, NEW k \in Nat, NEW b \in Blocks,
           NEW ins \in ReadyInstructions(0..(NextBlock + k - 1)),
           Entering(k, b, ins)
    PROVE  Entered(k)
<1>1. NextBlock \in Nat /\ Blocks = 0..(NextBlock - 1)
    BY DEF IInv, CodeInv
<1>2. b \in 0..(NextBlock + k - 1) /\ b \in Int
    BY <1>1
<1>3. Grown(code, k)[b] = code[b]
    BY <1>2 DEF Grown
<1>4. /\ CodeInv' /\ NextBlock' = NextBlock + k /\ Kept
      /\ Len(code[b]) + 1 \in DOMAIN code'[b]
      /\ code'[b][Len(code[b]) + 1] = ins
    BY <1>2, <1>3, Emitted DEF IInv, Entering
<1>5. Blocks' = 0..(NextBlock + k - 1)
    <2>1. Blocks' = 0..(NextBlock' - 1)
        BY <1>4 DEF CodeInv
    <2>2. NextBlock' - 1 = NextBlock + k - 1
        BY <1>1, <1>4
    <2>. QED
        BY <2>1, <2>2
<1>6. Blocks \subseteq Blocks'
    BY <1>4 DEF Kept
<1>7. Top.node \in Nodes /\ Top.block \in Blocks /\ Rest \in Seq(ReadyItems)
    BY TopAndRest DEF Entering
<1>8. ast' = ast /\ TreeInv' /\ Nodes' = Nodes
    BY DEF IInv, TreeInv, Nodes, Entering
<1>9. held' \in [Nodes -> Int \X Nat]
    <2>1. Len(code[b]) \in Nat
        BY BlockIsSeq DEF IInv
    <2>2. <<b, Len(code[b]) + 1>> \in Int \X Nat
        BY <1>2, <2>1
    <2>3. held \in [Nodes -> Int \X Nat]
        BY DEF IInv, TablesOK
    <2>4. held' = [held EXCEPT ![Top.node] = <<b, Len(code[b]) + 1>>]
        BY DEF Entering
    <2>. QED
        BY <2>2, <2>3, <2>4
<1>10. /\ held'[Top.node] = <<b, Len(code[b]) + 1>>
       /\ \A n \in Nodes : n # Top.node => held'[n] = held[n]
    BY <1>7 DEF IInv, TablesOK, Entering
<1>11. TablesOK'
    BY <1>8, <1>9 DEF IInv, TablesOK, Entering
<1>12. \A n \in Nodes : n = Top.node => Holds(n, {HeldOp(ast[n].kind)})'
    <2>. SUFFICES ASSUME NEW n \in Nodes, n = Top.node
                  PROVE  Holds(n, {HeldOp(ast[n].kind)})'
        BY Zenon
    <2>1. held'[n] = <<b, Len(code[b]) + 1>>
        BY <1>10
    <2>2. held'[n][1] = b /\ held'[n][2] = Len(code[b]) + 1
        BY <2>1
    <2>3. ins.op = HeldOp(ast[n].kind)' /\ b \in Blocks'
        BY <1>6 DEF Entering
    <2>. QED
        BY <1>4, <2>2, <2>3 DEF Holds, HeldInstr
<1>13. ReadyItems \subseteq ReadyItems'
    <2>1. ASSUME NEW n \in Nodes
          PROVE  \/ held'[n] = held[n]
                 \/ ast[n].kind = "BLOCK" /\ Holds(n, {"BLOCK"})'
                 \/ ast[n].kind # "BLOCK" /\ Holds(n, {"BRANCH"})'
        <3>1. CASE n # Top.node
            BY <1>10, <3>1
        <3>2. CASE n = Top.node /\ ast[n].kind = "BLOCK"
            <4>1. Holds(n, {HeldOp(ast[n].kind)})'
                BY <1>12, <3>2
            <4>2. HeldOp(ast[n].kind)' = "BLOCK"
                BY <3>2 DEF Entering, HeldOp
            <4>. QED
                BY <3>2, <4>1, <4>2
        <3>3. CASE n = Top.node /\ ast[n].kind # "BLOCK"
            <4>1. Holds(n, {HeldOp(ast[n].kind)})'
                BY <1>12, <3>3
            <4>2. HeldOp(ast[n].kind)' = "BRANCH"
                BY <3>3 DEF Entering, HeldOp
            <4>. QED
                BY <3>3, <4>1, <4>2
        <3>. QED
            BY <3>1, <3>2, <3>3
    <2>2. \A n \in Nodes : /\ nodeBlock'[n] = nodeBlock[n] \/ nodeBlock'[n] # NoBlock
                           /\ top'[n] = top[n] \/ top'[n] # NoBlock
        BY DEF Entering
    <2>. QED
        BY <1>4, <2>1, <2>2, ItemsStay DEF IInv, Entering
<1>14. walk' \in Seq(ReadyFrames')
    BY WalkSame DEF Entering
<1>. QED
    BY <1>4, <1>5, <1>6, <1>7, <1>8, <1>11, <1>12, <1>13, <1>14 DEF Entered

\* The items such a step leaves: its own, in the next state, and new ones.
LEMMA EnteredItems ==
    ASSUME NEW k, Entered(k)
    PROVE  /\ \A n \in Nodes, c \in Blocks' : Item(n, c, 0) \in ReadyItems'
           /\ (ast[Top.node].kind = "BLOCK") => Item(Top.node, Top.block, 1) \in ReadyItems'
           /\ (ast[Top.node].kind \in {"AND", "OR", "IF"}) =>
                 Item(Top.node, Top.block, 2) \in ReadyItems'
           /\ (/\ ast[Top.node].kind = "WHILE"
               /\ nodeBlock'[Top.node] # NoBlock /\ top'[Top.node] # NoBlock) =>
                 Item(Top.node, Top.block, 2) \in ReadyItems'
<1>1. \A n \in Nodes, c \in Blocks' : Item(n, c, 0) \in ReadyItems'
    BY DEF Entered, ReadyItems, ItemReady, Item
<1>2. Top.node \in Nodes' /\ Top.block \in Blocks'
    BY DEF Entered
<1>3. ASSUME NEW n \in Nodes', NEW c \in Blocks', ast'[n].kind = "BLOCK",
             Holds(n, {"BLOCK"})'
      PROVE  Item(n, c, 1) \in ReadyItems'
    BY <1>3 DEF ReadyItems, ItemReady, Item
<1>4. ASSUME NEW n \in Nodes', NEW c \in Blocks', ast'[n].kind \in {"AND", "OR", "IF"},
             Holds(n, {"BRANCH"})'
      PROVE  Item(n, c, 2) \in ReadyItems'
    BY <1>4 DEF ReadyItems, ItemReady, Item
<1>5. ASSUME NEW n \in Nodes', NEW c \in Blocks', ast'[n].kind = "WHILE",
             Holds(n, {"BRANCH"})', nodeBlock'[n] # NoBlock, top'[n] # NoBlock
      PROVE  Item(n, c, 2) \in ReadyItems'
    BY <1>5 DEF ReadyItems, ItemReady, Item
<1>6. /\ ast'[Top.node].kind = ast[Top.node].kind
      /\ \A n \in Nodes : n = Top.node => Holds(n, {HeldOp(ast[n].kind)})'
    BY DEF Entered
<1>7. ASSUME ast[Top.node].kind = "BLOCK"
      PROVE  Item(Top.node, Top.block, 1) \in ReadyItems'
    BY <1>2, <1>3, <1>6, <1>7 DEF HeldOp, Entered
<1>8. ASSUME ast[Top.node].kind \in {"AND", "OR", "IF"}
      PROVE  Item(Top.node, Top.block, 2) \in ReadyItems'
    BY <1>2, <1>4, <1>6, <1>8 DEF HeldOp, Entered
<1>9. ASSUME ast[Top.node].kind = "WHILE",
             nodeBlock'[Top.node] # NoBlock, top'[Top.node] # NoBlock
      PROVE  Item(Top.node, Top.block, 2) \in ReadyItems'
    BY <1>2, <1>5, <1>6, <1>9 DEF HeldOp, Entered
<1>. QED
    BY <1>1, <1>7, <1>8, <1>9

LEMMA GenBlockEnterStep == IInv /\ GenBlockEnter => IInv'
<1>. SUFFICES ASSUME IInv, GenBlockEnter PROVE IInv'
    OBVIOUS
<1>. DEFINE ins == Instr("BLOCK", nextValue, <<>>, <<NextBlock>>)
<1>1. worklist # <<>> /\ ast[Top.node].kind = "BLOCK"
    BY DEF GenBlockEnter, Turn
<1>2. NextBlock \in Nat /\ nextValue \in Nat /\ NextBlock \in 0..(NextBlock + 1 - 1)
    BY DEF IInv, CodeInv
<1>3. /\ ins \in ReadyInstructions(0..(NextBlock + 1 - 1))
      /\ ins.id = nextValue /\ ins.op = "BLOCK"
    BY <1>2, BlockReady
<1>4. Top.node \in Nodes /\ Top.block \in Blocks
    BY <1>1, TopAndRest
<1>5. Entering(1, Top.block, ins)
    BY <1>1, <1>3 DEF GenBlockEnter, Turn, Entering, HeldOp
<1>. HIDE DEF ins
<1>6. Entered(1)
    BY <1>3, <1>4, <1>5, EnterStep
<1>7. FlowOK'
    <2>1. Blocks' = 0..(NextBlock + 1 - 1) /\ Blocks \subseteq Blocks'
        BY <1>6 DEF Entered
    <2>2. succ' \in [Blocks' -> Seq(Blocks')]
        BY <2>1, SuccGrown DEF GenBlockEnter, IInv
    <2>. QED
        BY <2>1, <2>2, FlowStays DEF GenBlockEnter, IInv
<1>8. worklist' \in Seq(ReadyItems')
    <2>1. Item(Top.node, Top.block, 1) \in ReadyItems'
        BY <1>1, <1>6, EnteredItems
    <2>2. Kid(Top.node, 1) \in Nodes
        BY <1>1, <1>4, KidsAreNodes, Arities DEF IInv, UnaryKinds
    <2>3. NextBlock \in Blocks'
        BY <1>2, <1>6 DEF Entered
    <2>4. Item(Kid(Top.node, 1), NextBlock, 0) \in ReadyItems'
        BY <1>6, <2>2, <2>3, EnteredItems
    <2>5. worklist' = Rest \o <<Item(Top.node, Top.block, 1),
                               Item(Kid(Top.node, 1), NextBlock, 0)>>
        BY DEF GenBlockEnter
    <2>6. Rest \in Seq(ReadyItems) /\ ReadyItems \subseteq ReadyItems'
        BY <1>6 DEF Entered
    <2>. QED
        BY <2>1, <2>4, <2>5, <2>6, PushTwo
<1>. QED
    BY <1>6, <1>7, <1>8 DEF IInv, Entered

\* A BRANCH to the two blocks that are created with it, in either order.
LEMMA BranchEmitted ==
    ASSUME IInv, NEW b \in Blocks, NEW value \in Int, NEW t, NEW ins,
           \/ t = <<NextBlock, NextBlock + 1>>
           \/ t = <<NextBlock + 1, NextBlock>>,
           ins = Instr("BRANCH", nextValue, <<value>>, t),
           Entering(2, b, ins)
    PROVE  /\ Entered(2)
           /\ NextBlock \in Blocks' /\ NextBlock + 1 \in Blocks'
<1>1. /\ NextBlock \in Nat /\ nextValue \in Nat
      /\ NextBlock \in 0..(NextBlock + 2 - 1) /\ NextBlock + 1 \in 0..(NextBlock + 2 - 1)
    BY DEF IInv, CodeInv
<1>2. ins \in ReadyInstructions(0..(NextBlock + 2 - 1))
    <2>1. CASE t = <<NextBlock, NextBlock + 1>>
        BY <1>1, <2>1, BranchReady
    <2>2. CASE t = <<NextBlock + 1, NextBlock>>
        BY <1>1, <2>2, BranchReady
    <2>. QED
        BY <2>1, <2>2
<1>3. Entered(2)
    BY <1>2, EnterStep
<1>. QED
    BY <1>1, <1>3 DEF Entered

\* Both blocks become successors of block b.
LEMMA BranchFlow ==
    ASSUME IInv, Entered(2), NextBlock \in Blocks', NextBlock + 1 \in Blocks',
           UNCHANGED <<closed, nodeBlock, top>>, NEW b \in Blocks,
           succ' = [Grown(succ, 2) EXCEPT ![b] = @ \o <<NextBlock, NextBlock + 1>>]
    PROVE  FlowOK'
<1>1. Blocks' = 0..(NextBlock + 2 - 1) /\ Blocks \subseteq Blocks' /\ ast' = ast
    BY DEF Entered
<1>. DEFINE t == <<NextBlock, NextBlock + 1>>
<1>2. t \in Seq(Blocks')
    OBVIOUS
<1>3. succ' = [Grown(succ, 2) EXCEPT ![b] = @ \o t]
    OBVIOUS
<1>. HIDE DEF t
<1>4. succ' \in [Blocks' -> Seq(Blocks')]
    BY <1>1, <1>2, <1>3, SuccAppended DEF IInv
<1>. QED
    BY <1>1, <1>4, FlowStays DEF IInv

LEMMA GenShortCircuitStep == IInv /\ GenShortCircuit => IInv'
<1>. SUFFICES ASSUME IInv, GenShortCircuit PROVE IInv'
    OBVIOUS
<1>. DEFINE t == IF ast[Top.node].kind = "AND" THEN <<NextBlock, NextBlock + 1>>
                                               ELSE <<NextBlock + 1, NextBlock>>
            ins == Instr("BRANCH", nextValue, <<KidResult(Top.node, 1)>>, t)
<1>1. worklist # <<>> /\ ast[Top.node].kind \in {"AND", "OR"}
    BY DEF GenShortCircuit, Turn
<1>2. Top.node \in Nodes /\ Top.block \in Blocks
    BY <1>1, TopAndRest
<1>3. KidResult(Top.node, 1) \in Int /\ Kid(Top.node, 2) \in Nodes
    <2>1. Arity(ast[Top.node].kind) = 2
        BY <1>1, Arities DEF BinaryKinds
    <2>. QED
        BY <1>2, <2>1, KidsAreNodes, KidResultsAreInts DEF IInv
<1>4. \/ t = <<NextBlock, NextBlock + 1>>
      \/ t = <<NextBlock + 1, NextBlock>>
    OBVIOUS
<1>5. Entering(2, Top.block, ins)
    <2>1. ins.id = nextValue /\ ins.op = "BRANCH"
        BY DEF Instr
    <2>. QED
        BY <1>1, <2>1 DEF GenShortCircuit, Turn, Entering, HeldOp
<1>. HIDE DEF t
<1>6. Entered(2) /\ NextBlock \in Blocks' /\ NextBlock + 1 \in Blocks'
    BY <1>2, <1>3, <1>4, <1>5, BranchEmitted
<1>7. FlowOK'
    BY <1>2, <1>6, BranchFlow DEF GenShortCircuit
<1>8. worklist' \in Seq(ReadyItems')
    <2>1. Item(Top.node, Top.block, 2) \in ReadyItems'
        BY <1>1, <1>6, EnteredItems
    <2>2. Item(Kid(Top.node, 2), NextBlock, 0) \in ReadyItems'
        BY <1>3, <1>6, EnteredItems
    <2>3. worklist' = Rest \o <<Item(Top.node, Top.block, 2),
                               Item(Kid(Top.node, 2), NextBlock, 0)>>
        BY DEF GenShortCircuit
    <2>4. Rest \in Seq(ReadyItems) /\ ReadyItems \subseteq ReadyItems'
        BY <1>6 DEF Entered
    <2>. QED
        BY <2>1, <2>2, <2>3, <2>4, PushTwo
<1>. QED
    BY <1>6, <1>7, <1>8 DEF IInv, Entered

LEMMA GenIfBranchStep == IInv /\ GenIfBranch => IInv'
<1>. SUFFICES ASSUME IInv, GenIfBranch PROVE IInv'
    OBVIOUS
<1>. DEFINE t == <<NextBlock, NextBlock + 1>>
            ins == Instr("BRANCH", nextValue, <<KidResult(Top.node, 1)>>, t)
<1>1. worklist # <<>> /\ ast[Top.node].kind = "IF"
    BY DEF GenIfBranch, Turn
<1>2. Top.node \in Nodes /\ Top.block \in Blocks
    BY <1>1, TopAndRest
<1>3. /\ KidResult(Top.node, 1) \in Int
      /\ Kid(Top.node, 2) \in Nodes /\ Kid(Top.node, 3) \in Nodes
    <2>1. Arity(ast[Top.node].kind) = 3
        BY <1>1, Arities DEF TernaryKinds
    <2>. QED
        BY <1>2, <2>1, KidsAreNodes, KidResultsAreInts DEF IInv
<1>4. \/ t = <<NextBlock, NextBlock + 1>>
      \/ t = <<NextBlock + 1, NextBlock>>
    OBVIOUS
<1>5. Entering(2, Top.block, ins)
    <2>1. ins.id = nextValue /\ ins.op = "BRANCH"
        BY DEF Instr
    <2>. QED
        BY <1>1, <2>1 DEF GenIfBranch, Turn, Entering, HeldOp
<1>. HIDE DEF t
<1>6. Entered(2) /\ NextBlock \in Blocks' /\ NextBlock + 1 \in Blocks'
    BY <1>2, <1>3, <1>4, <1>5, BranchEmitted
<1>7. FlowOK'
    BY <1>2, <1>6, BranchFlow DEF GenIfBranch
<1>8. worklist' \in Seq(ReadyItems')
    <2>1. Item(Top.node, Top.block, 2) \in ReadyItems'
        BY <1>1, <1>6, EnteredItems
    <2>2. /\ Item(Kid(Top.node, 3), NextBlock + 1, 0) \in ReadyItems'
          /\ Item(Kid(Top.node, 2), NextBlock, 0) \in ReadyItems'
        BY <1>3, <1>6, EnteredItems
    <2>3. worklist' = Rest \o <<Item(Top.node, Top.block, 2),
                               Item(Kid(Top.node, 3), NextBlock + 1, 0),
                               Item(Kid(Top.node, 2), NextBlock, 0)>>
        BY DEF GenIfBranch
    <2>4. Rest \in Seq(ReadyItems) /\ ReadyItems \subseteq ReadyItems'
        BY <1>6 DEF Entered
    <2>. QED
        BY <2>1, <2>2, <2>3, <2>4, PushThree
<1>. QED
    BY <1>6, <1>7, <1>8 DEF IInv, Entered

\* The BRANCH of a WHILE goes to the block where its condition ended.
LEMMA GenWhileBranchStep == IInv /\ GenWhileBranch => IInv'
<1>. SUFFICES ASSUME IInv, GenWhileBranch PROVE IInv'
    OBVIOUS
<1>. DEFINE end == nodeBlock[Top.node]
            t == <<NextBlock, NextBlock + 1>>
            ins == Instr("BRANCH", nextValue, <<KidResult(Top.node, 1)>>, t)
<1>1. worklist # <<>> /\ ast[Top.node].kind = "WHILE" /\ Top.state = 1
    BY DEF GenWhileBranch, Turn
<1>2. /\ Top.node \in Nodes /\ Top.block \in Blocks
      /\ end # NoBlock /\ top[Top.node] # NoBlock
    BY <1>1, TopAndRest DEF ItemReady
<1>3. end \in Blocks
    BY <1>2 DEF IInv, FlowOK
<1>4. KidResult(Top.node, 1) \in Int /\ Kid(Top.node, 2) \in Nodes
    <2>1. Arity(ast[Top.node].kind) = 2
        BY <1>1, Arities DEF BinaryKinds
    <2>. QED
        BY <1>2, <2>1, KidsAreNodes, KidResultsAreInts DEF IInv
<1>5. \/ t = <<NextBlock, NextBlock + 1>>
      \/ t = <<NextBlock + 1, NextBlock>>
    OBVIOUS
<1>6. Entering(2, end, ins)
    <2>1. ins.id = nextValue /\ ins.op = "BRANCH"
        BY DEF Instr
    <2>. QED
        BY <1>1, <2>1 DEF GenWhileBranch, Turn, Entering, HeldOp
<1>. HIDE DEF t, end
<1>7. Entered(2) /\ NextBlock \in Blocks' /\ NextBlock + 1 \in Blocks'
    BY <1>3, <1>4, <1>5, <1>6, BranchEmitted
<1>8. FlowOK'
    BY <1>2, <1>7, BranchFlow DEF GenWhileBranch, WhileFrom
<1>9. worklist' \in Seq(ReadyItems')
    <2>1. nodeBlock'[Top.node] # NoBlock /\ top'[Top.node] # NoBlock
        BY <1>2 DEF GenWhileBranch, end
    <2>2. Item(Top.node, Top.block, 2) \in ReadyItems'
        BY <1>1, <1>7, <2>1, EnteredItems
    <2>3. Item(Kid(Top.node, 2), NextBlock, 0) \in ReadyItems'
        BY <1>4, <1>7, EnteredItems
    <2>4. worklist' = Rest \o <<Item(Top.node, Top.block, 2),
                               Item(Kid(Top.node, 2), NextBlock, 0)>>
        BY DEF GenWhileBranch
    <2>5. Rest \in Seq(ReadyItems) /\ ReadyItems \subseteq ReadyItems'
        BY <1>7 DEF Entered
    <2>. QED
        BY <2>2, <2>3, <2>4, <2>5, PushTwo
<1>. QED
    BY <1>7, <1>8, <1>9 DEF IInv, Entered

\* The CONST_NULL and the JUMP to the block of the condition, which is the
\* only new one.
LEMMA GenWhileEnterStep == IInv /\ GenWhileEnter => IInv'
<1>. SUFFICES ASSUME IInv, GenWhileEnter PROVE IInv'
    OBVIOUS
<1>1. worklist # <<>> /\ walk = <<>> /\ ast[Top.node].kind = "WHILE"
    BY DEF GenWhileEnter, Turn
<1>2. Top.node \in Nodes /\ Top.block \in Blocks /\ Rest \in Seq(ReadyItems)
    BY <1>1, TopAndRest
<1>. DEFINE cond == NextBlock
            bs == 0..(NextBlock + 1 - 1)
            none == Const("CONST_NULL", nextValue, Null)
            jump == Instr("JUMP", nextValue + 1, <<>>, <<cond>>)
            s == <<none, jump>>
<1>3. /\ NextBlock \in Nat /\ nextValue \in Nat /\ Blocks = 0..(NextBlock - 1)
      /\ cond \in bs /\ Top.block \in bs /\ cond # NoBlock
    BY <1>2 DEF IInv, CodeInv, NoBlock
<1>4. /\ none \in ReadyInstructions(bs) /\ none.id = nextValue
      /\ jump \in ReadyInstructions(bs) /\ jump.id = nextValue + 1
    <2>1. "CONST_NULL" \in ConstOps /\ "JUMP" \in Ops \ {"BRANCH", "BLOCK"}
        BY DEF ConstOps, Ops, Leaving
    <2>2. nextValue + 1 \in Nat
        BY <1>3
    <2>3. <<cond>> \in Seq(bs) /\ <<>> \in Seq(Int)
        BY <1>3, EmptySeq
    <2>4. none \in ReadyInstructions(bs) /\ none.id = nextValue
        BY <1>3, <2>1, ConstReady
    <2>5. jump \in ReadyInstructions(bs) /\ jump.id = nextValue + 1
        <3>. DEFINE args == <<>>
                    blks == <<cond>>
        <3>1. args \in Seq(Int) /\ blks \in Seq(bs) /\ jump = Instr("JUMP", nextValue + 1, args, blks)
            BY <2>3
        <3>. HIDE DEF args, blks, jump
        <3>. QED
            BY <2>1, <2>2, <3>1, InstrReady
    <2>. QED
        BY <2>4, <2>5
<1>5. /\ code' = [Grown(code, 1) EXCEPT ![Top.block] = @ \o s]
      /\ nextValue' = nextValue + 2
    BY DEF GenWhileEnter
<1>. HIDE DEF none, jump
<1>6. /\ s \in Seq(ReadyInstructions(bs)) /\ Len(s) = 2
      /\ s[1] = none /\ s[2] = jump
    BY <1>4
<1>7. \A i \in 1..Len(s) : s[i].id = nextValue + (i - 1)
    BY <1>3, <1>4, <1>6
<1>8. nextValue' = nextValue + Len(s)
    BY <1>5, <1>6
<1>. HIDE DEF s
<1>9. CodeInv' /\ NextBlock' = NextBlock + 1 /\ Kept
    BY <1>3, <1>5, <1>6, <1>7, <1>8, Appended DEF IInv
<1>10. /\ Blocks' = bs /\ Blocks \subseteq Blocks'
       /\ cond \in Blocks' /\ Top.block \in Blocks'
    <2>1. Blocks' = 0..(NextBlock' - 1)
        BY <1>9 DEF CodeInv
    <2>2. NextBlock' - 1 = NextBlock + 1 - 1
        BY <1>3, <1>9
    <2>. QED
        BY <1>3, <1>9, <2>1, <2>2 DEF Kept
<1>11. ast' = ast /\ TreeInv' /\ Nodes' = Nodes
    BY DEF GenWhileEnter, IInv, TreeInv, Nodes
<1>12. FlowOK'
    <2>1. Grown(succ, 1) \in [Blocks' -> Seq(Blocks')]
        BY <1>10, SuccGrown DEF IInv
    <2>2. succ' = [Grown(succ, 1) EXCEPT ![Top.block] = Append(@, cond)]
        BY DEF GenWhileEnter
    <2>3. Append(Grown(succ, 1)[Top.block], cond) \in Seq(Blocks')
        BY <1>10, <2>1, AppendProperties
    <2>4. succ' \in [Blocks' -> Seq(Blocks')]
        BY <1>10, <2>1, <2>2, <2>3
    <2>5. closed' \subseteq Blocks'
        BY <1>10 DEF GenWhileEnter, IInv, FlowOK
    <2>6. /\ nodeBlock' = [nodeBlock EXCEPT ![Top.node] = cond]
          /\ top' = [top EXCEPT ![Top.node] = cond]
        BY DEF GenWhileEnter
    <2>7. /\ nodeBlock' \in [Nodes' -> Blocks' \cup {NoBlock}]
          /\ top' \in [Nodes' -> Blocks' \cup {NoBlock}]
        BY <1>10, <1>11, <2>6 DEF IInv, FlowOK
    <2>. QED
        BY <2>4, <2>5, <2>7 DEF FlowOK
<1>13. TablesOK'
    <2>1. result' = [result EXCEPT ![Top.node] = nextValue] /\ nextValue \in Int
        BY <1>3 DEF GenWhileEnter, SetResult
    <2>2. UNCHANGED <<held, symtab, varId>>
        BY DEF GenWhileEnter
    <2>. QED
        BY <1>11, <2>1, <2>2 DEF IInv, TablesOK
<1>14. ReadyItems \subseteq ReadyItems'
    <2>1. \A n \in Nodes : /\ nodeBlock'[n] = nodeBlock[n] \/ nodeBlock'[n] # NoBlock
                           /\ top'[n] = top[n] \/ top'[n] # NoBlock
                           /\ held'[n] = held[n]
        BY <1>3 DEF GenWhileEnter, IInv, FlowOK
    <2>. QED
        BY <1>9, <1>11, <2>1, ItemsStay DEF IInv
<1>15. worklist' \in Seq(ReadyItems')
    <2>1. nodeBlock'[Top.node] # NoBlock /\ top'[Top.node] # NoBlock
        BY <1>2, <1>3 DEF GenWhileEnter, IInv, FlowOK
    <2>2. Item(Top.node, Top.block, 1) \in ReadyItems'
        BY <1>1, <1>2, <1>10, <1>11, <2>1 DEF ReadyItems, ItemReady, Item
    <2>3. Arity("WHILE") = 2
        BY Arities DEF BinaryKinds
    <2>4. Kid(Top.node, 1) \in Nodes'
        BY <1>1, <1>2, <1>11, <2>3, KidsAreNodes DEF IInv
    <2>5. Item(Kid(Top.node, 1), cond, 0) \in ReadyItems'
        BY <1>10, <2>4 DEF ReadyItems, ItemReady, Item
    <2>6. worklist' = Rest \o <<Item(Top.node, Top.block, 1),
                               Item(Kid(Top.node, 1), cond, 0)>>
        BY DEF GenWhileEnter
    <2>. QED
        BY <1>2, <1>14, <2>2, <2>5, <2>6, PushTwo
<1>16. walk' \in Seq(ReadyFrames')
    BY WalkSame DEF GenWhileEnter, Turn
<1>. QED
    BY <1>9, <1>11, <1>12, <1>13, <1>15, <1>16 DEF IInv

-----------------------------------------------------------------------------
(* The steps that begin a walk. *)

\* The instruction that a node holds, and the blocks it names.
LEMMA HeldReady ==
    ASSUME CodeInv, NEW n, NEW ops, Holds(n, ops)
    PROVE  /\ HeldInstr(n).op \in ops
           /\ HeldInstr(n).id \in Int
           /\ HeldInstr(n).op = "BLOCK" => HeldInstr(n).blks[1] \in Blocks
           /\ HeldInstr(n).op = "BRANCH" => /\ HeldInstr(n).blks[1] \in Blocks
                                            /\ HeldInstr(n).blks[2] \in Blocks
<1>1. HeldInstr(n) \in ReadyInstructions(Blocks)
    BY BlockIsSeq DEF Holds, HeldInstr
<1>2. /\ HeldInstr(n) \in Instruction(Blocks)
      /\ Shaped(HeldInstr(n))
    BY <1>1 DEF ReadyInstructions
<1>3. HeldInstr(n).blks \in Seq(Blocks) /\ HeldInstr(n).id \in Nat
    BY <1>2 DEF Instruction
<1>4. HeldInstr(n).op \in ops
    BY DEF Holds
<1>5. /\ Len(HeldInstr(n).blks) = 1 => HeldInstr(n).blks[1] \in Blocks
      /\ Len(HeldInstr(n).blks) = 2 => /\ HeldInstr(n).blks[1] \in Blocks
                                       /\ HeldInstr(n).blks[2] \in Blocks
    BY <1>3, ElementOfSeq
<1>. QED
    BY <1>2, <1>3, <1>4, <1>5 DEF Shaped

\* The frames that the handlers make are ready.
LEMMA FrameTyped ==
    ASSUME NEW do \in (Walks \cup {"link", "rewrite"}) \ {"phi", "return"},
           NEW n \in Nodes', Holds(n, {"BRANCH"})',
           NEW b \in Blocks', NEW jump \in Blocks', jump # NoBlock
    PROVE  Frame(do, n, b, jump, 0, NoId) \in ReadyFrames'
BY DEF Frame, ReadyFrames, FrameReady, NoId

LEMMA PhiFrameTyped ==
    ASSUME NEW do \in {"phi", "rewrite"},
           NEW n \in Nodes', Holds(n, {"BRANCH"})',
           NEW b \in Blocks', NEW jump \in Blocks', jump # NoBlock, NEW at \in Nat,
           NEW v \in Int, at \in DOMAIN code'[jump], code'[jump][at].op = "PHI"
    PROVE  Frame(do, n, b, jump, at, v) \in ReadyFrames'
BY DEF Frame, ReadyFrames, FrameReady, Walks

LEMMA ReturnFrameTyped ==
    ASSUME NEW n \in Nodes', NEW b \in Blocks', NEW v \in Int
    PROVE  Frame("return", n, b, NoBlock, 0, v) \in ReadyFrames'
BY DEF Frame, ReadyFrames, FrameReady, Walks

\* What a node holds is what it was.
LEMMA StillHolds ==
    ASSUME Kept, UNCHANGED held, NEW n, NEW ops, Holds(n, ops)
    PROVE  Holds(n, ops)'
BY DEF Holds, HeldInstr, Kept

LEMMA GenBlockLeaveStep == IInv /\ GenBlockLeave => IInv'
<1>. SUFFICES ASSUME IInv, GenBlockLeave PROVE IInv'
    OBVIOUS
<1>1. worklist # <<>> /\ ast[Top.node].kind = "BLOCK" /\ Top.state = 1
    BY DEF GenBlockLeave, Turn
<1>2. /\ Top.node \in Nodes /\ Rest \in Seq(ReadyItems)
      /\ Holds(Top.node, {"BLOCK"})
    BY <1>1, TopAndRest DEF ItemReady
<1>3. /\ HeldInstr(Top.node).id \in Int
      /\ HeldInstr(Top.node).blks[1] \in Blocks
    BY <1>2, HeldReady DEF IInv
<1>4. KidResult(Top.node, 1) \in Int
    <2>1. Arity("BLOCK") = 1
        BY Arities DEF UnaryKinds
    <2>. QED
        BY <1>1, <1>2, <2>1, KidsAreNodes, KidResultsAreInts DEF IInv
<1>5. CodeInv' /\ Blocks' = Blocks /\ Kept
    BY CodeSame DEF GenBlockLeave, IInv
<1>6. TreeInv' /\ Nodes' = Nodes
    BY DEF GenBlockLeave, IInv, TreeInv, Nodes
<1>7. FlowOK'
    BY <1>5, <1>6 DEF GenBlockLeave, IInv, FlowOK
<1>8. TablesOK'
    BY <1>3, <1>6 DEF GenBlockLeave, IInv, TablesOK, SetResult
<1>9. ReadyItems \subseteq ReadyItems'
    BY <1>5, ItemsStay DEF GenBlockLeave, IInv
<1>10. worklist' \in Seq(ReadyItems')
    BY <1>2, <1>9, SeqMonotonic DEF GenBlockLeave
<1>11. walk' \in Seq(ReadyFrames')
    <2>1. walk' = <<Frame("return", Top.node, HeldInstr(Top.node).blks[1], NoBlock, 0,
                          KidResult(Top.node, 1))>>
        BY DEF GenBlockLeave
    <2>2. Frame("return", Top.node, HeldInstr(Top.node).blks[1], NoBlock, 0,
                KidResult(Top.node, 1)) \in ReadyFrames'
        BY <1>2, <1>3, <1>4, <1>5, <1>6, ReturnFrameTyped
    <2>. QED
        BY <2>1, <2>2
<1>. QED
    BY <1>5, <1>6, <1>7, <1>8, <1>10, <1>11 DEF IInv

LEMMA GenWhileLoopStep == IInv /\ GenWhileLoop => IInv'
<1>. SUFFICES ASSUME IInv, GenWhileLoop PROVE IInv'
    OBVIOUS
<1>1. worklist # <<>> /\ ast[Top.node].kind = "WHILE" /\ Top.state = 2
    BY DEF GenWhileLoop, Turn
<1>2. /\ Top.node \in Nodes /\ Top.block \in Blocks /\ Rest \in Seq(ReadyItems)
      /\ Holds(Top.node, {"BRANCH"}) /\ top[Top.node] # NoBlock
    BY <1>1, TopAndRest DEF ItemReady
<1>3. /\ HeldInstr(Top.node).blks[1] \in Blocks
      /\ HeldInstr(Top.node).blks[2] \in Blocks
    BY <1>2, HeldReady DEF IInv
<1>4. top[Top.node] \in Blocks
    BY <1>2 DEF IInv, FlowOK
<1>5. CodeInv' /\ Blocks' = Blocks /\ Kept
    BY CodeSame DEF GenWhileLoop, IInv
<1>6. TreeInv' /\ Nodes' = Nodes
    BY DEF GenWhileLoop, IInv, TreeInv, Nodes
<1>7. FlowOK' /\ TablesOK'
    BY <1>5, <1>6 DEF GenWhileLoop, IInv, FlowOK, TablesOK
<1>8. ReadyItems \subseteq ReadyItems'
    BY <1>5, ItemsStay DEF GenWhileLoop, IInv
<1>9. worklist' \in Seq(ReadyItems')
    BY <1>2, <1>8, SeqMonotonic DEF GenWhileLoop
<1>10. walk' \in Seq(ReadyFrames')
    <2>. DEFINE body == HeldInstr(Top.node).blks[1]
                exit == HeldInstr(Top.node).blks[2]
    <2>1. body \in Blocks' /\ exit \in Blocks' /\ exit # NoBlock
        BY <1>3, <1>5, NoBlockIsNone DEF IInv
    <2>2. PICK n \in Nodes : n = Top.node
        BY <1>2
    <2>3. n \in Nodes' /\ Holds(n, {"BRANCH"})'
        BY <1>2, <1>5, <1>6, <2>2, StillHolds DEF GenWhileLoop
    <2>4. walk' = <<Frame("jump", n, body, top[Top.node], 0, NoId),
                    Frame("rewrite", n, Top.block, exit, 0, NoId)>>
        BY <2>2 DEF GenWhileLoop
    <2>. HIDE DEF body, exit
    <2>5. Frame("jump", n, body, top[Top.node], 0, NoId) \in ReadyFrames'
        BY <1>2, <1>4, <1>5, <2>1, <2>3, FrameTyped DEF Walks
    <2>6. Frame("rewrite", n, Top.block, exit, 0, NoId) \in ReadyFrames'
        BY <1>2, <1>5, <2>1, <2>3, FrameTyped
    <2>. QED
        BY <2>4, <2>5, <2>6
<1>. QED
    BY <1>5, <1>6, <1>7, <1>9, <1>10 DEF IInv

\* A PHI with its first value.
LEMMA PhiReady ==
    ASSUME NEW bs, NEW id \in Nat, NEW value \in Int, NEW b \in bs
    PROVE  /\ Instr("PHI", id, <<value>>, <<b>>) \in ReadyInstructions(bs)
           /\ Instr("PHI", id, <<value>>, <<b>>).id = id
           /\ Instr("PHI", id, <<value>>, <<b>>).op = "PHI"
<1>1. "PHI" \in Ops \ {"BRANCH", "BLOCK"}
    BY DEF Ops
<1>. DEFINE args == <<value>>
            blks == <<b>>
<1>2. args \in Seq(Int) /\ blks \in Seq(bs)
    OBVIOUS
<1>. HIDE DEF args, blks
<1>3. /\ Instr("PHI", id, args, blks) \in ReadyInstructions(bs)
      /\ Instr("PHI", id, args, blks).id = id
      /\ Instr("PHI", id, args, blks).op = "PHI"
    BY <1>1, <1>2, InstrReady
<1>. QED
    BY <1>3 DEF args, blks

LEMMA GenShortCircuitMergeStep == IInv /\ GenShortCircuitMerge => IInv'
<1>. SUFFICES ASSUME IInv, GenShortCircuitMerge PROVE IInv'
    OBVIOUS
<1>. DEFINE eval == Evaluated(Top.node)
            merge == Merged(Top.node)
            phi == Instr("PHI", nextValue, <<KidResult(Top.node, 1)>>, <<Top.block>>)
            at == Len(code[merge]) + 1
<1>1. /\ worklist # <<>> /\ ast[Top.node].kind \in {"AND", "OR"} /\ Top.state = 2
    BY DEF GenShortCircuitMerge, Turn
<1>2. /\ Top.node \in Nodes /\ Top.block \in Blocks /\ Rest \in Seq(ReadyItems)
      /\ Holds(Top.node, {"BRANCH"})
    BY <1>1, TopAndRest DEF ItemReady
<1>3. eval \in Blocks /\ merge \in Blocks /\ merge # NoBlock
    BY <1>2, HeldReady, NoBlockIsNone DEF IInv, Evaluated, Merged
<1>4. KidResult(Top.node, 1) \in Int /\ KidResult(Top.node, 2) \in Int
    <2>1. Arity(ast[Top.node].kind) = 2
        BY <1>1, Arities DEF BinaryKinds
    <2>. QED
        BY <1>2, <2>1, KidsAreNodes, KidResultsAreInts DEF IInv
<1>5. nextValue \in Nat
    BY DEF IInv, CodeInv
<1>6. /\ phi \in ReadyInstructions(Blocks)
      /\ phi.id = nextValue /\ phi.op = "PHI"
    BY <1>2, <1>4, <1>5, PhiReady
<1>7. Emit(code, merge, phi)
    BY DEF GenShortCircuitMerge
<1>. HIDE DEF phi, eval, merge
<1>8. /\ CodeInv' /\ Blocks' = Blocks /\ Kept
      /\ at \in DOMAIN code'[merge] /\ code'[merge][at] = phi
    BY <1>3, <1>6, <1>7, EmittedHere DEF IInv
<1>9. TreeInv' /\ Nodes' = Nodes
    BY DEF GenShortCircuitMerge, IInv, TreeInv, Nodes
<1>10. FlowOK'
    BY <1>8, <1>9 DEF GenShortCircuitMerge, IInv, FlowOK
<1>11. TablesOK'
    <2>1. result' = [result EXCEPT ![Top.node] = nextValue] /\ nextValue \in Int
        BY <1>5 DEF GenShortCircuitMerge, SetResult
    <2>2. UNCHANGED <<held, symtab, varId>>
        BY DEF GenShortCircuitMerge
    <2>. QED
        BY <1>9, <2>1, <2>2 DEF IInv, TablesOK
<1>12. ReadyItems \subseteq ReadyItems'
    BY <1>8, ItemsStay DEF GenShortCircuitMerge, IInv
<1>13. worklist' \in Seq(ReadyItems')
    BY <1>2, <1>12, SeqMonotonic DEF GenShortCircuitMerge
<1>14. walk' \in Seq(ReadyFrames')
    <2>1. at \in Nat
        BY <1>3, BlockIsSeq DEF IInv
    <2>2. PICK n \in Nodes : n = Top.node
        BY <1>2
    <2>3. n \in Nodes' /\ Holds(n, {"BRANCH"})'
        BY <1>2, <1>8, <1>9, <2>2, StillHolds DEF GenShortCircuitMerge
    <2>4. Frame("phi", n, eval, merge, at, KidResult(Top.node, 2)) \in ReadyFrames'
        BY <1>3, <1>4, <1>6, <1>8, <2>1, <2>3, PhiFrameTyped
    <2>5. Frame("link", n, eval, merge, 0, NoId) \in ReadyFrames'
        BY <1>3, <1>8, <2>3, FrameTyped
    <2>6. Frame("rewrite", n, Top.block, merge, 0, NoId) \in ReadyFrames'
        BY <1>2, <1>3, <1>8, <2>3, FrameTyped
    <2>7. walk' = <<Frame("phi", n, eval, merge, at, KidResult(Top.node, 2)),
                    Frame("link", n, eval, merge, 0, NoId),
                    Frame("rewrite", n, Top.block, merge, 0, NoId)>>
        BY <2>2 DEF GenShortCircuitMerge, eval, merge
    <2>. QED
        BY <2>4, <2>5, <2>6, <2>7
<1>. QED
    BY <1>8, <1>9, <1>10, <1>11, <1>13, <1>14 DEF IInv

LEMMA GenIfMergeStep == IInv /\ GenIfMerge => IInv'
<1>. SUFFICES ASSUME IInv, GenIfMerge PROVE IInv'
    OBVIOUS
<1>. DEFINE then == HeldInstr(Top.node).blks[1]
            else == HeldInstr(Top.node).blks[2]
            merge == NextBlock
            bs == 0..(NextBlock + 1 - 1)
            phi == Instr("PHI", nextValue, <<>>, <<>>)
<1>1. worklist # <<>> /\ ast[Top.node].kind = "IF" /\ Top.state = 2
    BY DEF GenIfMerge, Turn
<1>2. /\ Top.node \in Nodes /\ Top.block \in Blocks /\ Rest \in Seq(ReadyItems)
      /\ Holds(Top.node, {"BRANCH"})
    BY <1>1, TopAndRest DEF ItemReady
<1>3. then \in Blocks /\ else \in Blocks
    BY <1>2, HeldReady DEF IInv
<1>4. KidResult(Top.node, 2) \in Int /\ KidResult(Top.node, 3) \in Int
    <2>1. Arity(ast[Top.node].kind) = 3
        BY <1>1, Arities DEF TernaryKinds
    <2>. QED
        BY <1>2, <2>1, KidsAreNodes, KidResultsAreInts DEF IInv
<1>5. /\ nextValue \in Nat /\ NextBlock \in Nat /\ Blocks = 0..(NextBlock - 1)
      /\ merge \in bs /\ merge # NoBlock /\ merge \notin Blocks
    BY DEF IInv, CodeInv, NoBlock
<1>6. phi \in ReadyInstructions(bs) /\ phi.id = nextValue /\ phi.op = "PHI"
    <2>1. "PHI" \in Ops \ {"BRANCH", "BLOCK"} /\ <<>> \in Seq(Int)
        BY EmptySeq DEF Ops
    <2>2. phi.op = "PHI"
        BY DEF Instr
    <2>. QED
        BY <1>5, <2>1, <2>2, PlainReady
<1>7. Emit(Grown(code, 1), merge, phi)
    BY DEF GenIfMerge
<1>. HIDE DEF phi, then, else
<1>8. Grown(code, 1)[merge] = <<>>
    BY <1>5 DEF Grown
<1>9. /\ CodeInv' /\ NextBlock' = NextBlock + 1 /\ Kept
      /\ Len(Grown(code, 1)[merge]) + 1 \in DOMAIN code'[merge]
      /\ code'[merge][Len(Grown(code, 1)[merge]) + 1] = phi
    BY <1>5, <1>6, <1>7, Emitted DEF IInv
<1>10. 1 \in DOMAIN code'[merge] /\ code'[merge][1].op = "PHI"
    <2>1. Len(Grown(code, 1)[merge]) + 1 = 1
        BY <1>8
    <2>. QED
        BY <1>6, <1>9, <2>1
<1>11. Blocks' = bs /\ Blocks \subseteq Blocks' /\ merge \in Blocks'
    <2>1. Blocks' = 0..(NextBlock' - 1)
        BY <1>9 DEF CodeInv
    <2>2. NextBlock' - 1 = NextBlock + 1 - 1
        BY <1>5, <1>9
    <2>. QED
        BY <1>5, <1>9, <2>1, <2>2 DEF Kept
<1>12. TreeInv' /\ Nodes' = Nodes
    BY DEF GenIfMerge, IInv, TreeInv, Nodes
<1>13. FlowOK'
    <2>1. succ' \in [Blocks' -> Seq(Blocks')]
        BY <1>11, SuccGrown DEF GenIfMerge, IInv
    <2>. QED
        BY <1>11, <2>1, FlowStays DEF GenIfMerge, IInv
<1>14. TablesOK'
    <2>1. result' = [result EXCEPT ![Top.node] = nextValue] /\ nextValue \in Int
        BY <1>5 DEF GenIfMerge, SetResult
    <2>2. UNCHANGED <<held, symtab, varId>>
        BY DEF GenIfMerge
    <2>. QED
        BY <1>12, <2>1, <2>2 DEF IInv, TablesOK
<1>15. ReadyItems \subseteq ReadyItems'
    BY <1>9, ItemsStay DEF GenIfMerge, IInv
<1>16. worklist' \in Seq(ReadyItems')
    BY <1>2, <1>15, SeqMonotonic DEF GenIfMerge
<1>17. walk' \in Seq(ReadyFrames')
    <2>1. PICK n \in Nodes : n = Top.node
        BY <1>2
    <2>2. n \in Nodes' /\ Holds(n, {"BRANCH"})'
        BY <1>2, <1>9, <1>12, <2>1, StillHolds DEF GenIfMerge
    <2>. DEFINE phi1 == Frame("phi", n, then, merge, 1, KidResult(Top.node, 2))
                phi2 == Frame("phi", n, else, merge, 1, KidResult(Top.node, 3))
                link1 == Frame("link", n, then, merge, 0, NoId)
                link2 == Frame("link", n, else, merge, 0, NoId)
                move == Frame("rewrite", n, Top.block, merge, 1, NoId)
    <2>3. then \in Blocks' /\ else \in Blocks' /\ Top.block \in Blocks'
        BY <1>2, <1>3, <1>11
    <2>4. phi1 \in ReadyFrames' /\ phi2 \in ReadyFrames' /\ move \in ReadyFrames'
        BY <1>4, <1>5, <1>10, <1>11, <2>2, <2>3, PhiFrameTyped DEF NoId
    <2>5. link1 \in ReadyFrames' /\ link2 \in ReadyFrames'
        BY <1>5, <1>11, <2>2, <2>3, FrameTyped
    <2>6. walk' = <<phi1, phi2, link1, link2, move>>
        BY <2>1 DEF GenIfMerge, then, else
    <2>. HIDE DEF phi1, phi2, link1, link2, move
    <2>. QED
        BY <2>4, <2>5, <2>6
<1>. QED
    BY <1>9, <1>12, <1>13, <1>14, <1>16, <1>17 DEF IInv

-----------------------------------------------------------------------------
(* The steps of a walk. *)

\* The frame that runs, and those below it.
LEMMA CallReady ==
    ASSUME IInv, walk # <<>>
    PROVE  /\ Call \in ReadyFrames /\ FrameReady(Call)
           /\ Call \in [do : Walks \cup {"link", "rewrite"}, node : Nodes, block : Blocks,
                        jump : Blocks \cup {NoBlock}, at : Nat, value : Int]
           /\ Tail(walk) \in Seq(ReadyFrames)
<1>1. walk \in Seq(ReadyFrames)
    BY DEF IInv
<1>2. Call \in ReadyFrames /\ Tail(walk) \in Seq(ReadyFrames)
    BY <1>1, HeadTailProperties DEF Call
<1>. QED
    BY <1>2 DEF ReadyFrames

\* c has the instructions of the code, with other operands.
Alike(c) ==
    /\ c \in [Blocks -> Seq(ReadyInstructions(Blocks))]
    /\ \A x \in Blocks :
          /\ DOMAIN c[x] = DOMAIN code[x]
          /\ \A i \in DOMAIN code[x] : /\ c[x][i].id = code[x][i].id
                                       /\ c[x][i].op = code[x][i].op

LEMMA EmittedOver ==
    ASSUME CodeInv, NEW c, Alike(c), NEW b \in Blocks,
           NEW ins \in ReadyInstructions(Blocks), ins.id = nextValue,
           Emit(c, b, ins)
    PROVE  CodeInv' /\ Blocks' = Blocks /\ Kept
<1>1. /\ NextBlock \in Nat /\ Blocks = 0..(NextBlock - 1) /\ nextValue \in Nat
      /\ c \in [Blocks -> Seq(ReadyInstructions(Blocks))]
    BY DEF CodeInv, Alike
<1>2. /\ code' = [c EXCEPT ![b] = Append(@, ins)]
      /\ nextValue' = nextValue + 1
    BY DEF Emit
<1>3. \A x \in Blocks : /\ Len(c[x]) \in Nat
                        /\ DOMAIN c[x] = 1..Len(c[x])
    BY <1>1, LenProperties
<1>4. /\ Append(c[b], ins) \in Seq(ReadyInstructions(Blocks))
      /\ Len(Append(c[b], ins)) = Len(c[b]) + 1
      /\ \A i \in 1..(Len(c[b]) + 1) :
            Append(c[b], ins)[i] = IF i = Len(c[b]) + 1 THEN ins ELSE c[b][i]
    BY <1>1, AppendProperties
<1>5. code' \in [Blocks -> Seq(ReadyInstructions(Blocks))]
    BY <1>1, <1>2, <1>4
<1>6. Blocks' = Blocks /\ NextBlock' = NextBlock
    BY <1>5 DEF Blocks, NextBlock
<1>7. /\ code'[b] = Append(c[b], ins)
      /\ \A x \in Blocks : x # b => code'[x] = c[x]
    BY <1>1, <1>2
<1>8. DOMAIN code'[b] = 1..(Len(c[b]) + 1)
    BY <1>4, <1>7, LenProperties
<1>9. ASSUME NEW x \in Blocks, NEW i \in DOMAIN code'[x]
      PROVE  \/ i \in DOMAIN c[x] /\ code'[x][i] = c[x][i]
             \/ x = b /\ i = Len(c[b]) + 1 /\ code'[x][i] = ins
    <2>1. CASE x # b
        BY <1>7, <2>1
    <2>2. CASE x = b /\ i = Len(c[b]) + 1
        BY <1>4, <1>7, <1>8, <2>2
    <2>3. CASE x = b /\ i # Len(c[b]) + 1
        BY <1>3, <1>4, <1>7, <1>8, <2>3
    <2>. QED
        BY <2>1, <2>2, <2>3
<1>10. UniqueIds'
    <2>1. Numbered(c, nextValue)
        <3>1. \A x \in Blocks : \A i \in DOMAIN code[x] : code[x][i].id \in Nat
            BY BlockIsSeq DEF ReadyInstructions, Instruction
        <3>2. DOMAIN c = Blocks
            BY <1>1
        <3>. QED
            <4>. SUFFICES ASSUME NEW x \in Blocks, NEW y \in Blocks,
                                 NEW i \in DOMAIN c[x], NEW j \in DOMAIN c[y]
                          PROVE  /\ c[x][i].id \in Nat /\ c[x][i].id < nextValue
                                 /\ c[x][i].id = c[y][j].id => x = y /\ i = j
                BY <3>2 DEF Numbered
            <4>1. /\ i \in DOMAIN code[x] /\ c[x][i].id = code[x][i].id
                  /\ j \in DOMAIN code[y] /\ c[y][j].id = code[y][j].id
                BY DEF Alike
            <4>2. /\ code[x][i].id < nextValue
                  /\ code[x][i].id = code[y][j].id => x = y /\ i = j
                BY <4>1 DEF CodeInv, UniqueIds
            <4>. QED
                BY <3>1, <4>1, <4>2
    <2>2. Continued(c, code', nextValue, 1, b, Len(c[b]))
        <3>. SUFFICES ASSUME NEW x \in DOMAIN code', NEW i \in DOMAIN code'[x]
                      PROVE  \/ /\ x \in DOMAIN c /\ i \in DOMAIN c[x]
                                /\ code'[x][i].id = c[x][i].id
                             \/ /\ x = b /\ i \in (Len(c[b]) + 1)..(Len(c[b]) + 1)
                                /\ code'[x][i].id = nextValue + ((i - Len(c[b])) - 1)
            BY DEF Continued
        <3>1. x \in Blocks /\ x \in DOMAIN c
            BY <1>1, <1>5
        <3>2. CASE i \in DOMAIN c[x] /\ code'[x][i] = c[x][i]
            BY <3>1, <3>2
        <3>3. CASE x = b /\ i = Len(c[b]) + 1 /\ code'[x][i] = ins
            BY <1>1, <1>3, <3>3
        <3>. QED
            BY <1>9, <3>1, <3>2, <3>3
    <2>3. Numbered(code', nextValue + 1)
        BY <1>1, <1>3, <2>1, <2>2, FreshIds
    <2>. QED
        BY <1>2, <2>3 DEF Numbered, UniqueIds, Blocks
<1>11. Kept
    <2>. SUFFICES ASSUME NEW x \in Blocks, NEW i \in DOMAIN code[x]
                  PROVE  i \in DOMAIN code'[x] /\ code'[x][i].op = code[x][i].op
        BY <1>6 DEF Kept
    <2>1. i \in DOMAIN c[x] /\ c[x][i].op = code[x][i].op
        BY DEF Alike
    <2>2. CASE x # b
        BY <1>7, <2>1, <2>2
    <2>3. CASE x = b
        BY <1>3, <1>4, <1>7, <1>8, <2>1, <2>3
    <2>. QED
        BY <2>2, <2>3
<1>12. CodeInv'
    <2>1. nextValue' \in Nat
        BY <1>1, <1>2
    <2>. QED
        BY <1>1, <1>5, <1>6, <1>10, <2>1 DEF CodeInv
<1>. QED
    BY <1>6, <1>11, <1>12

\* A PHI with one more value is a PHI.
LEMMA PhiFilled ==
    ASSUME CodeInv, NEW p \in Blocks, NEW at \in DOMAIN code[p],
           code[p][at].op = "PHI", NEW v \in Int, NEW b \in Blocks
    PROVE  Alike([code EXCEPT ![p][at].args = Append(@, v),
                              ![p][at].blks = Append(@, b)])
<1>. DEFINE old == code[p][at]
            phi == [old EXCEPT !.args = Append(@, v), !.blks = Append(@, b)]
            c == [code EXCEPT ![p] = [code[p] EXCEPT ![at] = phi]]
<1>1. /\ code \in [Blocks -> Seq(ReadyInstructions(Blocks))]
      /\ code[p] \in Seq(ReadyInstructions(Blocks))
      /\ DOMAIN code[p] = 1..Len(code[p])
      /\ old \in Instruction(Blocks)
    BY BlockIsSeq DEF CodeInv, ReadyInstructions
<1>2. [code EXCEPT ![p][at].args = Append(@, v), ![p][at].blks = Append(@, b)] = c
    BY <1>1
<1>3. /\ phi \in Instruction(Blocks)
      /\ phi.id = old.id /\ phi.op = old.op
    <2>1. Append(old.args, v) \in Seq(Int) /\ Append(old.blks, b) \in Seq(Blocks)
        BY <1>1, AppendProperties DEF Instruction
    <2>2. ASSUME NEW r \in Instruction(Blocks), NEW x \in Seq(Int), NEW y \in Seq(Blocks)
          PROVE  /\ [r EXCEPT !.args = x, !.blks = y] \in Instruction(Blocks)
                 /\ [r EXCEPT !.args = x, !.blks = y].id = r.id
                 /\ [r EXCEPT !.args = x, !.blks = y].op = r.op
        BY DEF Instruction
    <2>3. phi = [old EXCEPT !.args = Append(old.args, v), !.blks = Append(old.blks, b)]
        BY <1>1 DEF Instruction
    <2>. DEFINE x == Append(old.args, v)
                y == Append(old.blks, b)
    <2>4. x \in Seq(Int) /\ y \in Seq(Blocks) /\ old \in Instruction(Blocks)
        BY <1>1, <2>1
    <2>5. phi = [old EXCEPT !.args = x, !.blks = y]
        BY <2>3
    <2>. HIDE DEF x, y, old
    <2>6. /\ [old EXCEPT !.args = x, !.blks = y] \in Instruction(Blocks)
          /\ [old EXCEPT !.args = x, !.blks = y].id = old.id
          /\ [old EXCEPT !.args = x, !.blks = y].op = old.op
        BY <2>2, <2>4
    <2>. HIDE DEF phi
    <2>. QED
        BY <2>5, <2>6
<1>4. phi \in ReadyInstructions(Blocks)
    BY <1>3 DEF Shaped, ReadyInstructions
<1>5. phi.id = old.id /\ phi.op = old.op
    BY <1>3
<1>. HIDE DEF phi
<1>6. [code[p] EXCEPT ![at] = phi] \in Seq(ReadyInstructions(Blocks))
    BY <1>1, <1>4, ExceptSeq
<1>7. c \in [Blocks -> Seq(ReadyInstructions(Blocks))]
    BY <1>1, <1>6
<1>8. ASSUME NEW x \in Blocks
      PROVE  /\ DOMAIN c[x] = DOMAIN code[x]
             /\ \A i \in DOMAIN code[x] : /\ c[x][i].id = code[x][i].id
                                          /\ c[x][i].op = code[x][i].op
    <2>1. CASE x # p
        BY <1>1, <2>1
    <2>2. CASE x = p
        BY <1>1, <1>5, <2>2
    <2>. QED
        BY <2>1, <2>2
<1>9. Alike(c)
    BY <1>7, <1>8 DEF Alike
<1>. QED
    BY <1>2, <1>9

LEMMA WalkJumpStep == IInv /\ WalkJump => IInv'
<1>. SUFFICES ASSUME IInv, WalkJump PROVE IInv'
    OBVIOUS
<1>. DEFINE b == Call.block
            to == Call.jump
            c == IF Call.do = "jump" THEN code
                 ELSE [code EXCEPT ![to][Call.at].args = Append(@, Call.value),
                                   ![to][Call.at].blks = Append(@, b)]
            jump == Instr("JUMP", nextValue, <<>>, <<to>>)
<1>1. walk # <<>> /\ Call.do \in {"phi", "jump"}
    BY DEF WalkJump, Walking
<1>2. /\ b \in Blocks /\ to \in Blocks /\ Call.value \in Int
      /\ Tail(walk) \in Seq(ReadyFrames)
    BY <1>1, CallReady DEF FrameReady
<1>3. Alike(c)
    <2>1. CASE Call.do = "jump"
        BY <2>1 DEF IInv, CodeInv, Alike
    <2>2. CASE Call.do # "jump"
        <3>1. Call.at \in DOMAIN code[to] /\ code[to][Call.at].op = "PHI"
            BY <1>1, <2>2, CallReady DEF FrameReady
        <3>2. Alike([code EXCEPT ![to][Call.at].args = Append(@, Call.value),
                                 ![to][Call.at].blks = Append(@, b)])
            BY <1>2, <3>1, PhiFilled DEF IInv
        <3>. QED
            BY <2>2, <3>2
    <2>. QED
        BY <2>1, <2>2
<1>4. nextValue \in Nat
    BY DEF IInv, CodeInv
<1>5. jump \in ReadyInstructions(Blocks) /\ jump.id = nextValue
    <2>. DEFINE args == <<>>
                blks == <<to>>
    <2>1. args \in Seq(Int) /\ blks \in Seq(Blocks)
        BY <1>2, EmptySeq
    <2>2. "JUMP" \in Ops \ {"BRANCH", "BLOCK"}
        BY DEF Ops, Leaving
    <2>. HIDE DEF args, blks
    <2>3. /\ Instr("JUMP", nextValue, args, blks) \in ReadyInstructions(Blocks)
          /\ Instr("JUMP", nextValue, args, blks).id = nextValue
        BY <1>4, <2>1, <2>2, InstrReady
    <2>. QED
        BY <2>3 DEF args, blks
<1>6. Emit(c, b, jump)
    BY DEF WalkJump
<1>. HIDE DEF c, jump
<1>7. CodeInv' /\ Blocks' = Blocks /\ Kept
    BY <1>2, <1>3, <1>5, <1>6, EmittedOver DEF IInv
<1>8. TreeInv' /\ Nodes' = Nodes
    BY DEF WalkJump, IInv, TreeInv, Nodes
<1>9. FlowOK'
    <2>1. succ' \in [Blocks' -> Seq(Blocks')]
        BY <1>2, <1>7, AppendProperties DEF WalkJump, IInv, FlowOK
    <2>. QED
        BY <1>7, <2>1, FlowStays DEF WalkJump, IInv
<1>10. TablesOK'
    BY <1>8 DEF WalkJump, IInv, TablesOK
<1>11. ReadyItems \subseteq ReadyItems'
    BY <1>7, ItemsStay DEF WalkJump, IInv
<1>12. worklist' \in Seq(ReadyItems')
    BY <1>11, SeqMonotonic DEF WalkJump, IInv
<1>13. walk' \in Seq(ReadyFrames')
    <2>1. ReadyFrames \subseteq ReadyFrames'
        BY <1>7, FramesStay, NoBlockIsNone DEF IInv, WalkJump
    <2>. QED
        BY <1>2, <2>1, SeqMonotonic DEF WalkJump
<1>. QED
    BY <1>7, <1>8, <1>9, <1>10, <1>12, <1>13 DEF IInv

LEMMA WalkReturnStep == IInv /\ WalkReturn => IInv'
<1>. SUFFICES ASSUME IInv, WalkReturn PROVE IInv'
    OBVIOUS
<1>. DEFINE ret == Instr("RETURN", nextValue, <<Call.value>>, <<>>)
<1>1. walk # <<>>
    BY DEF WalkReturn, Walking
<1>2. /\ Call.block \in Blocks /\ Call.value \in Int
      /\ Tail(walk) \in Seq(ReadyFrames)
    BY <1>1, CallReady
<1>3. nextValue \in Nat
    BY DEF IInv, CodeInv
<1>4. ret \in ReadyInstructions(Blocks) /\ ret.id = nextValue
    <2>. DEFINE args == <<Call.value>>
    <2>1. args \in Seq(Int)
        BY <1>2
    <2>2. "RETURN" \in Ops \ {"BRANCH", "BLOCK"}
        BY DEF Ops, Leaving
    <2>. HIDE DEF args
    <2>3. /\ Instr("RETURN", nextValue, args, <<>>) \in ReadyInstructions(Blocks)
          /\ Instr("RETURN", nextValue, args, <<>>).id = nextValue
        BY <1>3, <2>1, <2>2, PlainReady
    <2>. QED
        BY <2>3 DEF args
<1>5. Emit(code, Call.block, ret)
    BY DEF WalkReturn
<1>. HIDE DEF ret
<1>6. CodeInv' /\ Blocks' = Blocks /\ Kept
    BY <1>2, <1>4, <1>5, EmittedHere DEF IInv
<1>7. TreeInv' /\ Nodes' = Nodes
    BY DEF WalkReturn, IInv, TreeInv, Nodes
<1>8. FlowOK'
    BY <1>2, <1>6, <1>7 DEF WalkReturn, IInv, FlowOK
<1>9. TablesOK'
    BY <1>7 DEF WalkReturn, IInv, TablesOK
<1>10. ReadyItems \subseteq ReadyItems'
    BY <1>6, ItemsStay DEF WalkReturn, IInv
<1>11. worklist' \in Seq(ReadyItems')
    BY <1>10, SeqMonotonic DEF WalkReturn, IInv
<1>12. walk' \in Seq(ReadyFrames')
    <2>1. ReadyFrames \subseteq ReadyFrames'
        BY <1>6, FramesStay, NoBlockIsNone DEF IInv, WalkReturn
    <2>. QED
        BY <1>2, <2>1, SeqMonotonic DEF WalkReturn
<1>. QED
    BY <1>6, <1>7, <1>8, <1>9, <1>11, <1>12 DEF IInv

\* The steps that change neither the code nor the results.
LEMMA QuietStep ==
    ASSUME IInv,
           UNCHANGED <<ast, code, nextValue, closed, result, held, top, symtab, varId>>,
           succ' \in [Blocks -> Seq(Blocks)],
           nodeBlock' \in [Nodes -> Blocks \cup {NoBlock}],
           \A n \in Nodes : nodeBlock'[n] = nodeBlock[n] \/ nodeBlock'[n] # NoBlock,
           worklist' \in Seq(ReadyItems) \/ worklist' \in Seq(ReadyItems'),
           walk' \in Seq(ReadyFrames)
    PROVE  IInv'
<1>1. CodeInv' /\ Blocks' = Blocks /\ Kept
    BY CodeSame DEF IInv
<1>2. TreeInv' /\ Nodes' = Nodes
    BY DEF IInv, TreeInv, Nodes
<1>3. FlowOK'
    BY <1>1, <1>2 DEF IInv, FlowOK
<1>4. TablesOK'
    BY <1>2 DEF IInv, TablesOK
<1>5. ReadyItems \subseteq ReadyItems'
    BY <1>1, ItemsStay DEF IInv
<1>6. worklist' \in Seq(ReadyItems')
    BY <1>5, SeqMonotonic
<1>7. walk' \in Seq(ReadyFrames')
    <2>1. ReadyFrames \subseteq ReadyFrames'
        BY <1>1, FramesStay, NoBlockIsNone DEF IInv
    <2>. QED
        BY <2>1, SeqMonotonic
<1>. QED
    BY <1>1, <1>2, <1>3, <1>4, <1>6, <1>7 DEF IInv

\* What the flow says of the variables a step of a walk leaves alone.
LEMMA FlowParts ==
    ASSUME IInv
    PROVE  /\ succ \in [Blocks -> Seq(Blocks)]
           /\ nodeBlock \in [Nodes -> Blocks \cup {NoBlock}]
           /\ worklist \in Seq(ReadyItems)
BY DEF IInv, FlowOK

\* Every successor gets a frame like the one that is replaced.
LEMMA WalkDescendStep == IInv /\ WalkDescend => IInv'
<1>. SUFFICES ASSUME IInv, WalkDescend PROVE IInv'
    OBVIOUS
<1>1. walk # <<>>
    BY DEF WalkDescend, Walking
<1>. DEFINE next == succ[Call.block]
            frames == [i \in DOMAIN next |-> [Call EXCEPT !.block = next[i]]]
<1>2. /\ Call.block \in Blocks /\ FrameReady(Call)
      /\ Call \in [do : Walks \cup {"link", "rewrite"}, node : Nodes, block : Blocks,
                   jump : Blocks \cup {NoBlock}, at : Nat, value : Int]
      /\ Tail(walk) \in Seq(ReadyFrames)
    BY <1>1, CallReady
<1>3. next \in Seq(Blocks)
    BY <1>2, FlowParts
<1>4. ASSUME NEW b \in Blocks
      PROVE  [Call EXCEPT !.block = b] \in ReadyFrames
    <2>. DEFINE f == [Call EXCEPT !.block = b]
    <2>1. f \in [do : Walks \cup {"link", "rewrite"}, node : Nodes, block : Blocks,
                 jump : Blocks \cup {NoBlock}, at : Nat, value : Int]
        BY <1>2
    <2>2. f.do = Call.do /\ f.node = Call.node /\ f.jump = Call.jump /\ f.at = Call.at
        BY <1>2
    <2>. HIDE DEF f
    <2>3. FrameReady(f)
        BY <1>2, <2>2 DEF FrameReady
    <2>4. f \in ReadyFrames
        BY <2>1, <2>3 DEF ReadyFrames
    <2>. QED
        BY <2>4 DEF f
<1>5. /\ Len(next) \in Nat /\ DOMAIN next = 1..Len(next)
      /\ \A i \in DOMAIN next : next[i] \in Blocks
    BY <1>3, LenProperties, ElementOfSeq
<1>6. frames \in Seq(ReadyFrames)
    <2>1. frames \in [1..Len(next) -> ReadyFrames]
        BY <1>4, <1>5
    <2>. QED
        BY <1>5, <2>1, SeqDef
<1>7. walk' \in Seq(ReadyFrames)
    <2>1. walk' = frames \o Tail(walk)
        BY DEF WalkDescend
    <2>. QED
        BY <1>2, <1>6, <2>1, ConcatProperties
<1>8. /\ UNCHANGED <<ast, code, nextValue, closed, result, held, top, symtab, varId>>
      /\ UNCHANGED <<succ, nodeBlock, worklist>>
    BY DEF WalkDescend
<1>. QED
    BY <1>7, <1>8, FlowParts, QuietStep

LEMMA WalkSkipStep == IInv /\ WalkSkip => IInv'
<1>. SUFFICES ASSUME IInv, WalkSkip PROVE IInv'
    OBVIOUS
<1>1. walk # <<>> /\ walk' = Tail(walk)
    BY DEF WalkSkip, Walking
<1>2. walk' \in Seq(ReadyFrames)
    BY <1>1, CallReady
<1>3. /\ UNCHANGED <<ast, code, nextValue, closed, result, held, top, symtab, varId>>
      /\ UNCHANGED <<succ, nodeBlock, worklist>>
    BY DEF WalkSkip
<1>. QED
    BY <1>2, <1>3, FlowParts, QuietStep

LEMMA WalkLinkStep == IInv /\ WalkLink => IInv'
<1>. SUFFICES ASSUME IInv, WalkLink PROVE IInv'
    OBVIOUS
<1>1. walk # <<>> /\ walk' = Tail(walk) /\ Call.do = "link"
    BY DEF WalkLink, Walking
<1>2. /\ walk' \in Seq(ReadyFrames)
      /\ Call.block \in Blocks /\ Call.jump \in Blocks
    BY <1>1, CallReady DEF FrameReady
<1>3. succ' \in [Blocks -> Seq(Blocks)]
    <2>1. Append(succ[Call.block], Call.jump) \in Seq(Blocks)
        BY <1>2, FlowParts, AppendProperties
    <2>. QED
        BY <2>1, FlowParts DEF WalkLink
<1>4. /\ UNCHANGED <<ast, code, nextValue, closed, result, held, top, symtab, varId>>
      /\ UNCHANGED <<nodeBlock, worklist>>
    BY DEF WalkLink
<1>. QED
    BY <1>2, <1>3, <1>4, FlowParts, QuietStep

\* An item that is moved to another block is as ready as it was.
LEMMA WalkRewriteStep == IInv /\ WalkRewrite => IInv'
<1>. SUFFICES ASSUME IInv, WalkRewrite PROVE IInv'
    OBVIOUS
<1>1. walk # <<>> /\ walk' = Tail(walk) /\ Call.do = "rewrite"
    BY DEF WalkRewrite, Walking
<1>2. /\ walk' \in Seq(ReadyFrames)
      /\ Call.jump \in Blocks /\ Call.jump # NoBlock
    BY <1>1, CallReady DEF FrameReady
<1>3. nodeBlock' \in [Nodes -> Blocks \cup {NoBlock}]
    BY <1>2, FlowParts DEF WalkRewrite
<1>4. \A n \in Nodes : nodeBlock'[n] = nodeBlock[n] \/ nodeBlock'[n] # NoBlock
    BY <1>2 DEF WalkRewrite
<1>5. UNCHANGED <<ast, code, nextValue, closed, result, held, top, symtab, varId, succ>>
    BY DEF WalkRewrite
<1>6. CodeInv' /\ Blocks' = Blocks /\ Kept /\ Nodes' = Nodes
    BY <1>5, CodeSame DEF IInv, Nodes
<1>7. ReadyItems \subseteq ReadyItems'
    BY <1>4, <1>5, <1>6, ItemsStay DEF IInv
<1>8. ASSUME NEW item \in ReadyItems', NEW b \in Blocks
      PROVE  [item EXCEPT !.block = b] \in ReadyItems'
    <2>. DEFINE moved == [item EXCEPT !.block = b]
    <2>1. item \in [node : Nodes', block : Blocks', state : 0..2] /\ ItemReady(item)'
        BY DEF ReadyItems
    <2>2. moved \in [node : Nodes', block : Blocks', state : 0..2]
        BY <1>6, <2>1
    <2>3. moved.node = item.node /\ moved.state = item.state
        BY <2>1
    <2>. HIDE DEF moved
    <2>4. ItemReady(moved)'
        BY <2>1, <2>3 DEF ItemReady
    <2>5. moved \in ReadyItems'
        BY <2>2, <2>4 DEF ReadyItems
    <2>. QED
        BY <2>5 DEF moved
<1>9. worklist' \in Seq(ReadyItems')
    <2>1. worklist \in Seq(ReadyItems')
        BY <1>7, FlowParts, SeqMonotonic
    <2>2. /\ Len(worklist) \in Nat /\ DOMAIN worklist = 1..Len(worklist)
          /\ \A i \in DOMAIN worklist : worklist[i] \in ReadyItems'
        BY <2>1, LenProperties, ElementOfSeq
    <2>3. worklist' = [i \in DOMAIN worklist |->
                         IF worklist[i].block = Call.block
                         THEN [worklist[i] EXCEPT !.block = Call.jump]
                         ELSE worklist[i]]
        BY DEF WalkRewrite
    <2>4. worklist' \in [1..Len(worklist) -> ReadyItems']
        BY <1>2, <1>8, <2>2, <2>3
    <2>. QED
        BY <2>2, <2>4, SeqDef
<1>. QED
    BY <1>2, <1>3, <1>4, <1>5, <1>9, FlowParts, QuietStep

-----------------------------------------------------------------------------
(* The invariant, and what it says. *)

LEMMA IInvStutter ==
    ASSUME IInv, UNCHANGED vars
    PROVE  IInv'
<1>1. UNCHANGED <<ast, code, nextValue, closed, result, held, top, symtab, varId,
                  succ, nodeBlock, worklist, walk>>
    BY DEF vars
<1>. QED
    BY <1>1, FlowParts, QuietStep DEF IInv

LEMMA NextIInv == IInv /\ [Next]_vars => IInv'
<1>. SUFFICES ASSUME IInv, [Next]_vars PROVE IInv'
    OBVIOUS
<1>1. CASE Next
    <2>1. CASE GenLiteral \/ GenIdentifier \/ GenNullary
        BY <2>1, GenLiteralStep, GenIdentifierStep, GenNullaryStep
    <2>2. CASE GenSchedule
        BY <2>2, GenScheduleStep
    <2>3. CASE GenUnary \/ GenBinary \/ GenSlice
        BY <2>3, OperatorSteps
    <2>4. CASE GenDump \/ GenExpr \/ GenAssign \/ GenCall
        BY <2>4, GenDumpStep, GenExprStep, GenAssignStep, GenCallStep
    <2>5. CASE GenBlockEnter \/ GenBlockLeave
        BY <2>5, GenBlockEnterStep, GenBlockLeaveStep
    <2>6. CASE GenShortCircuit \/ GenShortCircuitMerge
        BY <2>6, GenShortCircuitStep, GenShortCircuitMergeStep
    <2>7. CASE GenIfBranch \/ GenIfMerge
        BY <2>7, GenIfBranchStep, GenIfMergeStep
    <2>8. CASE GenWhileEnter \/ GenWhileBranch \/ GenWhileLoop
        BY <2>8, GenWhileEnterStep, GenWhileBranchStep, GenWhileLoopStep
    <2>9. CASE WalkJump \/ WalkReturn \/ WalkDescend
        BY <2>9, WalkJumpStep, WalkReturnStep, WalkDescendStep
    <2>10. CASE WalkSkip \/ WalkLink \/ WalkRewrite
        BY <2>10, WalkSkipStep, WalkLinkStep, WalkRewriteStep
    <2>11. CASE Return
        BY <2>11, IInvStutter DEF Return
    <2>. QED
        BY <1>1, <2>1, <2>2, <2>3, <2>4, <2>5, <2>6, <2>7, <2>8, <2>9, <2>10,
           <2>11 DEF Next, Generate
<1>2. CASE UNCHANGED vars
    BY <1>2, IInvStutter
<1>. QED
    BY <1>1, <1>2

\* What the invariant says in the words of the specification.
LEMMA Consequences == IInv => TypeOK /\ UniqueIds /\ Pending
<1>. SUFFICES ASSUME IInv PROVE TypeOK /\ UniqueIds /\ Pending
    OBVIOUS
<1>1. UniqueIds
    BY DEF IInv, CodeInv
<1>2. CodeOK
    <2>1. ReadyInstructions(Blocks) \subseteq Instruction(Blocks)
        BY DEF ReadyInstructions
    <2>2. \A b \in Blocks : code[b] \in Seq(Instruction(Blocks))
        BY <2>1, BlockIsSeq, SeqMonotonic DEF IInv
    <2>. QED
        BY <2>2 DEF IInv, CodeInv, CodeOK
<1>3. WorkOK
    <2>1. ReadyItems \subseteq [node : Nodes, block : Blocks, state : 0..2]
        BY DEF ReadyItems
    <2>2. ReadyFrames \subseteq [do : Walks \cup {"link", "rewrite"}, node : Nodes, block : Blocks,
                                 jump : Blocks \cup {NoBlock}, at : Nat, value : Int]
        BY DEF ReadyFrames
    <2>3. worklist \in Seq(ReadyItems) /\ walk \in Seq(ReadyFrames)
        BY DEF IInv
    <2>. QED
        BY <2>1, <2>2, <2>3, SeqMonotonic DEF WorkOK
<1>4. TypeOK
    BY <1>2, <1>3 DEF IInv, TreeInv, TypeOK
<1>5. Pending
    <2>1. \A b \in Blocks : \A i \in DOMAIN code[b] : Shaped(code[b][i])
        BY BlockIsSeq DEF IInv, ReadyInstructions
    <2>2. \A w \in DOMAIN worklist : ItemReady(worklist[w])
        BY LenProperties, ElementOfSeq DEF IInv, ReadyItems
    <2>3. \A w \in DOMAIN walk : FrameReady(walk[w])
        BY LenProperties, ElementOfSeq DEF IInv, ReadyFrames
    <2>. QED
        BY <2>1, <2>2, <2>3 DEF Pending
<1>. QED
    BY <1>1, <1>4, <1>5

\* IInv is an invariant of the generator.
THEOREM Invariance == Spec => []IInv
<1>. QED
    BY InitIInv, NextIInv, PTL DEF Spec

\* Whatever tree ir_create is given, every node and block that its handlers
\* refer to exists, and every variable keeps its type.
THEOREM Typing == Spec => []TypeOK
<1>1. IInv => TypeOK
    BY Consequences
<1>. QED
    BY <1>1, Invariance, PTL

\* Single assignment: no two instructions ever define the same value.
THEOREM SingleAssignment == Spec => []UniqueIds
<1>1. IInv => UniqueIds
    BY Consequences
<1>. QED
    BY <1>1, Invariance, PTL

\* What an item or a walk will follow is there when its turn comes: the
\* BRANCH or the BLOCK with its targets, the PHI to fill in.
THEOREM PendingWorkIsReady == Spec => []Pending
<1>1. IInv => Pending
    BY Consequences
<1>. QED
    BY <1>1, Invariance, PTL

=============================================================================
